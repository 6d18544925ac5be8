-------------------------------- MODULE Icmp --------------------------------
(***************************************************************************)
(* The ICMP layer of fping (icmp.c): which packets icmp_recv hands to the  *)
(* receive thread, and what an echo request says about its sender.         *)
(*                                                                         *)
(* A packet is a record: its ICMP type as the raw socket shows it, the     *)
(* address it comes from, and the two words of the echo header.  "short"   *)
(* stands for a failed recvfrom or a packet below the size of two headers, *)
(* "other" for the ICMP types that pass the filter set by icmp_open and    *)
(* are not echo replies.                                                   *)
(***************************************************************************)
EXTENDS Integers

CONSTANTS
  Addrs,    \* IPv4 addresses that can appear as the source of a packet
  Pid,      \* getpid()
  IdSpace   \* number of values of the 16-bit echo id: 65536 in the code

ASSUME PidAssumption == Pid \in Nat /\ IdSpace \in Nat \ {0}

PacketTypes == {"echoreply", "other", "short"}

Packets == [type : PacketTypes, src : Addrs, id : Nat, seq : Nat]

\* icmp_send puts htons(getpid() & 0xFFFF) in the header.
EchoId == Pid % IdSpace

EchoReply(a, s) == [type |-> "echoreply", src |-> a, id |-> EchoId, seq |-> s]

\* Mutated: every echo reply is taken for ours.
IsOurs_AnyId(m) == m.type = "echoreply"

\* icmp_recv returns 0 and the sequence number; it compares the whole pid.
IsOurs(m) == m.type = "echoreply" /\ m.id = Pid

=============================================================================
