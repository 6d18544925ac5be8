------------------------------ MODULE MCFping -------------------------------
(* Small instances of Fping: three spellings, three addresses. *)
EXTENDS Fping, TLC

CONSTANTS a1, a2, a3,   \* addresses
          t1, t2, t3,   \* what inet_ntoa makes of them
          alias,        \* another spelling of a1, such as an octal one
          junk          \* a word that is no address

MCAddrs == {a1, a2, a3}
MCTexts == {t1, t2, t3, alias, junk}
MCInetAddr == t1 :> a1 @@ t2 :> a2 @@ t3 :> a3 @@ alias :> a1 @@ junk :> Null
MCInetNtoa == a1 :> t1 @@ a2 :> t2 @@ a3 :> t3

\* Every host answers from its own address.
OwnAddress == [a \in MCAddrs |-> {a}]
\* a2 is silent.
OneSilent == [a \in MCAddrs |-> {a} \ {a2}]
\* a2 has two interfaces.
Multihomed == [a \in MCAddrs |-> IF a = a2 THEN {a2, a3} ELSE {a}]

\* An echo reply for another process, from the host that never answers us, and an
\* ICMP error.
OtherPackets == {[type |-> "echoreply", src |-> a2, id |-> Pid + 1, seq |-> 0],
                 [type |-> "other", src |-> a3, id |-> 0, seq |-> 0]}

\* Echo replies with our id that we never asked for, up to one past the array.
SameId == {[type |-> "echoreply", src |-> a1, id |-> Pid, seq |-> s] :
             s \in {g_count, MAX_COUNT}}

Noise == OtherPackets \cup SameId

=============================================================================
