------------------------------- MODULE Start --------------------------------
(***************************************************************************)
(* The program up to its first request, in the order of main (main.c): the *)
(* options, the file with the addresses, and the packet of a request.      *)
(* To keep the instances small, at most one of the three is more than      *)
(* empty; none of them reads what the others wrote.                        *)
(***************************************************************************)
EXTENDS Options, Input, Checksum

CONSTANTS
  MaxOptions,  \* bound: options on a command line
  MaxLength    \* bound: characters of a file

ASSUME StartAssumption == {MaxOptions, MaxLength} \subseteq Nat

vars == <<argVars, lineVars, packet>>

Init ==
  /\ packet = <<>>
  /\ \/ ArgsGiven(BoundedSeq(Option, MaxOptions), FirstLevels) /\ FileOpened({<<>>})
     \/ ArgsGiven({<<>>}, {LL_ERROR}) /\ FileOpened(BoundedSeq(Chars, MaxLength))

\* args_init, then result_new if the options are good, then icmp_send
Next ==
  \/ args_init /\ UNCHANGED <<lineVars, packet>>
  \/ code = "ok" /\ result_new /\ UNCHANGED <<argVars, packet>>
  \/ done /\ file = <<>> /\ given = <<>> /\ Fill /\ UNCHANGED <<argVars, lineVars>>

Spec == Init /\ [][Next]_vars

=============================================================================
