----------------------------- MODULE RecursiveLock -----------------------------
(***************************************************************************)
(* What a recursive lock promises: one thread has it at a time, and has it *)
(* until it has let go as often as it took it.                             *)
(***************************************************************************)
EXTENDS Integers

CONSTANTS Threads, NoThread

VARIABLES owner, depth

Init == owner = NoThread /\ depth = 0

Acquire(t) == owner \in {NoThread, t} /\ owner' = t /\ depth' = depth + 1

Release(t) ==
  /\ owner = t
  /\ depth' = depth - 1
  /\ owner' = IF depth = 1 THEN NoThread ELSE t

Next == \E t \in Threads : Acquire(t) \/ Release(t)

Spec == Init /\ [][Next]_<<owner, depth>>
=============================================================================
