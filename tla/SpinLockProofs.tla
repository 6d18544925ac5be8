---------------------------- MODULE SpinLockProofs ----------------------------
(***************************************************************************)
(* The spin lock implements a recursive lock, for any threads and any      *)
(* depth.  The invariant says for every place in the code what a thread    *)
(* there may rely on; from it, l is 1 exactly while some thread has the    *)
(* lock, and no two have it.                                               *)
(***************************************************************************)
EXTENDS SpinLock, TLAPS

\* Only one thread has the lock, and l tells whether one does.
Exclusive ==
  /\ \A t, u \in Threads : HasLock(t) /\ HasLock(u) => t = u
  /\ l = 0 <=> \A t \in Threads : ~HasLock(t)

\* What the words are while a thread is at a place of the code.
WhenAt(t) ==
  /\ pc[t] \in {"exchange", "count", "sign", "unsign", "open"} =>
       depth[t] = IF pc[t] = "exchange" THEN 0 ELSE 1
  /\ pc[t] \in {"count", "sign", "open"} => threadid = NoThread
  /\ pc[t] \in {"again", "drop"} => HasLock(t)
  /\ pc[t] = "again" => depth[t] < MaxDepth
  /\ pc[t] \in {"look", "owner"} => depth[t] < MaxDepth
  /\ pc[t] = "sign" => c = 1
  /\ pc[t] = "unsign" => threadid = t /\ c = 0
  /\ HasLock(t) /\ pc[t] \in {"out", "look", "owner", "again", "drop"} =>
       threadid = t /\ c = depth[t]
  /\ threadid = t => HasLock(t)
  /\ pc[t] = "open" => c = 0

Inv == TypeOK /\ Exclusive /\ \A t \in Threads : WhenAt(t)

LEMMA InitInv == Init => Inv
BY SpinLockAssumption DEF Init, Inv, TypeOK, Exclusive, WhenAt, HasLock

LEMMA NextInv == Inv /\ [Next]_vars => Inv'
<1> SUFFICES ASSUME Inv, [Next]_vars PROVE Inv'
  OBVIOUS
<1> USE SpinLockAssumption
<1>1. ASSUME UNCHANGED vars PROVE Inv'
  BY <1>1 DEF vars, Inv, TypeOK, Exclusive, WhenAt, HasLock
<1>2. ASSUME NEW t \in Threads, Call(t) PROVE Inv'
  BY <1>2 DEF Call, Goes, Inv, TypeOK, Exclusive, WhenAt, HasLock
<1>3. ASSUME NEW t \in Threads, CallRelease(t) PROVE Inv'
  BY <1>3 DEF CallRelease, Goes, Inv, TypeOK, Exclusive, WhenAt, HasLock
<1>4. ASSUME NEW t \in Threads, Look(t) PROVE Inv'
  BY <1>4 DEF Look, Goes, Inv, TypeOK, Exclusive, WhenAt, HasLock
<1>5. ASSUME NEW t \in Threads, IsOwner(t) PROVE Inv'
  BY <1>5 DEF IsOwner, Refused, Goes, Inv, TypeOK, Exclusive, WhenAt, HasLock
<1>6. ASSUME NEW t \in Threads, Again(t) PROVE Inv'
  BY <1>6 DEF Again, Goes, Inv, TypeOK, Exclusive, WhenAt, HasLock
<1>7. ASSUME NEW t \in Threads, Exchange(t) PROVE Inv'
  BY <1>7 DEF Exchange, Refused, Goes, Inv, TypeOK, Exclusive, WhenAt, HasLock
<1>8. ASSUME NEW t \in Threads, Count(t) PROVE Inv'
  BY <1>8 DEF Count, Goes, Inv, TypeOK, Exclusive, WhenAt, HasLock
<1>9. ASSUME NEW t \in Threads, Sign(t) PROVE Inv'
  BY <1>9 DEF Sign, Goes, Inv, TypeOK, Exclusive, WhenAt, HasLock
<1>10. ASSUME NEW t \in Threads, Drop(t) PROVE Inv'
  BY <1>10 DEF Drop, Goes, Inv, TypeOK, Exclusive, WhenAt, HasLock
<1>11. ASSUME NEW t \in Threads, Unsign(t) PROVE Inv'
  BY <1>11 DEF Unsign, Goes, Inv, TypeOK, Exclusive, WhenAt, HasLock
<1>12. ASSUME NEW t \in Threads, Open(t) PROVE Inv'
  BY <1>12 DEF Open, Goes, Inv, TypeOK, Exclusive, WhenAt, HasLock
<1>13. QED
  BY <1>1, <1>2, <1>3, <1>4, <1>5, <1>6, <1>7, <1>8, <1>9, <1>10, <1>11, <1>12 DEF Next, Step

\* The words of the lock always have their types, and what WhenAt says of each place
\* in the code holds (pthread_acquire_lock, pthread_try_lock, pthread_release_lock).
THEOREM Invariance == Spec => []Inv
BY InitInv, NextInv, PTL DEF Spec

\* Every variable has its type; the count never passes the bound.
THEOREM Typed == Spec => []TypeOK
BY Invariance, PTL DEF Inv

\* Neither assertion of the lock can fail, whatever the interleaving.
THEOREM NoAssertionFails == Spec => []AssertionsHold
<1>1. Inv => AssertionsHold
  BY SpinLockAssumption DEF Inv, TypeOK, Exclusive, WhenAt, AssertionsHold, HasLock
<1>2. QED
  BY <1>1, Invariance, PTL

\* The count says how often the owner has the lock.
THEOREM Counted == Spec => []CountExact
<1>1. Inv => CountExact
  BY SpinLockAssumption DEF Inv, TypeOK, Exclusive, WhenAt, CountExact, HasLock
<1>2. QED
  BY <1>1, Invariance, PTL

-----------------------------------------------------------------------------
(* Refinement. *)

LEMMA Owners ==
  ASSUME Inv
  PROVE  /\ \A t \in Threads : HasLock(t) => Owner = t /\ Depth = depth[t]
         /\ (\A t \in Threads : ~HasLock(t)) => Owner = NoThread /\ Depth = 0
BY SpinLockAssumption DEF Inv, TypeOK, Exclusive, Owner, Depth

LEMMA OwnersNext ==
  ASSUME Inv'
  PROVE  /\ \A t \in Threads : HasLock(t)' => Owner' = t /\ Depth' = depth'[t]
         /\ (\A t \in Threads : ~HasLock(t)') => Owner' = NoThread /\ Depth' = 0
BY SpinLockAssumption DEF Inv, TypeOK, Exclusive, Owner, Depth, HasLock

\* While nobody's count changes the abstract lock stays as it is.
LEMMA Stays ==
  ASSUME UNCHANGED depth
  PROVE  UNCHANGED <<Owner, Depth>>
BY DEF Owner, Depth, HasLock

LEMMA StepRefines == Inv /\ Inv' /\ [Next]_vars => [Lock!Next]_<<Owner, Depth>>
<1> SUFFICES ASSUME Inv, Inv', [Next]_vars PROVE [Lock!Next]_<<Owner, Depth>>
  OBVIOUS
<1> USE SpinLockAssumption
<1>1. CASE UNCHANGED depth
  BY <1>1, Stays
<1>2. ASSUME NEW t \in Threads, depth' = [depth EXCEPT ![t] = @ + 1], HasLock(t)
      PROVE  Lock!Acquire(t)
  <2>1. HasLock(t)' /\ depth'[t] = depth[t] + 1
    BY <1>2 DEF Inv, TypeOK, HasLock
  <2>2. QED
    BY <1>2, <2>1, Owners, OwnersNext DEF Lock!Acquire
<1>3. ASSUME NEW t \in Threads, Exchange(t), depth' # depth
      PROVE  Lock!Acquire(t)
  <2>1. /\ \A u \in Threads : ~HasLock(u)
        /\ HasLock(t)' /\ depth'[t] = 1
    BY <1>3 DEF Exchange, Inv, TypeOK, Exclusive, HasLock
  <2>2. QED
    BY <2>1, Owners, OwnersNext DEF Lock!Acquire
<1>4. ASSUME NEW t \in Threads, Drop(t), depth' # depth
      PROVE  Lock!Release(t)
  <2>1. /\ HasLock(t) /\ HasLock(t)' /\ depth[t] > 1 /\ depth'[t] = depth[t] - 1
    BY <1>4 DEF Drop, Goes, Inv, TypeOK, WhenAt, HasLock
  <2>2. QED
    BY <2>1, Owners, OwnersNext DEF Lock!Release, Inv, TypeOK
<1>5. ASSUME NEW t \in Threads, Open(t)
      PROVE  Lock!Release(t)
  <2>1. HasLock(t) /\ depth[t] = 1 /\ \A u \in Threads : ~HasLock(u)'
    BY <1>5 DEF Open, Goes, Inv, TypeOK, Exclusive, WhenAt, HasLock
  <2>2. QED
    BY <2>1, Owners, OwnersNext DEF Lock!Release
<1>6. ASSUME NEW t \in Threads, Again(t)
      PROVE  Lock!Acquire(t)
  <2>1. depth' = [depth EXCEPT ![t] = @ + 1] /\ HasLock(t)
    BY <1>6 DEF Again, Goes, Inv, WhenAt
  <2>2. QED
    BY <1>2, <2>1
<1>7. CASE \E t \in Threads : Exchange(t) \/ Drop(t) \/ Open(t) \/ Again(t)
  BY <1>1, <1>3, <1>4, <1>5, <1>6, <1>7 DEF Lock!Next
<1>8. CASE \E t \in Threads : Call(t) \/ CallRelease(t) \/ Look(t) \/ IsOwner(t) \/ Count(t)
                              \/ Sign(t) \/ Unsign(t)
  BY <1>1, <1>8 DEF Call, CallRelease, Look, IsOwner, Count, Sign, Unsign
<1>9. QED
  BY <1>1, <1>7, <1>8 DEF Next, Step, vars

\* The spin lock is a recursive lock: every step of it takes or lets go of the
\* abstract lock, or changes nothing of it.
THEOREM Refinement == Spec => ImplementsLock
<1>1. Init => Lock!Init
  <2> SUFFICES ASSUME Init PROVE Lock!Init
    OBVIOUS
  <2>1. Inv /\ \A t \in Threads : ~HasLock(t)
    BY InitInv DEF Init, HasLock
  <2>2. QED
    BY <2>1, Owners DEF Lock!Init
<1>2. Spec => []Inv
  BY Invariance
<1>3. Inv /\ Inv' /\ [Next]_vars => [Lock!Next]_<<Owner, Depth>>
  BY StepRefines
<1>4. QED
  BY <1>1, <1>2, <1>3, PTL DEF Spec, ImplementsLock, Lock!Spec
=============================================================================
