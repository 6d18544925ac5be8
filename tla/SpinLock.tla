------------------------------- MODULE SpinLock -------------------------------
(***************************************************************************)
(* The spin lock of malloc.c.h (pthread_mlock_t), which guards every       *)
(* mspace and every pool.  Its three words are read and written one after  *)
(* the other; only cmpxchgl and xchgl touch l atomically against other     *)
(* threads.  A thread may take the lock again while it has it.             *)
(***************************************************************************)
EXTENDS Integers

CONSTANTS
  Threads,
  NoThread,  \* the 0 of threadid
  MaxDepth   \* bound: how often a thread takes the lock before it lets go

ASSUME SpinLockAssumption == NoThread \notin Threads /\ MaxDepth \in Nat \ {0}

VARIABLES
  l, c, threadid,  \* the words of the lock
  pc,              \* where a thread is in a routine of the lock, "out" if in none
  trying,          \* whether it is in pthread_try_lock
  depth            \* how often it has the lock, from the exchange of l on

vars == <<l, c, threadid, pc, trying, depth>>

Goes(t, from, to) == pc[t] = from /\ pc' = [pc EXCEPT ![t] = to]

Init ==
  /\ l = 0 /\ c = 0 /\ threadid = NoThread
  /\ pc = [t \in Threads |-> "out"]
  /\ trying = [t \in Threads |-> FALSE]
  /\ depth = [t \in Threads |-> 0]

-----------------------------------------------------------------------------
(* pthread_acquire_lock and pthread_try_lock *)

Call(t) ==
  /\ depth[t] < MaxDepth
  /\ Goes(t, "out", "look")
  /\ \E try \in BOOLEAN : trying' = [trying EXCEPT ![t] = try]
  /\ UNCHANGED <<l, c, threadid, depth>>

\* if (*lp != 0)
Look(t) ==
  /\ Goes(t, "look", IF l # 0 THEN "owner" ELSE "exchange")
  /\ UNCHANGED <<l, c, threadid, trying, depth>>

\* Where a thread goes that did not get the lock
Refused(t) == IF trying[t] THEN "out" ELSE "look"

\* if (sl->threadid == CURRENT_THREAD)
IsOwner(t) ==
  /\ Goes(t, "owner", IF threadid = t THEN "again" ELSE Refused(t))
  /\ UNCHANGED <<l, c, threadid, trying, depth>>

\* Mutated: the lock is not counted again.
Again_NotCounted(t) ==
  /\ Goes(t, "again", "out")
  /\ depth' = [depth EXCEPT ![t] = @ + 1]
  /\ UNCHANGED <<l, c, threadid, trying>>

\* ++sl->c
Again(t) ==
  /\ Goes(t, "again", "out")
  /\ c' = c + 1
  /\ depth' = [depth EXCEPT ![t] = @ + 1]
  /\ UNCHANGED <<l, threadid, trying>>

\* cmpxchgl
Exchange(t) ==
  \/ /\ l = 0 /\ Goes(t, "exchange", "count")
     /\ l' = 1 /\ depth' = [depth EXCEPT ![t] = 1]
     /\ UNCHANGED <<c, threadid, trying>>
  \/ /\ l # 0 /\ Goes(t, "exchange", Refused(t))
     /\ UNCHANGED <<l, c, threadid, trying, depth>>

\* assert(!sl->threadid); sl->c = 1
Count(t) ==
  /\ Goes(t, "count", "sign")
  /\ c' = 1
  /\ UNCHANGED <<l, threadid, trying, depth>>

\* sl->threadid = CURRENT_THREAD
Sign(t) ==
  /\ Goes(t, "sign", "out")
  /\ threadid' = t
  /\ UNCHANGED <<l, c, trying, depth>>

-----------------------------------------------------------------------------
(* pthread_release_lock *)

\* Only a thread that has the lock calls it.
CallRelease(t) ==
  /\ depth[t] > 0
  /\ Goes(t, "out", "drop")
  /\ UNCHANGED <<l, c, threadid, trying, depth>>

\* if (--sl->c == 0)
Drop(t) ==
  /\ c' = c - 1
  /\ \/ c = 1 /\ Goes(t, "drop", "unsign") /\ UNCHANGED depth
     \/ c # 1 /\ Goes(t, "drop", "out") /\ depth' = [depth EXCEPT ![t] = @ - 1]
  /\ UNCHANGED <<l, threadid, trying>>

\* Mutated: the owner is not cleared.
Unsign_Kept(t) == Goes(t, "unsign", "open") /\ UNCHANGED <<l, c, threadid, trying, depth>>

\* sl->threadid = 0
Unsign(t) ==
  /\ Goes(t, "unsign", "open")
  /\ threadid' = NoThread
  /\ UNCHANGED <<l, c, trying, depth>>

\* Mutated: the lock stays closed.
Open_Closed(t) ==
  /\ Goes(t, "open", "out")
  /\ depth' = [depth EXCEPT ![t] = 0]
  /\ UNCHANGED <<l, c, threadid, trying>>

\* xchgl
Open(t) ==
  /\ Goes(t, "open", "out")
  /\ l' = 0
  /\ depth' = [depth EXCEPT ![t] = 0]
  /\ UNCHANGED <<c, threadid, trying>>

-----------------------------------------------------------------------------
Step(t) ==
  \/ Look(t) \/ IsOwner(t) \/ Again(t) \/ Exchange(t) \/ Count(t) \/ Sign(t)
  \/ Drop(t) \/ Unsign(t) \/ Open(t)

Next == \E t \in Threads : Call(t) \/ CallRelease(t) \/ Step(t)

Spec == Init /\ [][Next]_vars

\* A thread in a routine is scheduled again and again; whether one that has the lock
\* ever lets go of it is its own business.
FairSpec == Spec /\ \A t \in Threads : WF_vars(Step(t))

-----------------------------------------------------------------------------
(* Properties. *)

TypeOK ==
  /\ l \in {0, 1} /\ c \in 0..MaxDepth /\ threadid \in Threads \cup {NoThread}
  /\ pc \in [Threads -> {"out", "look", "owner", "again", "exchange", "count", "sign",
                         "drop", "unsign", "open"}]
  /\ trying \in [Threads -> BOOLEAN] /\ depth \in [Threads -> 0..MaxDepth]

\* The two assertions of the code hold: whoever exchanged l finds no owner, and
\* whoever releases the lock is its owner and finds it closed.
AssertionsHold == \A t \in Threads :
  /\ pc[t] = "count" => threadid = NoThread
  /\ pc[t] = "drop" => l # 0 /\ threadid = t

\* The count that decides when the lock opens is how often its owner took it.
CountExact == \A t \in Threads : pc[t] = "out" /\ depth[t] > 0 => c = depth[t] /\ threadid = t

HasLock(t) == depth[t] > 0
Owner == IF \E t \in Threads : HasLock(t) THEN CHOOSE t \in Threads : HasLock(t) ELSE NoThread
Depth == IF Owner = NoThread THEN 0 ELSE depth[Owner]

\* The words read one after the other, a stale l included, never make two threads
\* believe that the lock is theirs: the lock behaves as if it were taken and let go
\* in one step.
Lock == INSTANCE RecursiveLock WITH owner <- Owner, depth <- Depth

ImplementsLock == Lock!Spec

\* A thread that asks for the lock gets an answer, or some other thread has the lock;
\* which of those who spin gets it next is left open.
NobodyLockedOut == \A t \in Threads :
  pc[t] = "look" ~> (pc[t] = "out" \/ \E u \in Threads \ {t} : HasLock(u))
=============================================================================
