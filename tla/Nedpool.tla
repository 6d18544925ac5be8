------------------------------- MODULE Nedpool -------------------------------
(***************************************************************************)
(* A pool of nedmalloc.c and the threads that use it.  A thread keeps in   *)
(* thread-local storage either its cache or the mspace it used last; when  *)
(* that one is locked it looks for another, or makes one.  What is in a    *)
(* cache is in the module ThreadCache, what is in an mspace in Mspace.     *)
(* Locks are those of RecursiveLock, each taken once by its thread.        *)
(***************************************************************************)
EXTENDS Integers

CONSTANTS
  Threads,
  NoThread,
  MaxThreadsInPool,  \* p->threads
  MaxCaches,         \* THREADCACHEMAXCACHES
  Spaces,            \* the mspaces there is memory for
  NoSpace            \* a null pointer in p->m

ASSUME NedpoolAssumption ==
  /\ MaxThreadsInPool \in Nat \ {0} /\ MaxCaches \in Nat
  /\ NoThread \notin Threads /\ NoSpace \notin Spaces

VARIABLES
  threads,   \* p->threads, 0 until the pool is ready
  mutex,     \* owner of p->mutex
  m,         \* p->m: index -> mspace
  lock,      \* owners of the locks of the mspaces
  made,      \* the mspaces that were created and not destroyed
  caches,    \* p->caches: slot -> the thread it was made for and its mymspace
  tls,       \* p->mycache of each thread
  at, my,    \* where a thread is, and its local variables
  asserts,   \* whether the build has assertions
  process    \* "runs", "aborted", or "crashed" by a null pointer

vars == <<threads, mutex, m, lock, made, caches, tls, at, my, asserts, process>>
pool == <<threads, m, made, asserts>>

Slots == 0..MaxCaches - 1
Indices == 0..MaxThreadsInPool  \* the last one is always null
NoSlot == -1
NoCache == [threadid |-> NoThread, mymspace |-> -1]
Locals == [cache |-> NoSlot, last |-> 0, n |-> 0, end |-> 0, temp |-> NoSpace]

Goes(t, from, to) ==
  process = "runs" /\ at[t] = from /\ at' = [at EXCEPT ![t] = to]

Done(t) == my' = [my EXCEPT ![t] = Locals]
Free(s) == lock[s] = NoThread
Take(t, s) == lock[s] = NoThread /\ lock' = [lock EXCEPT ![s] = t]

-----------------------------------------------------------------------------
(* GetThreadCache *)

\* What the thread-local value of a thread with or without a cache means
HasCache(t) == tls[t] > 0
MySlot(t) == tls[t] - 1

\* Mutated: mspace-1 is taken for the mspace.
MyMspace_Shifted(t) == IF HasCache(t) THEN caches[MySlot(t)].mymspace ELSE -tls[t]

MyMspace(t) == IF HasCache(t) THEN caches[MySlot(t)].mymspace ELSE -tls[t] - 1

\* What the call knows then
Knows(t) ==
  my' = [my EXCEPT ![t].cache = IF HasCache(t) THEN MySlot(t) ELSE NoSlot,
                   ![t].last = MyMspace(t)]

\* A call starts: nedpmalloc_trim, nedpmallinfo, the statistics walk over the pool, the
\* others look for the cache first.
Call(t) ==
  \/ /\ threads = 0 /\ Goes(t, "idle", "init") /\ UNCHANGED my
     /\ UNCHANGED <<pool, mutex, lock, caches, tls, process>>
  \/ /\ threads # 0 /\ Goes(t, "idle", "walk") /\ UNCHANGED my
     /\ UNCHANGED <<pool, mutex, lock, caches, tls, process>>
  \/ /\ threads # 0 /\ tls[t] = 0 /\ Goes(t, "idle", "alloc") /\ UNCHANGED my
     /\ UNCHANGED <<pool, mutex, lock, caches, tls, process>>
  \/ /\ threads # 0 /\ tls[t] # 0 /\ Goes(t, "idle", "known") /\ Knows(t)
     /\ UNCHANGED <<pool, mutex, lock, caches, tls, process>>

\* InitPool, all of it under the global lock
InitPool(t) ==
  /\ Goes(t, "init", "idle")
  /\ \/ threads # 0 /\ UNCHANGED <<pool, process>>
     \/ /\ threads = 0 /\ threads' = MaxThreadsInPool
        /\ \E s \in Spaces \ made :
             m' = [m EXCEPT ![0] = s] /\ made' = made \cup {s}
        /\ UNCHANGED <<asserts, process>>
     \/ threads = 0 /\ process' = "aborted" /\ UNCHANGED pool
  /\ UNCHANGED <<mutex, lock, caches, tls, my>>

\* AllocCache: ACQUIRE_LOCK(&p->mutex)
CachesLock(t) == mutex = NoThread /\ mutex' = t

\* for(n=0; n<THREADCACHEMAXCACHES && p->caches[n]; n++)
FirstEmpty == {k \in 0..MaxCaches : /\ k < MaxCaches => caches[k] = NoCache
                                    /\ \A j \in 0..k - 1 : caches[j] # NoCache}

AllocCache(t) ==
  /\ Goes(t, "alloc", "fill") /\ CachesLock(t)
  /\ \E k \in FirstEmpty : my' = [my EXCEPT ![t].n = k]
  /\ UNCHANGED <<pool, lock, caches, tls, process>>

\* THREADCACHEMAXCACHES==n
Exhausted(n) == n = MaxCaches

\* Without a cache the thread uses mspace 0 from now on.
NoCacheFor(t) ==
  /\ tls' = [tls EXCEPT ![t] = -1]
  /\ my' = [my EXCEPT ![t].cache = NoSlot, ![t].last = 0]
  /\ UNCHANGED caches

\* The mspaces a loop over the pool reaches, which ends at the first null pointer
Found == {k \in Indices : \A j \in 0..k : m[j] # NoSpace}

\* AllocCache up to RELEASE_LOCK and TLSSET; mspace_calloc locks mspace 0 and may
\* fail; the first mspace of the cache is threadid % end.
FillCache(t) ==
  /\ Goes(t, "fill", "known")
  /\ LET n == my[t].n
     IN  \/ Exhausted(n) /\ NoCacheFor(t)
         \/ ~Exhausted(n) /\ Free(m[0]) /\ NoCacheFor(t)
         \/ /\ ~Exhausted(n) /\ Free(m[0])
            /\ \E k \in Found :
                 /\ caches' = [caches EXCEPT ![n] = [threadid |-> t, mymspace |-> k]]
                 /\ my' = [my EXCEPT ![t].cache = n, ![t].last = k]
            /\ tls' = [tls EXCEPT ![t] = n + 1]
  /\ mutex' = NoThread
  /\ UNCHANGED <<pool, lock, process>>

\* assert(CURRENT_THREAD == (*tc)->threadid)
ReadsNull(t) == asserts /\ my[t].cache = NoSlot

Crash(t) ==
  /\ Goes(t, "known", "idle") /\ ReadsNull(t)
  /\ process' = "crashed"
  /\ Done(t)
  /\ UNCHANGED <<pool, mutex, lock, caches, tls>>

\* A call that the cache serves, or a block freed, or one for an mspace
Continue(t) ==
  /\ ~ReadsNull(t)
  /\ \/ my[t].cache # NoSlot /\ Goes(t, "known", "idle") /\ Done(t)
     \/ Goes(t, "known", "free") /\ UNCHANGED my
     \/ Goes(t, "known", "try") /\ UNCHANGED my
  /\ UNCHANGED <<pool, mutex, lock, caches, tls, process>>

SomeFree == \E k \in Indices : m[k] # NoSpace /\ Free(m[k])

\* mspace_free locks the mspace of the block, whichever that is.
FreeBlock(t) ==
  /\ Goes(t, "free", "idle")
  /\ SomeFree /\ Done(t)
  /\ UNCHANGED <<pool, mutex, lock, caches, tls, process>>

\* nedpmalloc_trim, nedpmallinfo: each mspace in turn
Walk(t) ==
  LET n == my[t].n
  IN  /\ \/ Goes(t, "walk", "idle") /\ m[n] = NoSpace /\ Done(t)
         \/ /\ Goes(t, "walk", "walk") /\ m[n] # NoSpace /\ Free(m[n])
            /\ my' = [my EXCEPT ![t].n = n + 1]
      /\ UNCHANGED <<pool, mutex, lock, caches, tls, process>>

-----------------------------------------------------------------------------
(* GetMSpace and FindMSpace *)

TryMine(t) ==
  LET s == m[my[t].last]
  IN  /\ \/ Goes(t, "try", "use") /\ Take(t, s) /\ UNCHANGED my
         \/ /\ Goes(t, "try", "up") /\ ~Free(s) /\ UNCHANGED lock
            /\ my' = [my EXCEPT ![t].n = my[t].last + 1, ![t].end = my[t].last + 1]
      /\ UNCHANGED <<pool, mutex, caches, tls, process>>

\* found: the thread remembers the mspace, in its cache or in thread-local storage.
Remembers(t, n) ==
  /\ IF my[t].cache # NoSlot
       THEN caches' = [caches EXCEPT ![my[t].cache].mymspace = n] /\ UNCHANGED tls
       ELSE tls' = [tls EXCEPT ![t] = -(n + 1)] /\ UNCHANGED caches
  /\ my' = [my EXCEPT ![t].last = n]

LookUp(t) ==
  LET n == my[t].n
  IN  /\ \/ /\ Goes(t, "up", "down") /\ m[n] = NoSpace
            /\ my' = [my EXCEPT ![t].n = 0] /\ UNCHANGED <<lock, caches, tls>>
         \/ /\ Goes(t, "up", "use") /\ m[n] # NoSpace /\ Take(t, m[n])
            /\ Remembers(t, n)
         \/ /\ Goes(t, "up", "up") /\ m[n] # NoSpace /\ ~Free(m[n])
            /\ my' = [my EXCEPT ![t].n = n + 1, ![t].end = n + 1]
            /\ UNCHANGED <<lock, caches, tls>>
      /\ UNCHANGED <<pool, mutex, process>>

LookDown(t) ==
  LET n == my[t].n
      more == n < my[t].last
  IN  /\ \/ /\ Goes(t, "down", IF my[t].end < threads THEN "create" ELSE "wait") /\ ~more
            /\ UNCHANGED <<lock, caches, tls, my>>
         \/ Goes(t, "down", "use") /\ more /\ Take(t, m[n]) /\ Remembers(t, n)
         \/ /\ Goes(t, "down", "down") /\ more /\ ~Free(m[n]) /\ my' = [my EXCEPT ![t].n = n + 1]
            /\ UNCHANGED <<lock, caches, tls>>
      /\ UNCHANGED <<pool, mutex, process>>

\* create_mspace, which may fail
Create(t) ==
  /\ \/ /\ Goes(t, "create", "insert")
        /\ \E s \in Spaces \ made : made' = made \cup {s} /\ my' = [my EXCEPT ![t].temp = s]
     \/ Goes(t, "create", "wait") /\ UNCHANGED <<made, my>>
  /\ UNCHANGED <<threads, mutex, m, lock, asserts, caches, tls, process>>

\* Mutated: the end found before the lock is taken is still the end.
EndNow_Old(t) == {my[t].end}

\* while(p->m[end] && end < p->threads) end++
EndNow(t) ==
  {k \in my[t].end..MaxThreadsInPool :
     /\ m[k] = NoSpace \/ k >= threads
     /\ \A j \in my[t].end..k - 1 : m[j] # NoSpace /\ j < threads}

\* Drat, must destroy it now
Unwanted(t) == made' = made \ {my[t].temp}

\* Under p->mutex: the new mspace gets its place, or goes.
Insert(t) ==
  /\ mutex = NoThread
  /\ \E end \in EndNow(t) :
         \/ /\ Goes(t, "insert", "wait") /\ end >= threads
            /\ Unwanted(t) /\ my' = [my EXCEPT ![t].temp = NoSpace] /\ UNCHANGED <<mutex, m>>
         \/ /\ Goes(t, "insert", "locknew") /\ end < threads
            /\ m' = [m EXCEPT ![end] = my[t].temp] /\ mutex' = t
            /\ my' = [my EXCEPT ![t].temp = NoSpace, ![t].n = end]
            /\ UNCHANGED made
  /\ UNCHANGED <<threads, lock, asserts, caches, tls, process>>

\* Mutated: the new mspace is taken to be nobody else's.
NewLock_Assumed(t, s) == UNCHANGED lock

\* ACQUIRE_LOCK(&p->m[end]->mutex)
NewLock(t, s) == Take(t, s)

\* Mutated: p->mutex is not released.
Unlock_Missing == UNCHANGED mutex

\* RELEASE_LOCK(&p->mutex)
Unlock == mutex' = NoThread

LockNew(t) ==
  /\ Goes(t, "locknew", "use") /\ NewLock(t, m[my[t].n])
  /\ Unlock
  /\ Remembers(t, my[t].n)
  /\ UNCHANGED <<pool, process>>

\* badexit: wait for the one it used last
Wait(t) ==
  /\ Goes(t, "wait", "use") /\ Take(t, m[my[t].last])
  /\ UNCHANGED <<pool, mutex, caches, tls, my, process>>

\* GETMSPACE: the action on the mspace, and RELEASE_LOCK
Use(t) ==
  /\ Goes(t, "use", "idle")
  /\ lock' = [lock EXCEPT ![m[my[t].last]] = NoThread]
  /\ Done(t)
  /\ UNCHANGED <<pool, mutex, caches, tls, process>>

-----------------------------------------------------------------------------
neddisablethreadcache(t) ==
  /\ threads # 0
  /\ \/ tls[t] = 0 /\ Goes(t, "idle", "idle") /\ tls' = [tls EXCEPT ![t] = -1] /\ UNCHANGED my
     \/ /\ Goes(t, "idle", "drop") /\ HasCache(t) /\ my' = [my EXCEPT ![t].cache = MySlot(t)]
        /\ tls' = [tls EXCEPT ![t] = -caches[MySlot(t)].mymspace]
     \/ tls[t] < 0 /\ Goes(t, "idle", "idle") /\ UNCHANGED <<tls, my>>
  /\ UNCHANGED <<pool, mutex, lock, caches, process>>

\* The entries go back to their mspaces, and the slot is free.
DropCache(t) ==
  /\ Goes(t, "drop", "idle") /\ SomeFree
  /\ caches' = [caches EXCEPT ![my[t].cache] = NoCache]
  /\ Done(t)
  /\ UNCHANGED <<pool, mutex, lock, tls, process>>

\* A thread ends and another one, with the same id, begins: TLSALLOC names no
\* destructor, so the cache stays in its slot.
Reborn(t) ==
  /\ Goes(t, "idle", "idle")
  /\ tls' = [tls EXCEPT ![t] = 0]
  /\ UNCHANGED <<pool, mutex, lock, caches, my, process>>

\* neddestroypool: for(n=0; p->m[n]; n++) destroy_mspace
LeftAfterDestroy == made \ {m[k] : k \in Found}

\* Nobody uses the pool any more.
neddestroypool ==
  /\ process = "runs" /\ threads # 0 /\ \A t \in Threads : at[t] = "idle"
  /\ made' = LeftAfterDestroy
  /\ m' = [k \in Indices |-> NoSpace] /\ threads' = 0
  /\ caches' = [k \in Slots |-> NoCache] /\ tls' = [t \in Threads |-> 0]
  /\ UNCHANGED <<mutex, lock, at, my, asserts, process>>

Init ==
  /\ threads = 0 /\ mutex = NoThread
  /\ m = [k \in Indices |-> NoSpace] /\ lock = [s \in Spaces |-> NoThread]
  /\ made = {} /\ caches = [k \in Slots |-> NoCache]
  /\ tls = [t \in Threads |-> 0] /\ asserts \in BOOLEAN /\ process = "runs"
  /\ at = [t \in Threads |-> "idle"] /\ my = [t \in Threads |-> Locals]

Step(t) ==
  \/ InitPool(t) \/ AllocCache(t) \/ FillCache(t) \/ Crash(t) \/ Continue(t) \/ FreeBlock(t)
  \/ Walk(t) \/ TryMine(t) \/ LookUp(t) \/ LookDown(t) \/ Create(t) \/ Insert(t) \/ LockNew(t)
  \/ Wait(t) \/ Use(t) \/ DropCache(t)

Next ==
  \/ \E t \in Threads : Call(t) \/ neddisablethreadcache(t) \/ Reborn(t) \/ Step(t)
  \/ neddestroypool

Spec == Init /\ [][Next]_vars

-----------------------------------------------------------------------------
(* Properties. *)

Places == {"idle", "init", "alloc", "fill", "known", "walk", "free", "try", "up", "down",
           "create", "insert", "locknew", "wait", "use", "drop"}

LocalTypes == [cache : {NoSlot} \cup Slots, last : 0..MaxThreadsInPool - 1,
               n : 0..MaxThreadsInPool + MaxCaches, end : Indices,
               temp : Spaces \cup {NoSpace}]

TypeOK ==
  /\ threads \in {0, MaxThreadsInPool} /\ mutex \in Threads \cup {NoThread}
  /\ m \in [Indices -> Spaces \cup {NoSpace}] /\ lock \in [Spaces -> Threads \cup {NoThread}]
  /\ made \subseteq Spaces /\ asserts \in BOOLEAN
  /\ caches \in [Slots -> [threadid : Threads \cup {NoThread}, mymspace : -1..MaxThreadsInPool - 1]]
  /\ tls \in [Threads -> -MaxThreadsInPool..MaxCaches]
  /\ at \in [Threads -> Places] /\ process \in {"runs", "aborted", "crashed"}
  /\ my \in [Threads -> LocalTypes]

Temps == {my[t].temp : t \in Threads} \ {NoSpace}
InPool == {m[k] : k \in Indices} \ {NoSpace}

\* Every mspace that was created is in the pool, once, or in the hands of the one
\* thread that made it; the pool has no gap, at which a search would end, and no
\* more of them than it may.
SpacesKept ==
  /\ made = InPool \cup Temps /\ InPool \cap Temps = {}
  /\ \A j, k \in Indices : m[j] = m[k] /\ j # k => m[j] = NoSpace
  /\ \A k \in Indices : m[k] # NoSpace => k < threads /\ \A j \in 0..k : m[j] # NoSpace
  /\ \A t, u \in Threads : t # u /\ my[t].temp = my[u].temp => my[t].temp = NoSpace

\* assert(CURRENT_THREAD == (*tc)->threadid): a thread's cache was made for it, and
\* no other thread uses it.
OwnCache ==
  /\ \A t \in Threads : HasCache(t) => caches[MySlot(t)].threadid = t
  /\ \A t, u \in Threads : t # u /\ HasCache(t) => tls[t] # tls[u]

\* assert(m): the mspace a thread will try first exists, whether its number comes
\* from the cache or is coded in thread-local storage.
LastUsedExists == \A t \in Threads :
  /\ threads # 0 /\ tls[t] # 0 => MyMspace(t) \in Found
  /\ at[t] \in {"try", "up", "down", "create", "insert", "wait", "use"} => m[my[t].last] # NoSpace

\* An mspace is used with its lock, though another thread may have found and locked
\* it between its way into the list and ours to it.
InUseLocked == \A t \in Threads : at[t] = "use" => lock[m[my[t].last]] = t

Owners(t) ==
  LET waits == CASE at[t] \in {"alloc", "insert"} -> {mutex}
                 [] at[t] = "fill" /\ ~Exhausted(my[t].n) -> {lock[m[0]]}
                 [] at[t] \in {"walk", "locknew"} /\ m[my[t].n] # NoSpace -> {lock[m[my[t].n]]}
                 [] at[t] = "wait" -> {lock[m[my[t].last]]}
                 [] at[t] \in {"free", "drop"} /\ ~SomeFree -> {lock[s] : s \in InPool}
                 [] OTHER -> {}
  IN  waits \ {NoThread}

\* No threads wait for each other, nor for one that has left its call with a lock:
\* p->mutex comes before the lock of an mspace, and both are given back.
NobodyStuck == process = "runs" =>
  \A S \in SUBSET Threads :
    ~(/\ \E t \in S : at[t] # "idle"
      /\ \A t \in S : at[t] # "idle" => Owners(t) \cap S # {})

\* neddestroypool leaves no mspace behind: those beyond the first null pointer would
\* be lost.
DestroyEmpties == (\A t \in Threads : at[t] = "idle") => LeftAfterDestroy = {}

\* From its creation to neddestroypool no mspace of the pool is lost.
SpacesAccounted == TypeOK /\ SpacesKept /\ DestroyEmpties

\* What a thread left in thread-local storage in one call, a cache or the number of an
\* mspace, is still good, and its own, in the next.
ThreadValueHolds == OwnCache /\ LastUsedExists
=============================================================================
