---------------------------- MODULE NedpoolProofs -----------------------------
(***************************************************************************)
(* Proofs about Nedpool, for any threads, mspaces and caches.  The         *)
(* inductive invariant says what the pool looks like at any time, and for  *)
(* each place in the code what a thread there knows that other threads     *)
(* cannot change.                                                          *)
(***************************************************************************)
EXTENDS Nedpool, TLAPS

\* The list of mspaces has no gap and holds none twice; what is not in it is in the
\* hands of the one thread that made it.
ListInv ==
  /\ made = InPool \cup Temps /\ InPool \cap Temps = {}
  /\ \A j, k \in Indices : m[j] = m[k] /\ j # k => m[j] = NoSpace
  /\ \A k \in Indices : m[k] # NoSpace => k < threads /\ k \in Found
  /\ \A t, u \in Threads : t # u /\ my[t].temp = my[u].temp => my[t].temp = NoSpace
  /\ threads # 0 => m[0] # NoSpace

\* Before the pool is ready nobody has anything of it.
UnusedInv ==
  threads = 0 => /\ mutex = NoThread /\ lock = [s \in Spaces |-> NoThread]
                 /\ caches = [k \in Slots |-> NoCache] /\ tls = [t \in Threads |-> 0]
                 /\ \A t \in Threads : at[t] \in {"idle", "init"}

\* The slot a thread works with, even when it has taken it out of thread-local storage
SlotOf(t) == IF at[t] = "drop" THEN my[t].cache
             ELSE IF HasCache(t) THEN MySlot(t) ELSE NoSlot

\* Places where the thread knows its cache and its mspace
Knowing == {"known", "free", "try", "up", "down", "create", "insert", "locknew", "wait", "use"}

\* A cache has the one thread it was made for, and the numbers in caches and in
\* thread-local storage are numbers of mspaces.
ValueInv ==
  /\ \A t \in Threads : SlotOf(t) # NoSlot => caches[SlotOf(t)].threadid = t
  /\ \A k \in Slots : caches[k].threadid # NoThread => caches[k].mymspace \in Found
  /\ \A t \in Threads : tls[t] < 0 => -tls[t] - 1 \in Found

\* Who has p->mutex and the locks of the mspaces
LockInv ==
  /\ \A t \in Threads : mutex = t <=> at[t] \in {"fill", "locknew"}
  /\ \A t \in Threads : at[t] = "use" => lock[m[my[t].last]] = t
  /\ \A s \in Spaces : lock[s] # NoThread => at[lock[s]] = "use" /\ m[my[lock[s]].last] = s

\* What a thread knows at its place
WhenAt(t) ==
  /\ at[t] \in {"idle", "init", "alloc"} => my[t] = Locals
  /\ at[t] = "alloc" => tls[t] = 0
  /\ at[t] = "walk" => my[t].cache = NoSlot /\ my[t].n \in Indices
  /\ at[t] = "fill" => /\ tls[t] = 0 /\ my[t].n \in 0..MaxCaches /\ my[t].cache = NoSlot
                       /\ my[t].n < MaxCaches => caches[my[t].n] = NoCache
  /\ at[t] \in Knowing => my[t].cache = SlotOf(t) /\ my[t].last \in Found /\ tls[t] # 0
  /\ at[t] = "drop" => my[t].cache \in Slots /\ tls[t] <= 0
  /\ at[t] \in {"up", "down", "create", "insert"} =>
       my[t].end \in Indices \ {0} /\ my[t].end - 1 \in Found
  /\ at[t] = "up" => my[t].n = my[t].end
  /\ at[t] = "down" => my[t].n \in 0..my[t].last
  /\ at[t] = "locknew" => my[t].n \in Found
  /\ my[t].temp # NoSpace <=> at[t] = "insert"

IInv == TypeOK /\ ListInv /\ UnusedInv /\ ValueInv /\ LockInv /\ \A t \in Threads : WhenAt(t)
-----------------------------------------------------------------------------
(* Types. *)

\* The numbers a loop over the pool reaches are those of mspaces.
LEMMA FoundTyped ==
  ASSUME IInv
  PROVE  /\ Found \subseteq 0..MaxThreadsInPool - 1
         /\ \A k \in Found : m[k] \in Spaces
         /\ \A k \in Indices : m[k] # NoSpace <=> k \in Found
         /\ threads # 0 => 0 \in Found
<1>1. \A k \in Indices : m[k] # NoSpace <=> k \in Found
  BY NedpoolAssumption DEF IInv, ListInv, Found, Indices
<1>2. Found \subseteq 0..MaxThreadsInPool - 1
  BY <1>1, NedpoolAssumption DEF IInv, TypeOK, ListInv, Found, Indices
<1>. QED
  BY <1>1, <1>2, NedpoolAssumption DEF IInv, TypeOK, ListInv, Found, Indices

\* So are those a thread finds in its cache or in thread-local storage.
LEMMA MineTyped ==
  ASSUME IInv, NEW t \in Threads
  PROVE  /\ SlotOf(t) \in {NoSlot} \cup Slots
         /\ HasCache(t) => MySlot(t) \in Slots
         /\ tls[t] # 0 => MyMspace(t) \in Found
<1>1. HasCache(t) => MySlot(t) \in Slots
  BY NedpoolAssumption DEF IInv, TypeOK, HasCache, MySlot, Slots
<1>2. SlotOf(t) \in {NoSlot} \cup Slots
  BY <1>1 DEF IInv, WhenAt, SlotOf
<1>3. HasCache(t) => at[t] # "drop"
  BY DEF IInv, TypeOK, WhenAt, HasCache
<1>. QED
  BY <1>1, <1>2, <1>3, NedpoolAssumption DEF IInv, TypeOK, ValueInv, MyMspace, HasCache, MySlot, SlotOf, NoSlot, Slots

\* Every step but neddestroypool's is one thread going from place to place.
LEMMA AtTyped ==
  ASSUME IInv, [Next]_vars
  PROVE  at' \in [Threads -> Places]
<1>. USE DEF IInv, TypeOK, Places
<1>1. ASSUME NEW t \in Threads, Call(t) PROVE at' \in [Threads -> Places]
  BY <1>1 DEF Call, Goes
<1>2. ASSUME NEW t \in Threads, InitPool(t) PROVE at' \in [Threads -> Places]
  BY <1>2 DEF InitPool, Goes
<1>3. ASSUME NEW t \in Threads, AllocCache(t) PROVE at' \in [Threads -> Places]
  BY <1>3 DEF AllocCache, Goes
<1>4. ASSUME NEW t \in Threads, FillCache(t) PROVE at' \in [Threads -> Places]
  BY <1>4 DEF FillCache, Goes
<1>5. ASSUME NEW t \in Threads, Crash(t) PROVE at' \in [Threads -> Places]
  BY <1>5 DEF Crash, Goes
<1>6. ASSUME NEW t \in Threads, Continue(t) PROVE at' \in [Threads -> Places]
  BY <1>6 DEF Continue, Goes
<1>7. ASSUME NEW t \in Threads, FreeBlock(t) PROVE at' \in [Threads -> Places]
  BY <1>7 DEF FreeBlock, Goes
<1>8. ASSUME NEW t \in Threads, Walk(t) PROVE at' \in [Threads -> Places]
  BY <1>8 DEF Walk, Goes
<1>9. ASSUME NEW t \in Threads, TryMine(t) PROVE at' \in [Threads -> Places]
  BY <1>9 DEF TryMine, Goes
<1>10. ASSUME NEW t \in Threads, LookUp(t) PROVE at' \in [Threads -> Places]
  BY <1>10 DEF LookUp, Goes
<1>11. ASSUME NEW t \in Threads, LookDown(t) PROVE at' \in [Threads -> Places]
  BY <1>11 DEF LookDown, Goes
<1>12. ASSUME NEW t \in Threads, Create(t) PROVE at' \in [Threads -> Places]
  BY <1>12 DEF Create, Goes
<1>13. ASSUME NEW t \in Threads, Insert(t) PROVE at' \in [Threads -> Places]
  BY <1>13 DEF Insert, Goes
<1>14. ASSUME NEW t \in Threads, LockNew(t) PROVE at' \in [Threads -> Places]
  BY <1>14 DEF LockNew, Goes
<1>15. ASSUME NEW t \in Threads, Wait(t) PROVE at' \in [Threads -> Places]
  BY <1>15 DEF Wait, Goes
<1>16. ASSUME NEW t \in Threads, Use(t) PROVE at' \in [Threads -> Places]
  BY <1>16 DEF Use, Goes
<1>17. ASSUME NEW t \in Threads, neddisablethreadcache(t) PROVE at' \in [Threads -> Places]
  BY <1>17 DEF neddisablethreadcache, Goes
<1>18. ASSUME NEW t \in Threads, DropCache(t) PROVE at' \in [Threads -> Places]
  BY <1>18 DEF DropCache, Goes
<1>19. ASSUME NEW t \in Threads, Reborn(t) PROVE at' \in [Threads -> Places]
  BY <1>19 DEF Reborn, Goes
<1>20. CASE neddestroypool
  BY <1>20 DEF neddestroypool
<1>21. CASE UNCHANGED vars
  BY <1>21 DEF vars
<1>. QED
  BY <1>1, <1>2, <1>3, <1>4, <1>5, <1>6, <1>7, <1>8, <1>9, <1>10,
     <1>11, <1>12, <1>13, <1>14, <1>15, <1>16, <1>17, <1>18, <1>19, <1>20, <1>21 DEF Next, Step
\* A thread's local variables stay within their ranges: above all, no search leaves
\* the list.
LEMMA MyTyped ==
  ASSUME IInv, [Next]_vars
  PROVE  my' \in [Threads -> LocalTypes]
<1>0. my \in [Threads -> LocalTypes]
  BY DEF IInv, TypeOK
<1>00. Locals \in LocalTypes
  BY NedpoolAssumption DEF Locals, LocalTypes, Indices
<1>1. ASSUME NEW t \in Threads, Call(t) PROVE my' \in [Threads -> LocalTypes]
  <2>1. CASE Knows(t) /\ tls[t] # 0
    <3>1. MyMspace(t) \in 0..MaxThreadsInPool - 1
      BY <2>1, FoundTyped, MineTyped
    <3>. DEFINE cache == IF HasCache(t) THEN MySlot(t) ELSE NoSlot
                local == [my[t] EXCEPT !.cache = cache, !.last = MyMspace(t)]
    <3>2. cache \in {NoSlot} \cup Slots
      BY MineTyped
    <3>3. local \in LocalTypes
      <4>. HIDE DEF cache
      <4>. QED
        BY <1>0, <3>1, <3>2 DEF LocalTypes
    <3>4. my' = [my EXCEPT ![t] = local]
      BY <1>0, <2>1 DEF Knows
    <3>. HIDE DEF local
    <3>. QED
      BY <1>0, <3>3, <3>4
  <2>. QED
    BY <1>0, <1>1, <2>1 DEF Call
<1>2. ASSUME NEW t \in Threads, InitPool(t) PROVE my' \in [Threads -> LocalTypes]
  BY <1>0, <1>2 DEF InitPool
<1>3. ASSUME NEW t \in Threads, AllocCache(t) PROVE my' \in [Threads -> LocalTypes]
  BY <1>0, <1>3, NedpoolAssumption DEF AllocCache, FirstEmpty, LocalTypes
<1>4. ASSUME NEW t \in Threads, FillCache(t) PROVE my' \in [Threads -> LocalTypes]
  <2>1. CASE NoCacheFor(t)
    <3>1. 0 \in 0..MaxThreadsInPool - 1
      BY NedpoolAssumption
    <3>. QED
      BY <1>0, <2>1, <3>1 DEF NoCacheFor, LocalTypes
  <2>2. CASE ~NoCacheFor(t)
    <3>1. my[t].n \in Slots
      BY <1>4, <2>2, NedpoolAssumption DEF IInv, FillCache, Goes, WhenAt, Exhausted, Slots
    <3>2. PICK k \in Found : my' = [my EXCEPT ![t].cache = my[t].n, ![t].last = k]
      BY <1>4, <2>2 DEF FillCache
    <3>3. k \in 0..MaxThreadsInPool - 1
      BY FoundTyped
    <3>. QED
      BY <1>0, <3>1, <3>2, <3>3 DEF LocalTypes
  <2>. QED
    BY <2>1, <2>2
<1>5. ASSUME NEW t \in Threads, Crash(t) PROVE my' \in [Threads -> LocalTypes]
  BY <1>0, <1>00, <1>5 DEF Crash, Done
<1>6. ASSUME NEW t \in Threads, Continue(t) PROVE my' \in [Threads -> LocalTypes]
  BY <1>0, <1>00, <1>6 DEF Continue, Done
<1>7. ASSUME NEW t \in Threads, FreeBlock(t) PROVE my' \in [Threads -> LocalTypes]
  BY <1>0, <1>00, <1>7 DEF FreeBlock, Done
<1>8. ASSUME NEW t \in Threads, Walk(t) PROVE my' \in [Threads -> LocalTypes]
  <2>1. m[my[t].n] # NoSpace => my[t].n + 1 \in 0..MaxThreadsInPool + MaxCaches
    BY <1>8, FoundTyped, NedpoolAssumption DEF IInv, Walk, Goes, WhenAt
  <2>. QED
    BY <1>0, <1>00, <1>8, <2>1 DEF Walk, Done, LocalTypes
<1>9. ASSUME NEW t \in Threads, TryMine(t) PROVE my' \in [Threads -> LocalTypes]
  <2>1. my[t].last + 1 \in Indices /\ my[t].last + 1 \in 0..MaxThreadsInPool + MaxCaches
    BY <1>9, FoundTyped, NedpoolAssumption DEF IInv, TryMine, Goes, WhenAt, Knowing, Indices
  <2>. QED
    BY <1>0, <1>9, <2>1 DEF TryMine, LocalTypes
<1>10. ASSUME NEW t \in Threads, LookUp(t) PROVE my' \in [Threads -> LocalTypes]
  <2>1. my[t].n \in Indices
    BY <1>10 DEF IInv, LookUp, Goes, WhenAt
  <2>2. m[my[t].n] # NoSpace => /\ my[t].n \in 0..MaxThreadsInPool - 1 /\ my[t].n + 1 \in Indices
                               /\ my[t].n + 1 \in 0..MaxThreadsInPool + MaxCaches
    BY <2>1, FoundTyped, NedpoolAssumption DEF Indices
  <2>3. 0 \in 0..MaxThreadsInPool + MaxCaches
    BY NedpoolAssumption
  <2>. QED
    BY <1>0, <1>10, <2>2, <2>3 DEF LookUp, Remembers, LocalTypes
<1>11. ASSUME NEW t \in Threads, LookDown(t) PROVE my' \in [Threads -> LocalTypes]
  <2>1. my[t].last \in 0..MaxThreadsInPool - 1 /\ my[t].n \in Nat
    BY <1>11, FoundTyped DEF IInv, LookDown, Goes, WhenAt, Knowing
  <2>2. my[t].n < my[t].last => /\ my[t].n \in 0..MaxThreadsInPool - 1
                               /\ my[t].n + 1 \in 0..MaxThreadsInPool + MaxCaches
    BY <2>1, NedpoolAssumption
  <2>. QED
    BY <1>0, <1>11, <2>2 DEF LookDown, Remembers, LocalTypes
<1>12. ASSUME NEW t \in Threads, Create(t) PROVE my' \in [Threads -> LocalTypes]
  BY <1>0, <1>12 DEF Create, LocalTypes
<1>13. ASSUME NEW t \in Threads, Insert(t) PROVE my' \in [Threads -> LocalTypes]
  <2>1. EndNow(t) \subseteq 0..MaxThreadsInPool + MaxCaches
    BY <1>13, NedpoolAssumption DEF IInv, Insert, Goes, WhenAt, EndNow, Indices
  <2>. QED
    BY <1>0, <1>13, <2>1 DEF Insert, LocalTypes
<1>14. ASSUME NEW t \in Threads, LockNew(t) PROVE my' \in [Threads -> LocalTypes]
  <2>1. my[t].n \in 0..MaxThreadsInPool - 1
    BY <1>14, FoundTyped DEF IInv, LockNew, Goes, WhenAt
  <2>. QED
    BY <1>0, <1>14, <2>1 DEF LockNew, Remembers, LocalTypes
<1>15. ASSUME NEW t \in Threads, Wait(t) PROVE my' \in [Threads -> LocalTypes]
  BY <1>0, <1>15 DEF Wait
<1>16. ASSUME NEW t \in Threads, Use(t) PROVE my' \in [Threads -> LocalTypes]
  BY <1>0, <1>00, <1>16 DEF Use, Done
<1>17. ASSUME NEW t \in Threads, neddisablethreadcache(t) PROVE my' \in [Threads -> LocalTypes]
  BY <1>0, <1>17, MineTyped DEF neddisablethreadcache, LocalTypes
<1>18. ASSUME NEW t \in Threads, DropCache(t) PROVE my' \in [Threads -> LocalTypes]
  BY <1>0, <1>00, <1>18 DEF DropCache, Done
<1>19. ASSUME NEW t \in Threads, Reborn(t) PROVE my' \in [Threads -> LocalTypes]
  BY <1>0, <1>19 DEF Reborn
<1>20. CASE neddestroypool
  BY <1>0, <1>20 DEF neddestroypool
<1>21. CASE UNCHANGED vars
  BY <1>0, <1>21 DEF vars
<1>. QED
  BY <1>1, <1>2, <1>3, <1>4, <1>5, <1>6, <1>7, <1>8, <1>9, <1>10,
     <1>11, <1>12, <1>13, <1>14, <1>15, <1>16, <1>17, <1>18, <1>19, <1>20, <1>21 DEF Next, Step

\* What a search hands to Remembers is the number of an mspace.
LEMMA FoundByThread ==
  ASSUME IInv, NEW t \in Threads, Remembers(t, my[t].n), LookUp(t) \/ LookDown(t) \/ LockNew(t)
  PROVE  my[t].n \in Found \/ UNCHANGED <<caches, tls>>
<1>1. CASE LookUp(t)
  BY <1>1, FoundTyped DEF IInv, LookUp, Goes, WhenAt
<1>2. CASE LookDown(t)
  <2>1. my[t].last \in Found /\ my[t].n \in 0..my[t].last
    BY <1>2 DEF IInv, LookDown, Goes, WhenAt, Knowing
  <2>. QED
    BY <2>1, FoundTyped, NedpoolAssumption DEF Found, Indices
<1>3. CASE LockNew(t)
  BY <1>3 DEF IInv, LockNew, Goes, WhenAt
<1>. QED
  BY <1>1, <1>2, <1>3

ValuesTyped ==
  /\ caches \in [Slots -> [threadid : Threads \cup {NoThread}, mymspace : -1..MaxThreadsInPool - 1]]
  /\ tls \in [Threads -> -MaxThreadsInPool..MaxCaches]

LEMMA RemembersTyped ==
  ASSUME IInv, NEW t \in Threads, Remembers(t, my[t].n), LookUp(t) \/ LookDown(t) \/ LockNew(t)
  PROVE  ValuesTyped'
<1>1. ValuesTyped
  BY DEF IInv, TypeOK, ValuesTyped
<1>2. my[t].n \in 0..MaxThreadsInPool - 1 \/ UNCHANGED <<caches, tls>>
  BY FoundByThread, FoundTyped
<1>3. my[t].cache \in {NoSlot} \cup Slots
  BY DEF IInv, TypeOK, LocalTypes
<1>. QED
  BY <1>1, <1>2, <1>3, NedpoolAssumption DEF Remembers, ValuesTyped

\* The values threads leave for their next call stay within their ranges.
LEMMA ValuesStayTyped ==
  ASSUME IInv, [Next]_vars
  PROVE  ValuesTyped'
<1>0. ValuesTyped
  BY DEF IInv, TypeOK, ValuesTyped
<1>00. NoCache \in [threadid : Threads \cup {NoThread}, mymspace : -1..MaxThreadsInPool - 1]
  BY NedpoolAssumption DEF NoCache
<1>1. ASSUME NEW t \in Threads, Call(t) PROVE ValuesTyped'
  BY <1>0, <1>1 DEF Call, ValuesTyped
<1>2. ASSUME NEW t \in Threads, InitPool(t) PROVE ValuesTyped'
  BY <1>0, <1>2 DEF InitPool, ValuesTyped
<1>3. ASSUME NEW t \in Threads, AllocCache(t) PROVE ValuesTyped'
  BY <1>0, <1>3 DEF AllocCache, ValuesTyped
<1>4. ASSUME NEW t \in Threads, FillCache(t) PROVE ValuesTyped'
  <2>1. CASE NoCacheFor(t)
    BY <1>0, <2>1, NedpoolAssumption DEF NoCacheFor, ValuesTyped
  <2>2. CASE ~NoCacheFor(t)
    <3>1. my[t].n \in Slots /\ my[t].n + 1 \in -MaxThreadsInPool..MaxCaches
      BY <1>4, <2>2, NedpoolAssumption DEF IInv, FillCache, Goes, WhenAt, Exhausted, Slots
    <3>2. PICK k \in Found : caches' = [caches EXCEPT ![my[t].n] = [threadid |-> t, mymspace |-> k]]
      BY <1>4, <2>2 DEF FillCache
    <3>3. k \in -1..MaxThreadsInPool - 1
      BY FoundTyped, NedpoolAssumption
    <3>4. tls' = [tls EXCEPT ![t] = my[t].n + 1]
      BY <1>4, <2>2 DEF FillCache
    <3>. QED
      BY <1>0, <3>1, <3>2, <3>3, <3>4 DEF ValuesTyped
  <2>. QED
    BY <2>1, <2>2
<1>5. ASSUME NEW t \in Threads, Crash(t) PROVE ValuesTyped'
  BY <1>0, <1>5 DEF Crash, ValuesTyped
<1>6. ASSUME NEW t \in Threads, Continue(t) PROVE ValuesTyped'
  BY <1>0, <1>6 DEF Continue, ValuesTyped
<1>7. ASSUME NEW t \in Threads, FreeBlock(t) PROVE ValuesTyped'
  BY <1>0, <1>7 DEF FreeBlock, ValuesTyped
<1>8. ASSUME NEW t \in Threads, Walk(t) PROVE ValuesTyped'
  BY <1>0, <1>8 DEF Walk, ValuesTyped
<1>9. ASSUME NEW t \in Threads, TryMine(t) PROVE ValuesTyped'
  BY <1>0, <1>9 DEF TryMine, ValuesTyped
<1>10. ASSUME NEW t \in Threads, LookUp(t) PROVE ValuesTyped'
  BY <1>0, <1>10, FoundByThread, RemembersTyped DEF LookUp, ValuesTyped
<1>11. ASSUME NEW t \in Threads, LookDown(t) PROVE ValuesTyped'
  BY <1>0, <1>11, FoundByThread, RemembersTyped DEF LookDown, ValuesTyped
<1>12. ASSUME NEW t \in Threads, Create(t) PROVE ValuesTyped'
  BY <1>0, <1>12 DEF Create, ValuesTyped
<1>13. ASSUME NEW t \in Threads, Insert(t) PROVE ValuesTyped'
  BY <1>0, <1>13 DEF Insert, ValuesTyped
<1>14. ASSUME NEW t \in Threads, LockNew(t) PROVE ValuesTyped'
  BY <1>0, <1>14, FoundByThread, RemembersTyped DEF LockNew, ValuesTyped
<1>15. ASSUME NEW t \in Threads, Wait(t) PROVE ValuesTyped'
  BY <1>0, <1>15 DEF Wait, ValuesTyped
<1>16. ASSUME NEW t \in Threads, Use(t) PROVE ValuesTyped'
  BY <1>0, <1>16 DEF Use, ValuesTyped
<1>17. ASSUME NEW t \in Threads, neddisablethreadcache(t) PROVE ValuesTyped'
  <2>1. HasCache(t) => -caches[MySlot(t)].mymspace \in -MaxThreadsInPool..MaxCaches
    BY <1>0, MineTyped, FoundTyped, NedpoolAssumption DEF IInv, ValueInv, SlotOf, WhenAt, HasCache, NoSlot, Slots, ValuesTyped
  <2>. QED
    BY <1>0, <1>17, <2>1, NedpoolAssumption DEF neddisablethreadcache, ValuesTyped
<1>18. ASSUME NEW t \in Threads, DropCache(t) PROVE ValuesTyped'
  BY <1>0, <1>00, <1>18 DEF DropCache, ValuesTyped
<1>19. ASSUME NEW t \in Threads, Reborn(t) PROVE ValuesTyped'
  BY <1>0, <1>19, NedpoolAssumption DEF Reborn, ValuesTyped
<1>20. ASSUME neddestroypool PROVE ValuesTyped'
  BY <1>0, <1>00, <1>20, NedpoolAssumption DEF neddestroypool, ValuesTyped
<1>21. ASSUME UNCHANGED vars PROVE ValuesTyped'
  BY <1>0, <1>21 DEF vars, ValuesTyped
<1>. QED
  BY <1>1, <1>2, <1>3, <1>4, <1>5, <1>6, <1>7, <1>8, <1>9, <1>10,
     <1>11, <1>12, <1>13, <1>14, <1>15, <1>16, <1>17, <1>18, <1>19, <1>20, <1>21 DEF Next, Step

\* Every variable keeps its type.
LEMMA TypeStep ==
  ASSUME IInv, [Next]_vars
  PROVE  TypeOK'
<1>. DEFINE OthersTyped ==
       /\ threads \in {0, MaxThreadsInPool} /\ mutex \in Threads \cup {NoThread}
       /\ m \in [Indices -> Spaces \cup {NoSpace}] /\ lock \in [Spaces -> Threads \cup {NoThread}]
       /\ made \subseteq Spaces /\ asserts \in BOOLEAN /\ process \in {"runs", "aborted", "crashed"}
<1>0. OthersTyped
  BY DEF IInv, TypeOK
<1>1. ASSUME NEW t \in Threads, Call(t) PROVE OthersTyped'
  BY <1>0, <1>1 DEF Call, pool
<1>2. ASSUME NEW t \in Threads, InitPool(t) PROVE OthersTyped'
  BY <1>0, <1>2 DEF InitPool, pool
<1>3. ASSUME NEW t \in Threads, AllocCache(t) PROVE OthersTyped'
  BY <1>0, <1>3 DEF AllocCache, pool, CachesLock
<1>4. ASSUME NEW t \in Threads, FillCache(t) PROVE OthersTyped'
  BY <1>0, <1>4 DEF FillCache, pool
<1>5. ASSUME NEW t \in Threads, Crash(t) PROVE OthersTyped'
  BY <1>0, <1>5 DEF Crash, pool
<1>6. ASSUME NEW t \in Threads, Continue(t) PROVE OthersTyped'
  BY <1>0, <1>6 DEF Continue, pool
<1>7. ASSUME NEW t \in Threads, FreeBlock(t) PROVE OthersTyped'
  BY <1>0, <1>7 DEF FreeBlock, pool
<1>8. ASSUME NEW t \in Threads, Walk(t) PROVE OthersTyped'
  BY <1>0, <1>8 DEF Walk, pool
<1>9. ASSUME NEW t \in Threads, TryMine(t) PROVE OthersTyped'
  BY <1>0, <1>9  DEF TryMine, Take, pool
<1>10. ASSUME NEW t \in Threads, LookUp(t) PROVE OthersTyped'
  BY <1>0, <1>10 DEF LookUp, pool, Take
<1>11. ASSUME NEW t \in Threads, LookDown(t) PROVE OthersTyped'
  BY <1>0, <1>11 DEF LookDown, pool, Take
<1>12. ASSUME NEW t \in Threads, Create(t) PROVE OthersTyped'
  BY <1>0, <1>12 DEF Create, pool
<1>13. ASSUME NEW t \in Threads, Insert(t) PROVE OthersTyped'
  <2>1. EndNow(t) \subseteq Indices
    BY <1>13, NedpoolAssumption DEF IInv, Insert, Goes, WhenAt, EndNow, Indices
  <2>2. my[t].temp \in Spaces \cup {NoSpace}
    BY DEF IInv, TypeOK, LocalTypes
  <2>. QED
    BY <1>0, <1>13, <2>1, <2>2 DEF Insert, Unwanted
<1>14. ASSUME NEW t \in Threads, LockNew(t) PROVE OthersTyped'
  BY <1>0, <1>14 DEF LockNew, pool, NewLock, Take, Unlock
<1>15. ASSUME NEW t \in Threads, Wait(t) PROVE OthersTyped'
  BY <1>0, <1>15 DEF Wait, pool, Take
<1>16. ASSUME NEW t \in Threads, Use(t) PROVE OthersTyped'
  BY <1>0, <1>16 DEF Use, pool
<1>17. ASSUME NEW t \in Threads, neddisablethreadcache(t) PROVE OthersTyped'
  BY <1>0, <1>17 DEF neddisablethreadcache, pool
<1>18. ASSUME NEW t \in Threads, DropCache(t) PROVE OthersTyped'
  BY <1>0, <1>18 DEF DropCache, pool
<1>19. ASSUME NEW t \in Threads, Reborn(t) PROVE OthersTyped'
  BY <1>0, <1>19 DEF Reborn, pool
<1>20. ASSUME neddestroypool PROVE OthersTyped'
  BY <1>0, <1>20 DEF neddestroypool, LeftAfterDestroy
<1>21. ASSUME UNCHANGED vars PROVE OthersTyped'
  BY <1>0, <1>21 DEF vars
<1>. QED
  BY AtTyped, MyTyped, ValuesStayTyped, <1>1, <1>2, <1>3, <1>4, <1>5, <1>6, <1>7, <1>8, <1>9, <1>10,
     <1>11, <1>12, <1>13, <1>14, <1>15, <1>16, <1>17, <1>18, <1>19, <1>20, <1>21 DEF Next, Step, TypeOK, ValuesTyped

-----------------------------------------------------------------------------
(* The list of mspaces. *)

\* Who changes the list or takes a new mspace into or out of his hands.
LEMMA ListFrame ==
  ASSUME IInv, [Next]_vars
  PROVE  \/ \E t \in Threads : InitPool(t) \/ Create(t) \/ Insert(t)
         \/ neddestroypool
         \/ UNCHANGED <<threads, m, made>> /\ \A u \in Threads : my'[u].temp = my[u].temp
<1>. DEFINE Frame == \/ \E t \in Threads : InitPool(t) \/ Create(t) \/ Insert(t)
                     \/ neddestroypool
                     \/ UNCHANGED <<threads, m, made>> /\ \A u \in Threads : my'[u].temp = my[u].temp
<1>0. my \in [Threads -> LocalTypes]
  BY DEF IInv, TypeOK
<1>00. \A t \in Threads : at[t] # "insert" => my[t].temp = NoSpace
  BY DEF IInv, WhenAt
<1>1. ASSUME NEW t \in Threads, Call(t) PROVE Frame
  BY <1>0, <1>1 DEF Call, pool, LocalTypes, Knows
<1>2. ASSUME NEW t \in Threads, InitPool(t) PROVE Frame
  BY <1>2
<1>3. ASSUME NEW t \in Threads, AllocCache(t) PROVE Frame
  BY <1>0, <1>3 DEF AllocCache, pool, LocalTypes
<1>4. ASSUME NEW t \in Threads, FillCache(t) PROVE Frame
  <2>0. UNCHANGED <<threads, m, made>>
    BY <1>4 DEF FillCache, pool
  <2>1. CASE NoCacheFor(t)
    BY <1>0, <2>0, <2>1 DEF NoCacheFor, LocalTypes
  <2>2. ASSUME NEW k \in Found, my' = [my EXCEPT ![t].cache = my[t].n, ![t].last = k] PROVE Frame
    BY <1>0, <2>0, <2>2 DEF LocalTypes
  <2>. QED
    BY <1>4, <2>1, <2>2 DEF FillCache
<1>5. ASSUME NEW t \in Threads, Crash(t) PROVE Frame
  BY <1>0, <1>00, <1>5 DEF Crash, Goes, pool, Done, Locals
<1>6. ASSUME NEW t \in Threads, Continue(t) PROVE Frame
  BY <1>0, <1>00, <1>6 DEF Continue, Goes, pool, Done, Locals
<1>7. ASSUME NEW t \in Threads, FreeBlock(t) PROVE Frame
  BY <1>0, <1>00, <1>7 DEF FreeBlock, Goes, pool, Done, Locals
<1>8. ASSUME NEW t \in Threads, Walk(t) PROVE Frame
  <2>1. CASE Done(t)
    BY <1>0, <1>00, <1>8, <2>1 DEF Walk, Goes, pool, Done, Locals
  <2>2. CASE my' = [my EXCEPT ![t].n = my[t].n + 1]
    BY <1>0, <1>8, <2>2 DEF Walk, pool, LocalTypes
  <2>. QED
    BY <1>8, <2>1, <2>2 DEF Walk
<1>9. ASSUME NEW t \in Threads, TryMine(t) PROVE Frame
  BY <1>0, <1>9 DEF TryMine, pool, LocalTypes
<1>10. ASSUME NEW t \in Threads, LookUp(t) PROVE Frame
  BY <1>0, <1>10 DEF LookUp, pool, LocalTypes, Remembers
<1>11. ASSUME NEW t \in Threads, LookDown(t) PROVE Frame
  BY <1>0, <1>11 DEF LookDown, pool, LocalTypes, Remembers
<1>12. ASSUME NEW t \in Threads, Create(t) PROVE Frame
  BY <1>12
<1>13. ASSUME NEW t \in Threads, Insert(t) PROVE Frame
  BY <1>13
<1>14. ASSUME NEW t \in Threads, LockNew(t) PROVE Frame
  BY <1>0, <1>14 DEF LockNew, pool, LocalTypes, Remembers
<1>15. ASSUME NEW t \in Threads, Wait(t) PROVE Frame
  BY <1>0, <1>15 DEF Wait, pool, LocalTypes
<1>16. ASSUME NEW t \in Threads, Use(t) PROVE Frame
  BY <1>0, <1>00, <1>16 DEF Use, Goes, pool, Done, Locals
<1>17. ASSUME NEW t \in Threads, neddisablethreadcache(t) PROVE Frame
  BY <1>0, <1>17 DEF neddisablethreadcache, pool, LocalTypes
<1>18. ASSUME NEW t \in Threads, DropCache(t) PROVE Frame
  BY <1>0, <1>00, <1>18 DEF DropCache, Goes, pool, Done, Locals
<1>19. ASSUME NEW t \in Threads, Reborn(t) PROVE Frame
  BY <1>0, <1>19 DEF Reborn, pool, LocalTypes
<1>20. ASSUME neddestroypool PROVE Frame
  BY <1>20
<1>21. ASSUME UNCHANGED vars PROVE Frame
  BY <1>21 DEF vars
<1>. QED
  BY <1>1, <1>2, <1>3, <1>4, <1>5, <1>6, <1>7, <1>8, <1>9, <1>10,
     <1>11, <1>12, <1>13, <1>14, <1>15, <1>16, <1>17, <1>18, <1>19, <1>20, <1>21 DEF Next, Step

\* Nothing is lost: InitPool and FindMSpace put a new mspace at the first null pointer,
\* under the lock, or destroy it.
LEMMA ListStep ==
  ASSUME IInv, [Next]_vars
  PROVE  ListInv'
<1>1. CASE UNCHANGED <<threads, m, made>> /\ \A u \in Threads : my'[u].temp = my[u].temp
  <2>1. Temps' = Temps /\ InPool' = InPool /\ Found' = Found
    BY <1>1 DEF Temps, InPool, Found
  <2>. QED
    BY <1>1, <2>1 DEF IInv, ListInv
<1>2. ASSUME NEW t \in Threads, InitPool(t) PROVE ListInv'
  <2>1. CASE UNCHANGED pool
    <3>1. UNCHANGED <<threads, m, made, my>>
      BY <1>2, <2>1 DEF InitPool, pool
    <3>. QED
      BY <1>1, <3>1
  <2>2. CASE threads = 0 /\ threads' = MaxThreadsInPool
    <3>1. PICK s \in Spaces \ made : m' = [m EXCEPT ![0] = s] /\ made' = made \cup {s}
      BY <1>2, <2>2, NedpoolAssumption DEF InitPool, pool
    <3>2. \A k \in Indices : m[k] = NoSpace
      BY <2>2 DEF IInv, ListInv, Indices
    <3>3. 0 \in Indices /\ s # NoSpace
      BY NedpoolAssumption DEF Indices
    <3>4. \A k \in Indices : m'[k] = IF k = 0 THEN s ELSE NoSpace
      BY <3>1, <3>2, <3>3 DEF IInv, TypeOK
    <3>5. InPool = {} /\ InPool' = {s} /\ Found' = {0}
      BY <3>2, <3>3, <3>4, NedpoolAssumption DEF InPool, Found, Indices
    <3>6. Temps' = Temps
      BY <1>2 DEF InitPool, Temps
    <3>7. s \notin Temps
      BY <3>1 DEF IInv, ListInv
    <3>8. \A u, v \in Threads : u # v /\ my'[u].temp = my'[v].temp => my'[u].temp = NoSpace
      BY <1>2 DEF InitPool, IInv, ListInv
    <3>. QED
      BY <2>2, <3>1, <3>3, <3>4, <3>5, <3>6, <3>7, <3>8, NedpoolAssumption DEF IInv, ListInv, Indices
  <2>. QED
    BY <1>2, <2>1, <2>2 DEF InitPool
<1>3. ASSUME NEW t \in Threads, Create(t) PROVE ListInv'
  <2>1. CASE UNCHANGED <<made, my>>
    BY <1>1, <1>3, <2>1 DEF Create
  <2>2. ASSUME NEW s \in Spaces \ made, made' = made \cup {s}, my' = [my EXCEPT ![t].temp = s]
        PROVE  ListInv'
    <3>1. UNCHANGED <<threads, m>> /\ InPool' = InPool /\ Found' = Found
      BY <1>3 DEF Create, InPool, Found
    <3>2. my[t].temp = NoSpace /\ s # NoSpace
      BY <1>3, NedpoolAssumption DEF IInv, WhenAt, Create, Goes
    <3>3. \A u \in Threads : my'[u].temp = IF u = t THEN s ELSE my[u].temp
      BY <2>2 DEF IInv, TypeOK, LocalTypes
    <3>4. Temps' = Temps \cup {s}
      BY <3>2, <3>3 DEF Temps
    <3>5. s \notin InPool /\ s \notin Temps
      BY DEF IInv, ListInv
    <3>6. \A u, v \in Threads : u # v /\ my'[u].temp = my'[v].temp => my'[u].temp = NoSpace
      BY <3>2, <3>3, <3>5 DEF IInv, ListInv, Temps
    <3>. QED
      BY <2>2, <3>1, <3>4, <3>5, <3>6 DEF IInv, ListInv
  <2>. QED
    BY <1>3, <2>1, <2>2 DEF Create
<1>4. ASSUME NEW t \in Threads, Insert(t) PROVE ListInv'
  <2>. DEFINE s == my[t].temp
  <2>1. s \in Temps /\ s # NoSpace /\ s \in Spaces /\ s \notin InPool
    BY <1>4 DEF Insert, Goes, IInv, TypeOK, LocalTypes, WhenAt, Temps, ListInv
  <2>2. \A u \in Threads : my'[u].temp = IF u = t THEN NoSpace ELSE my[u].temp
    BY <1>4 DEF Insert, IInv, TypeOK, LocalTypes
  <2>3. Temps' = Temps \ {s}
    BY <2>1, <2>2 DEF Temps, IInv, ListInv
  <2>4. \A u, v \in Threads : u # v /\ my'[u].temp = my'[v].temp => my'[u].temp = NoSpace
    BY <2>2 DEF IInv, ListInv
  <2>5. CASE Unwanted(t) /\ UNCHANGED m
    <3>1. InPool' = InPool /\ Found' = Found /\ UNCHANGED threads
      BY <1>4, <2>5 DEF Insert, InPool, Found
    <3>. QED
      BY <2>1, <2>3, <2>4, <2>5, <3>1 DEF Unwanted, IInv, ListInv
  <2>6. ASSUME NEW end \in EndNow(t), end < threads, m' = [m EXCEPT ![end] = s], UNCHANGED made
        PROVE  ListInv'
    <3>1. end \in Indices /\ m[end] = NoSpace /\ \A j \in Indices : j < end => m[j] # NoSpace
      <4>1. my[t].end \in Indices \ {0} /\ my[t].end - 1 \in Found
        BY <1>4 DEF Insert, Goes, IInv, WhenAt
      <4>2. /\ end \in my[t].end..MaxThreadsInPool /\ m[end] = NoSpace
            /\ \A j \in my[t].end..end - 1 : m[j] # NoSpace
        BY <2>6, <4>1, NedpoolAssumption DEF EndNow, IInv, TypeOK, Indices
      <4>3. \A j \in Indices : j < my[t].end => m[j] # NoSpace
        BY <4>1, NedpoolAssumption DEF Found, Indices
      <4>. QED
        BY <4>1, <4>2, <4>3, NedpoolAssumption DEF Indices
    <3>2. \A k \in Indices : m'[k] = IF k = end THEN s ELSE m[k]
      BY <2>6, <3>1 DEF IInv, TypeOK
    <3>3. InPool' = InPool \cup {s}
      BY <2>1, <3>1, <3>2 DEF InPool
    <3>4. UNCHANGED threads
      BY <1>4 DEF Insert
    <3>5. \A k \in Indices : m'[k] # NoSpace => k < threads /\ k \in Found'
      <4>. SUFFICES ASSUME NEW k \in Indices, m'[k] # NoSpace PROVE k < threads /\ k \in Found'
        OBVIOUS
      <4>1. CASE k = end
        BY <2>1, <2>6, <3>1, <3>2, <4>1, NedpoolAssumption DEF Found, Indices
      <4>2. CASE k # end
        <5>1. k \in Found /\ k < threads
          BY <3>2, <4>2 DEF IInv, ListInv
        <5>. QED
          BY <2>1, <3>2, <5>1, NedpoolAssumption DEF Found, Indices
      <4>. QED
        BY <4>1, <4>2
    <3>6. \A j, k \in Indices : m'[j] = m'[k] /\ j # k => m'[j] = NoSpace
      BY <2>1, <3>2 DEF IInv, ListInv, InPool
    <3>7. threads # 0 => m'[0] # NoSpace
      BY <2>1, <3>2, NedpoolAssumption DEF IInv, ListInv, Indices
    <3>. QED
      BY <2>1, <2>3, <2>4, <2>6, <3>3, <3>4, <3>5, <3>6, <3>7 DEF IInv, ListInv
  <2>. QED
    BY <1>4, <2>5, <2>6 DEF Insert
<1>5. ASSUME neddestroypool PROVE ListInv'
  <2>1. Temps = {} /\ UNCHANGED my
    BY <1>5 DEF neddestroypool, IInv, WhenAt, Temps
  <2>2. {m[k] : k \in Found} = InPool
    BY FoundTyped, NedpoolAssumption DEF InPool, Found
  <2>3. made' = {}
    BY <1>5, <2>1, <2>2 DEF neddestroypool, LeftAfterDestroy, IInv, ListInv
  <2>4. threads' = 0 /\ \A k \in Indices : m'[k] = NoSpace
    BY <1>5 DEF neddestroypool
  <2>5. InPool' = {} /\ Temps' = {}
    BY <2>1, <2>4 DEF InPool, Temps
  <2>. QED
    BY <2>1, <2>3, <2>4, <2>5 DEF IInv, ListInv
<1>. QED
  BY <1>1, <1>2, <1>3, <1>4, <1>5, ListFrame

-----------------------------------------------------------------------------
(* One thread at a time. *)

\* A step of thread t
By(t) == Call(t) \/ neddisablethreadcache(t) \/ Reborn(t) \/ Step(t)

\* A thread changes nothing that belongs to another: neither its place nor its local
\* variables nor its thread-local storage.
LEMMA OthersStay ==
  ASSUME IInv, NEW t \in Threads, By(t)
  PROVE  \A u \in Threads : u # t => at'[u] = at[u] /\ my'[u] = my[u] /\ tls'[u] = tls[u]
<1>0. /\ at \in [Threads -> Places] /\ my \in [Threads -> LocalTypes]
      /\ tls \in [Threads -> -MaxThreadsInPool..MaxCaches]
  BY DEF IInv, TypeOK
<1>1. CASE Call(t)
  BY <1>0, <1>1 DEF Call, Goes, Knows
<1>2. CASE InitPool(t)
  BY <1>0, <1>2 DEF InitPool, Goes
<1>3. CASE AllocCache(t)
  BY <1>0, <1>3 DEF AllocCache, Goes
<1>4. CASE FillCache(t)
  BY <1>0, <1>4 DEF FillCache, Goes, NoCacheFor
<1>5. CASE Crash(t)
  BY <1>0, <1>5 DEF Crash, Goes, Done
<1>6. CASE Continue(t)
  BY <1>0, <1>6 DEF Continue, Goes, Done
<1>7. CASE FreeBlock(t)
  BY <1>0, <1>7 DEF FreeBlock, Goes, Done
<1>8. CASE Walk(t)
  BY <1>0, <1>8 DEF Walk, Goes, Done
<1>9. CASE TryMine(t)
  BY <1>0, <1>9 DEF TryMine, Goes
<1>10. CASE LookUp(t)
  BY <1>0, <1>10 DEF LookUp, Goes, Remembers
<1>11. CASE LookDown(t)
  BY <1>0, <1>11 DEF LookDown, Goes, Remembers
<1>12. CASE Create(t)
  BY <1>0, <1>12 DEF Create, Goes
<1>13. CASE Insert(t)
  BY <1>0, <1>13 DEF Insert, Goes
<1>14. CASE LockNew(t)
  BY <1>0, <1>14 DEF LockNew, Goes, Remembers
<1>15. CASE Wait(t)
  BY <1>0, <1>15 DEF Wait, Goes
<1>16. CASE Use(t)
  BY <1>0, <1>16 DEF Use, Goes, Done
<1>17. CASE neddisablethreadcache(t)
  BY <1>0, <1>17 DEF neddisablethreadcache, Goes
<1>18. CASE DropCache(t)
  BY <1>0, <1>18 DEF DropCache, Goes, Done
<1>19. CASE Reborn(t)
  BY <1>0, <1>19 DEF Reborn, Goes
<1>. QED
  BY <1>1, <1>2, <1>3, <1>4, <1>5, <1>6, <1>7, <1>8, <1>9, <1>10,
     <1>11, <1>12, <1>13, <1>14, <1>15, <1>16, <1>17, <1>18, <1>19 DEF By, Step

\* What was found stays where it is.
LEMMA FoundStays ==
  ASSUME IInv, NEW t \in Threads, By(t)
  PROVE  \A k \in Found : k \in Found' /\ m'[k] = m[k]
<1>1. CASE InitPool(t)
  <2>1. CASE threads = 0
    BY <2>1, FoundTyped, NedpoolAssumption DEF IInv, ListInv, Found, Indices
  <2>2. CASE threads # 0
    BY <1>1, <2>2 DEF InitPool, pool, Found
  <2>. QED
    BY <2>1, <2>2
<1>2. CASE Insert(t)
  <2>1. CASE UNCHANGED m
    BY <2>1 DEF Found
  <2>2. ASSUME NEW end \in EndNow(t), end < threads, m' = [m EXCEPT ![end] = my[t].temp]
        PROVE  \A k \in Found : k \in Found' /\ m'[k] = m[k]
    <3>1. end \in Indices /\ m[end] = NoSpace
      BY <1>2, <2>2, NedpoolAssumption DEF Insert, Goes, IInv, TypeOK, WhenAt, EndNow, Indices
    <3>2. \A k \in Indices : m[k] # NoSpace => m'[k] = m[k]
      BY <2>2, <3>1 DEF IInv, TypeOK
    <3>. QED
      BY <3>2, NedpoolAssumption DEF Found, Indices
  <2>. QED
    BY <1>2, <2>1, <2>2 DEF Insert
<1>3. CASE ~InitPool(t) /\ ~Insert(t)
  <2>1. UNCHANGED m
    BY <1>3 DEF By, Step, pool, Call, AllocCache, FillCache, Crash, Continue, FreeBlock, Walk,
                TryMine, LookUp, LookDown, Create, LockNew, Wait, Use, neddisablethreadcache,
                DropCache, Reborn
  <2>. QED
    BY <2>1 DEF Found
<1>. QED
  BY <1>1, <1>2, <1>3

\* Only InitPool makes the pool ready.
LEMMA UnusedStep ==
  ASSUME IInv, [Next]_vars
  PROVE  UnusedInv'
<1>1. ASSUME NEW t \in Threads, By(t), threads = 0, threads' = 0
      PROVE  UnusedInv'
  <2>0. at[t] \in {"idle", "init"}
    BY <1>1 DEF IInv, UnusedInv
  <2>1. /\ Call(t) \/ InitPool(t) \/ Reborn(t)
        /\ UNCHANGED <<mutex, lock, caches>>
    BY <1>1, <2>0 DEF By, Step, Goes, pool, Call, InitPool, AllocCache, FillCache, Crash, Continue,
                FreeBlock, Walk, TryMine, LookUp, LookDown, Create, Insert, LockNew, Wait, Use,
                neddisablethreadcache, DropCache, Reborn
  <2>2. tls' = tls
    BY <1>1, <2>1 DEF Call, InitPool, Reborn, IInv, UnusedInv
  <2>3. at'[t] \in {"idle", "init"}
    BY <1>1, <2>1 DEF Call, InitPool, Reborn, Goes, IInv, TypeOK
  <2>. QED
    BY <1>1, <2>1, <2>2, <2>3, OthersStay DEF IInv, UnusedInv
<1>2. ASSUME NEW t \in Threads, By(t), threads # 0
      PROVE  threads' # 0
  BY <1>2 DEF By, Step, pool, Call, InitPool, AllocCache, FillCache, Crash, Continue,
                FreeBlock, Walk, TryMine, LookUp, LookDown, Create, Insert, LockNew, Wait, Use,
                neddisablethreadcache, DropCache, Reborn
<1>3. CASE neddestroypool
  <2>1. mutex = NoThread /\ \A s \in Spaces : lock[s] = NoThread
    BY <1>3 DEF neddestroypool, IInv, LockInv, TypeOK
  <2>2. lock = [s \in Spaces |-> NoThread]
    BY <2>1 DEF IInv, TypeOK
  <2>. QED
    BY <1>3, <2>1, <2>2 DEF neddestroypool, UnusedInv
<1>4. CASE UNCHANGED vars
  BY <1>4 DEF vars, IInv, UnusedInv
<1>. QED
  BY <1>1, <1>2, <1>3, <1>4 DEF Next, By, UnusedInv

-----------------------------------------------------------------------------
(* The locks. *)

Holding == {"fill", "locknew"}

\* p->mutex is taken on the way into these places and released on the way out.
LEMMA MutexChange ==
  ASSUME IInv, NEW t \in Threads, By(t)
  PROVE  \/ mutex' = mutex /\ (at[t] \in Holding <=> at'[t] \in Holding)
         \/ mutex = NoThread /\ mutex' = t /\ at'[t] \in Holding
         \/ at[t] \in Holding /\ mutex' = NoThread /\ at'[t] \notin Holding
<1>0. at \in [Threads -> Places]
  BY DEF IInv, TypeOK
<1>. USE DEF Holding
<1>1. CASE Call(t)
  BY <1>0, <1>1 DEF Call, Goes
<1>2. CASE InitPool(t)
  BY <1>0, <1>2 DEF InitPool, Goes
<1>3. CASE AllocCache(t)
  BY <1>0, <1>3 DEF AllocCache, Goes, CachesLock
<1>4. CASE FillCache(t)
  BY <1>0, <1>4 DEF FillCache, Goes
<1>5. CASE Crash(t)
  BY <1>0, <1>5 DEF Crash, Goes
<1>6. CASE Continue(t)
  BY <1>0, <1>6 DEF Continue, Goes
<1>7. CASE FreeBlock(t)
  BY <1>0, <1>7 DEF FreeBlock, Goes
<1>8. CASE Walk(t)
  BY <1>0, <1>8 DEF Walk, Goes
<1>9. CASE TryMine(t)
  BY <1>0, <1>9 DEF TryMine, Goes
<1>10. CASE LookUp(t)
  BY <1>0, <1>10 DEF LookUp, Goes
<1>11. CASE LookDown(t)
  BY <1>0, <1>11 DEF LookDown, Goes
<1>12. CASE Create(t)
  BY <1>0, <1>12 DEF Create, Goes
<1>13. CASE Insert(t)
  BY <1>0, <1>13 DEF Insert, Goes, EndNow
<1>14. CASE LockNew(t)
  BY <1>0, <1>14 DEF LockNew, Goes, Unlock
<1>15. CASE Wait(t)
  BY <1>0, <1>15 DEF Wait, Goes
<1>16. CASE Use(t)
  BY <1>0, <1>16 DEF Use, Goes
<1>17. CASE neddisablethreadcache(t)
  BY <1>0, <1>17 DEF neddisablethreadcache, Goes
<1>18. CASE DropCache(t)
  BY <1>0, <1>18 DEF DropCache, Goes
<1>19. CASE Reborn(t)
  BY <1>0, <1>19 DEF Reborn, Goes
<1>. QED
  BY <1>1, <1>2, <1>3, <1>4, <1>5, <1>6, <1>7, <1>8, <1>9, <1>10,
     <1>11, <1>12, <1>13, <1>14, <1>15, <1>16, <1>17, <1>18, <1>19 DEF By, Step

\* The lock of an mspace is taken on the way to Use, for the mspace that is last then,
\* and is given back there.
LEMMA LockChange ==
  ASSUME IInv, NEW t \in Threads, By(t)
  PROVE  \/ lock' = lock /\ at[t] # "use" /\ at'[t] # "use"
         \/ /\ at[t] # "use" /\ at'[t] = "use" /\ my'[t].last \in Found
            /\ lock[m[my'[t].last]] = NoThread
            /\ lock' = [lock EXCEPT ![m[my'[t].last]] = t]
         \/ Use(t)
<1>0. at \in [Threads -> Places] /\ my \in [Threads -> LocalTypes]
  BY DEF IInv, TypeOK
<1>1. CASE Call(t)
  BY <1>0, <1>1 DEF Call, Goes
<1>2. CASE InitPool(t)
  BY <1>0, <1>2 DEF InitPool, Goes
<1>3. CASE AllocCache(t)
  BY <1>0, <1>3 DEF AllocCache, Goes
<1>4. CASE FillCache(t)
  BY <1>0, <1>4 DEF FillCache, Goes
<1>5. CASE Crash(t)
  BY <1>0, <1>5 DEF Crash, Goes
<1>6. CASE Continue(t)
  BY <1>0, <1>6 DEF Continue, Goes
<1>7. CASE FreeBlock(t)
  BY <1>0, <1>7 DEF FreeBlock, Goes
<1>8. CASE Walk(t)
  BY <1>0, <1>8 DEF Walk, Goes
<1>9. CASE TryMine(t)
  <2>1. CASE Take(t, m[my[t].last]) /\ UNCHANGED my
    BY <1>0, <1>9, <2>1 DEF TryMine, Goes, Take, IInv, WhenAt, Knowing
  <2>. QED
    BY <1>0, <1>9, <2>1 DEF TryMine, Goes
<1>10. CASE LookUp(t)
  <2>1. CASE Take(t, m[my[t].n]) /\ Remembers(t, my[t].n)
    <3>1. my[t].n \in Found /\ my'[t].last = my[t].n
      BY <1>0, <1>10, <2>1, FoundTyped, NedpoolAssumption
         DEF LookUp, Goes, IInv, WhenAt, Knowing, Remembers, LocalTypes, Found, Indices
    <3>. QED
      BY <1>0, <1>10, <2>1, <3>1 DEF LookUp, Goes, Take
  <2>2. CASE ~(Take(t, m[my[t].n]) /\ Remembers(t, my[t].n))
    BY <1>0, <1>10, <2>2 DEF LookUp, Goes
  <2>. QED
    BY <1>10, <2>1, <2>2 DEF LookUp
<1>11. CASE LookDown(t)
  <2>1. CASE Take(t, m[my[t].n]) /\ Remembers(t, my[t].n)
    <3>1. my[t].n \in Found /\ my'[t].last = my[t].n
      BY <1>0, <1>11, <2>1, FoundTyped, NedpoolAssumption
         DEF LookDown, Goes, IInv, WhenAt, Knowing, Remembers, LocalTypes, Found, Indices
    <3>. QED
      BY <1>0, <1>11, <2>1, <3>1 DEF LookDown, Goes, Take
  <2>2. CASE ~(Take(t, m[my[t].n]) /\ Remembers(t, my[t].n))
    BY <1>0, <1>11, <2>2 DEF LookDown, Goes
  <2>. QED
    BY <1>11, <2>1, <2>2 DEF LookDown
<1>12. CASE Create(t)
  BY <1>0, <1>12 DEF Create, Goes
<1>13. CASE Insert(t)
  BY <1>0, <1>13 DEF Insert, Goes
<1>14. CASE LockNew(t)
  <2>1. my[t].n \in Found /\ my'[t].last = my[t].n
    BY <1>0, <1>14 DEF LockNew, Goes, IInv, WhenAt, Remembers, LocalTypes
  <2>. QED
    BY <1>0, <1>14, <2>1 DEF LockNew, NewLock, Take, Goes
<1>15. CASE Wait(t)
  BY <1>0, <1>15 DEF Wait, Take, Goes, IInv, WhenAt, Knowing
<1>16. CASE Use(t)
  BY <1>16
<1>17. CASE neddisablethreadcache(t)
  BY <1>0, <1>17 DEF neddisablethreadcache, Goes
<1>18. CASE DropCache(t)
  BY <1>0, <1>18 DEF DropCache, Goes
<1>19. CASE Reborn(t)
  BY <1>0, <1>19 DEF Reborn, Goes
<1>. QED
  BY <1>1, <1>2, <1>3, <1>4, <1>5, <1>6, <1>7, <1>8, <1>9, <1>10,
     <1>11, <1>12, <1>13, <1>14, <1>15, <1>16, <1>17, <1>18, <1>19 DEF By, Step

\* Who uses an mspace has its lock, and whoever has a lock uses its mspace.
LEMMA LockStep ==
  ASSUME IInv, [Next]_vars
  PROVE  LockInv'
<1>1. ASSUME NEW t \in Threads, By(t) PROVE LockInv'
  <2>1. \A u \in Threads : mutex' = u <=> at'[u] \in Holding
    BY <1>1, MutexChange, OthersStay, NedpoolAssumption DEF IInv, LockInv, Holding
  <2>2. \A u \in Threads : at[u] = "use" => /\ my[u].last \in Found /\ m[my[u].last] \in Spaces
                                          /\ m'[my[u].last] = m[my[u].last]
    BY <1>1, FoundTyped, FoundStays DEF IInv, WhenAt, Knowing
  <2>3. lock \in [Spaces -> Threads \cup {NoThread}]
    BY DEF IInv, TypeOK
  <2>4. CASE lock' = lock /\ at[t] # "use" /\ at'[t] # "use"
    <3>1. \A u \in Threads : at'[u] = "use" => at[u] = "use" /\ my'[u] = my[u]
      BY <1>1, <2>4, OthersStay
    <3>2. \A s \in Spaces : lock[s] # NoThread => lock[s] \in Threads /\ lock[s] # t
      BY <2>3, <2>4 DEF IInv, LockInv
    <3>. QED
      BY <1>1, <2>1, <2>2, <2>4, <3>1, <3>2, OthersStay DEF IInv, LockInv, Holding
  <2>5. CASE /\ at[t] # "use" /\ at'[t] = "use" /\ my'[t].last \in Found
             /\ lock[m[my'[t].last]] = NoThread
             /\ lock' = [lock EXCEPT ![m[my'[t].last]] = t]
    <3>1. m'[my'[t].last] = m[my'[t].last] /\ m[my'[t].last] \in Spaces
      BY <1>1, <2>5, FoundTyped, FoundStays
    <3>2. \A s \in Spaces : lock'[s] = IF s = m[my'[t].last] THEN t ELSE lock[s]
      BY <2>3, <2>5, <3>1
    <3>3. \A s \in Spaces : lock[s] # NoThread => lock[s] \in Threads /\ lock[s] # t
      BY <2>3, <2>5 DEF IInv, LockInv
    <3>4. \A u \in Threads : at'[u] = "use" => lock'[m'[my'[u].last]] = u
      BY <1>1, <2>2, <2>5, <3>1, <3>2, OthersStay, NedpoolAssumption DEF IInv, LockInv
    <3>5. \A s \in Spaces : lock'[s] # NoThread => at'[lock'[s]] = "use" /\ m'[my'[lock'[s]].last] = s
      BY <1>1, <2>2, <2>5, <3>1, <3>2, <3>3, OthersStay DEF IInv, LockInv
    <3>. QED
      BY <2>1, <3>4, <3>5 DEF LockInv, Holding
  <2>6. CASE Use(t)
    <3>1. at[t] = "use" /\ at'[t] = "idle" /\ lock' = [lock EXCEPT ![m[my[t].last]] = NoThread] /\ UNCHANGED m
      BY <2>6 DEF Use, Goes, pool, IInv, TypeOK
    <3>2. \A s \in Spaces : lock'[s] = IF s = m[my[t].last] THEN NoThread ELSE lock[s]
      BY <2>2, <2>3, <3>1
    <3>3. \A u \in Threads : at'[u] = "use" => lock'[m'[my'[u].last]] = u
      BY <1>1, <2>2, <3>1, <3>2, OthersStay DEF IInv, LockInv
    <3>4. \A s \in Spaces : lock'[s] # NoThread => at'[lock'[s]] = "use" /\ m'[my'[lock'[s]].last] = s
      BY <1>1, <2>2, <2>3, <3>1, <3>2, OthersStay DEF IInv, LockInv
    <3>. QED
      BY <2>1, <3>3, <3>4 DEF LockInv, Holding
  <2>. QED
    BY <1>1, <2>4, <2>5, <2>6, LockChange
<1>2. CASE neddestroypool
  <2>1. UNCHANGED <<mutex, lock, at>> /\ \A u \in Threads : at[u] = "idle"
    BY <1>2 DEF neddestroypool
  <2>. QED
    BY <2>1 DEF IInv, LockInv, TypeOK
<1>3. CASE UNCHANGED vars
  BY <1>3 DEF vars, IInv, LockInv
<1>. QED
  BY <1>1, <1>2, <1>3 DEF Next, By

-----------------------------------------------------------------------------
(* What threads leave for their next call. *)

\* A slot of a thread is used by it, and by no other.
LEMMA SlotsDiffer ==
  ASSUME IInv, NEW t \in Threads, NEW u \in Threads, SlotOf(t) # NoSlot, SlotOf(t) = SlotOf(u)
  PROVE  t = u
  BY DEF IInv, ValueInv

\* The three ways a thread changes a cache: it fills an empty slot, it remembers an mspace
\* in its own cache, or it gives its cache up.
LEMMA CachesChange ==
  ASSUME IInv, NEW t \in Threads, By(t)
  PROVE  \/ UNCHANGED caches
         \/ /\ at[t] = "fill" /\ my[t].n \in Slots /\ caches[my[t].n] = NoCache
            /\ \E k \in Found : caches' = [caches EXCEPT ![my[t].n] = [threadid |-> t, mymspace |-> k]]
         \/ /\ SlotOf(t) \in Slots
            /\ \E k \in Found : caches' = [caches EXCEPT ![SlotOf(t)].mymspace = k]
         \/ at[t] = "drop" /\ SlotOf(t) \in Slots /\ caches' = [caches EXCEPT ![SlotOf(t)] = NoCache]
<1>1. CASE FillCache(t)
  <2>1. at[t] = "fill" /\ my[t].n \in 0..MaxCaches /\ (my[t].n < MaxCaches => caches[my[t].n] = NoCache)
    BY <1>1 DEF FillCache, Goes, IInv, WhenAt
  <2>2. ~Exhausted(my[t].n) => my[t].n \in Slots /\ caches[my[t].n] = NoCache
    BY <2>1, NedpoolAssumption DEF Exhausted, Slots
  <2>. QED
    BY <1>1, <2>1, <2>2 DEF FillCache, NoCacheFor
<1>2. CASE DropCache(t)
  <2>1. at[t] = "drop" /\ SlotOf(t) = my[t].cache /\ my[t].cache \in Slots
    BY <1>2 DEF DropCache, Goes, IInv, WhenAt, SlotOf
  <2>. QED
    BY <1>2, <2>1 DEF DropCache
<1>3. CASE (LookUp(t) \/ LookDown(t) \/ LockNew(t)) /\ Remembers(t, my[t].n)
  <2>1. at[t] \in Knowing
    BY <1>3 DEF LookUp, LookDown, LockNew, Goes, Knowing
  <2>2. my[t].cache = SlotOf(t)
    BY <2>1 DEF IInv, WhenAt
  <2>3. SlotOf(t) # NoSlot => SlotOf(t) \in Slots
    BY MineTyped
  <2>4. my[t].n \in Found \/ UNCHANGED caches
    BY <1>3, FoundByThread
  <2>. QED
    BY <1>3, <2>2, <2>3, <2>4 DEF Remembers
<1>. QED
  BY <1>1, <1>2, <1>3
     DEF By, Step, Call, InitPool, AllocCache, Crash, Continue, FreeBlock, Walk, TryMine, LookUp,
         LookDown, Create, Insert, LockNew, Wait, Use, neddisablethreadcache, Reborn

\* A thread comes by a slot by filling it and loses it for good; otherwise it keeps it.
LEMMA SlotChange ==
  ASSUME IInv, NEW t \in Threads, By(t)
  PROVE  \/ SlotOf(t)' = NoSlot
         \/ SlotOf(t)' = SlotOf(t) /\ at[t] \notin {"fill", "drop"}
         \/ at[t] = "fill" /\ SlotOf(t)' = my[t].n /\ caches' # caches
<1>0. /\ at \in [Threads -> Places] /\ my \in [Threads -> LocalTypes]
      /\ tls \in [Threads -> -MaxThreadsInPool..MaxCaches]
  BY DEF IInv, TypeOK
<1>1. CASE Call(t)
  BY <1>0, <1>1 DEF Call, Goes, SlotOf, HasCache, MySlot
<1>2. CASE InitPool(t)
  BY <1>0, <1>2 DEF InitPool, Goes, SlotOf, HasCache, MySlot
<1>3. CASE AllocCache(t)
  BY <1>0, <1>3 DEF AllocCache, Goes, SlotOf, HasCache, MySlot
<1>4. CASE FillCache(t)
  <2>1. CASE NoCacheFor(t)
    <3>1. tls'[t] = -1 /\ at'[t] = "known"
      BY <1>0, <1>4, <2>1 DEF FillCache, Goes, NoCacheFor
    <3>. QED
      BY <3>1 DEF SlotOf, HasCache
  <2>2. CASE ~NoCacheFor(t)
    <3>1. at[t] = "fill" /\ at'[t] = "known" /\ tls'[t] = my[t].n + 1 /\ my[t].n \in 0..MaxCaches
      BY <1>0, <1>4, <2>2 DEF FillCache, Goes, IInv, WhenAt
    <3>2. my[t].n \in Slots /\ caches[my[t].n] = NoCache
      BY <1>4, <2>2, <3>1, NedpoolAssumption DEF FillCache, IInv, WhenAt, Exhausted, Slots
    <3>3. PICK k \in Found : caches' = [caches EXCEPT ![my[t].n] = [threadid |-> t, mymspace |-> k]]
      BY <1>4, <2>2 DEF FillCache
    <3>4. caches'[my[t].n] # caches[my[t].n]
      <4>1. caches'[my[t].n].threadid = t /\ caches[my[t].n].threadid = NoThread
        BY <3>2, <3>3 DEF IInv, TypeOK, NoCache
      <4>. QED
        BY <4>1, NedpoolAssumption
    <3>. QED
      BY <3>1, <3>2, <3>4 DEF SlotOf, HasCache, MySlot, Slots
  <2>. QED
    BY <2>1, <2>2
<1>5. CASE Crash(t)
  BY <1>0, <1>5 DEF Crash, Goes, SlotOf, HasCache, MySlot
<1>6. CASE Continue(t)
  BY <1>0, <1>6 DEF Continue, Goes, SlotOf, HasCache, MySlot
<1>7. CASE FreeBlock(t)
  BY <1>0, <1>7 DEF FreeBlock, Goes, SlotOf, HasCache, MySlot
<1>8. CASE Walk(t)
  BY <1>0, <1>8 DEF Walk, Goes, SlotOf, HasCache, MySlot
<1>9. CASE TryMine(t)
  BY <1>0, <1>9 DEF TryMine, Goes, SlotOf, HasCache, MySlot
<1>10. CASE LookUp(t)
  <2>1. CASE UNCHANGED tls
    BY <1>0, <1>10, <2>1 DEF LookUp, Goes, SlotOf, HasCache, MySlot
  <2>2. CASE Remembers(t, my[t].n) /\ my[t].cache = NoSlot
    <3>1. at'[t] # "drop" /\ tls'[t] = -(my[t].n + 1) /\ my[t].n \in Nat
      BY <1>0, <1>10, <2>2, NedpoolAssumption DEF LookUp, Goes, Remembers, LocalTypes
    <3>. QED
      BY <3>1 DEF SlotOf, HasCache
  <2>. QED
    BY <1>10, <2>1, <2>2 DEF LookUp, Remembers
<1>11. CASE LookDown(t)
  <2>1. CASE UNCHANGED tls
    BY <1>0, <1>11, <2>1 DEF LookDown, Goes, SlotOf, HasCache, MySlot
  <2>2. CASE Remembers(t, my[t].n) /\ my[t].cache = NoSlot
    <3>1. at'[t] # "drop" /\ tls'[t] = -(my[t].n + 1) /\ my[t].n \in Nat
      BY <1>0, <1>11, <2>2, NedpoolAssumption DEF LookDown, Goes, Remembers, LocalTypes
    <3>. QED
      BY <3>1 DEF SlotOf, HasCache
  <2>. QED
    BY <1>11, <2>1, <2>2 DEF LookDown, Remembers
<1>12. CASE Create(t)
  BY <1>0, <1>12 DEF Create, Goes, SlotOf, HasCache, MySlot
<1>13. CASE Insert(t)
  BY <1>0, <1>13 DEF Insert, Goes, SlotOf, HasCache, MySlot
<1>14. CASE LockNew(t)
  <2>1. CASE UNCHANGED tls
    BY <1>0, <1>14, <2>1 DEF LockNew, Goes, SlotOf, HasCache, MySlot
  <2>2. CASE Remembers(t, my[t].n) /\ my[t].cache = NoSlot
    <3>1. at'[t] # "drop" /\ tls'[t] = -(my[t].n + 1) /\ my[t].n \in Nat
      BY <1>0, <1>14, <2>2, NedpoolAssumption DEF LockNew, Goes, Remembers, LocalTypes
    <3>. QED
      BY <3>1 DEF SlotOf, HasCache
  <2>. QED
    BY <1>14, <2>1, <2>2 DEF LockNew, Remembers
<1>15. CASE Wait(t)
  BY <1>0, <1>15 DEF Wait, Goes, SlotOf, HasCache, MySlot
<1>16. CASE Use(t)
  BY <1>0, <1>16 DEF Use, Goes, SlotOf, HasCache, MySlot
<1>17. CASE neddisablethreadcache(t)
  <2>1. CASE HasCache(t)
    BY <1>0, <1>17, <2>1 DEF neddisablethreadcache, Goes, SlotOf, HasCache, MySlot, LocalTypes
  <2>2. CASE ~HasCache(t)
    <3>1. at'[t] = "idle" /\ ~(tls'[t] > 0)
      BY <1>0, <1>17, <2>2 DEF neddisablethreadcache, Goes, HasCache
    <3>. QED
      BY <3>1 DEF SlotOf, HasCache
  <2>. QED
    BY <2>1, <2>2
<1>18. CASE DropCache(t)
  BY <1>0, <1>18 DEF DropCache, Goes, SlotOf, HasCache, IInv, WhenAt
<1>19. CASE Reborn(t)
  BY <1>0, <1>19 DEF Reborn, Goes, SlotOf, HasCache
<1>. QED
  BY <1>1, <1>2, <1>3, <1>4, <1>5, <1>6, <1>7, <1>8, <1>9, <1>10,
     <1>11, <1>12, <1>13, <1>14, <1>15, <1>16, <1>17, <1>18, <1>19 DEF By, Step

\* A number without a cache is that of an mspace, too.
LEMMA NumberStep ==
  ASSUME IInv, NEW t \in Threads, By(t), tls'[t] < 0
  PROVE  -tls'[t] - 1 \in Found'
<1>0. tls \in [Threads -> -MaxThreadsInPool..MaxCaches]
  BY DEF IInv, TypeOK
<1>1. CASE UNCHANGED tls
  BY <1>1, FoundStays DEF IInv, ValueInv
<1>2. CASE FillCache(t)
  <2>1. tls'[t] = -1
    <3>1. my[t].n \in 0..MaxCaches
      BY <1>2 DEF FillCache, Goes, IInv, WhenAt
    <3>. QED
      BY <1>0, <1>2, <3>1, NedpoolAssumption DEF FillCache, NoCacheFor
  <2>2. threads # 0
    BY <1>2 DEF FillCache, Goes, IInv, UnusedInv
  <2>. QED
    BY <2>1, <2>2, FoundTyped, FoundStays
<1>3. CASE neddisablethreadcache(t)
  <2>1. threads # 0 /\ UNCHANGED m
    BY <1>3 DEF neddisablethreadcache, pool
  <2>2. CASE tls'[t] = -1
    BY <2>1, <2>2, FoundTyped, FoundStays
  <2>3. CASE HasCache(t) /\ tls'[t] = -caches[MySlot(t)].mymspace
    <3>1. at[t] # "drop"
      BY <1>3, <2>3 DEF neddisablethreadcache, Goes, HasCache
    <3>2. SlotOf(t) = MySlot(t) /\ MySlot(t) \in Slots /\ MySlot(t) # NoSlot
      BY <2>3, <3>1, MineTyped, NedpoolAssumption DEF SlotOf, NoSlot, Slots
    <3>3. caches[MySlot(t)].threadid = t
      BY <3>2 DEF IInv, ValueInv
    <3>4. caches[MySlot(t)].mymspace \in Found
      BY <3>2, <3>3, NedpoolAssumption DEF IInv, ValueInv
    <3>5. caches[MySlot(t)].mymspace - 1 \in Found
      BY <2>3, <3>4, NedpoolAssumption DEF Found, Indices
    <3>6. -tls'[t] - 1 = caches[MySlot(t)].mymspace - 1
      BY <2>3, <3>4, FoundTyped, NedpoolAssumption
    <3>. QED
      BY <3>5, <3>6, FoundStays
  <2>. QED
    BY <1>0, <1>1, <1>3, <2>2, <2>3 DEF neddisablethreadcache
<1>4. CASE Reborn(t)
  BY <1>0, <1>4 DEF Reborn
<1>5. CASE (LookUp(t) \/ LookDown(t) \/ LockNew(t)) /\ Remembers(t, my[t].n)
  <2>1. my[t].n \in Found \/ UNCHANGED tls
    BY <1>5, FoundByThread
  <2>2. CASE my[t].n \in Found
    <3>1. my[t].n \in Nat
      BY <2>2, FoundTyped, NedpoolAssumption
    <3>2. UNCHANGED tls \/ -tls'[t] - 1 = my[t].n
      BY <1>0, <1>5, <3>1 DEF Remembers
    <3>. QED
      BY <1>1, <2>2, <3>2, FoundStays
  <2>. QED
    BY <1>1, <2>1, <2>2
<1>. QED
  BY <1>1, <1>2, <1>3, <1>4, <1>5
     DEF By, Step, Call, InitPool, AllocCache, Crash, Continue, FreeBlock, Walk, TryMine, LookUp,
         LookDown, Create, Insert, LockNew, Wait, Use, DropCache

\* The values stay good until the next call, whatever other threads do meanwhile.
LEMMA ValueStep ==
  ASSUME IInv, [Next]_vars
  PROVE  ValueInv'
<1>1. ASSUME NEW t \in Threads, By(t) PROVE ValueInv'
  <2>0. ValuesTyped /\ NoThread \notin Threads
    BY NedpoolAssumption DEF IInv, TypeOK, ValuesTyped
  <2>1. \A u \in Threads : u # t => SlotOf(u)' = SlotOf(u)
    BY <1>1, OthersStay DEF SlotOf, HasCache, MySlot
  <2>2. \A u \in Threads : tls'[u] < 0 => -tls'[u] - 1 \in Found'
    BY <1>1, OthersStay, NumberStep, FoundStays DEF IInv, ValueInv
  <2>3. \A u \in Threads : SlotOf(u) \in {NoSlot} \cup Slots
    BY MineTyped
  <2>4. \A u \in Threads : SlotOf(u) # NoSlot => caches[SlotOf(u)].threadid = u
    BY DEF IInv, ValueInv
  <2>5. \A k \in Slots : caches[k].threadid # NoThread => caches[k].mymspace \in Found'
    BY <1>1, FoundStays DEF IInv, ValueInv
  <2>6. CASE UNCHANGED caches
    BY <1>1, <2>1, <2>2, <2>4, <2>5, <2>6, SlotChange DEF ValueInv
  <2>7. CASE /\ at[t] = "fill" /\ my[t].n \in Slots /\ caches[my[t].n] = NoCache
             /\ \E k \in Found : caches' = [caches EXCEPT ![my[t].n] = [threadid |-> t, mymspace |-> k]]
    <3>1. PICK k \in Found : caches' = [caches EXCEPT ![my[t].n] = [threadid |-> t, mymspace |-> k]]
      BY <2>7
    <3>2. /\ caches'[my[t].n].threadid = t /\ caches'[my[t].n].mymspace \in Found'
          /\ \A j \in Slots : j # my[t].n => caches'[j] = caches[j]
      BY <1>1, <2>0, <2>7, <3>1, FoundStays DEF ValuesTyped
    <3>3. \A u \in Threads : SlotOf(u) # my[t].n
      BY <2>0, <2>4, <2>7, NedpoolAssumption DEF NoCache, NoSlot, Slots
    <3>. QED
      BY <1>1, <2>1, <2>2, <2>3, <2>4, <2>5, <2>7, <3>2, <3>3, SlotChange DEF ValueInv
  <2>8. CASE /\ SlotOf(t) \in Slots
             /\ \E k \in Found : caches' = [caches EXCEPT ![SlotOf(t)].mymspace = k]
    <3>1. PICK k \in Found : caches' = [caches EXCEPT ![SlotOf(t)].mymspace = k]
      BY <2>8
    <3>2. /\ caches'[SlotOf(t)].threadid = caches[SlotOf(t)].threadid
          /\ caches'[SlotOf(t)].mymspace \in Found'
          /\ \A j \in Slots : j # SlotOf(t) => caches'[j] = caches[j]
      BY <1>1, <2>0, <2>8, <3>1, FoundStays DEF ValuesTyped
    <3>3. \A j \in Slots : caches'[j].threadid = caches[j].threadid
      BY <3>2
    <3>4. at[t] # "fill"
      BY <2>8, NedpoolAssumption DEF IInv, TypeOK, WhenAt, SlotOf, HasCache, NoSlot, Slots
    <3>. QED
      BY <1>1, <2>1, <2>2, <2>3, <2>4, <2>5, <3>2, <3>3, <3>4, SlotChange DEF ValueInv
  <2>9. CASE at[t] = "drop" /\ SlotOf(t) \in Slots /\ caches' = [caches EXCEPT ![SlotOf(t)] = NoCache]
    <3>1. /\ caches'[SlotOf(t)].threadid = NoThread
          /\ \A j \in Slots : j # SlotOf(t) => caches'[j] = caches[j]
      BY <2>0, <2>9 DEF ValuesTyped, NoCache
    <3>2. SlotOf(t)' = NoSlot
      BY <1>1, <2>9, SlotChange
    <3>3. \A u \in Threads : u # t /\ SlotOf(u) # NoSlot => SlotOf(u) # SlotOf(t)
      BY SlotsDiffer
    <3>. QED
      BY <1>1, <2>1, <2>2, <2>3, <2>4, <2>5, <3>1, <3>2, <3>3 DEF ValueInv
  <2>. QED
    BY <1>1, <2>6, <2>7, <2>8, <2>9, CachesChange
<1>2. CASE neddestroypool
  <2>1. \A k \in Slots : caches'[k].threadid = NoThread
    BY <1>2 DEF neddestroypool, NoCache
  <2>2. \A u \in Threads : tls'[u] = 0 /\ at'[u] = "idle"
    BY <1>2 DEF neddestroypool
  <2>. QED
    BY <2>1, <2>2 DEF ValueInv, SlotOf, HasCache
<1>3. CASE UNCHANGED vars
  BY <1>3 DEF vars, IInv, ValueInv, SlotOf, HasCache, MySlot, Found
<1>. QED
  BY <1>1, <1>2, <1>3 DEF Next, By

-----------------------------------------------------------------------------
(* What a thread knows where it is. *)

\* While a thread is at fill nobody else fills a slot: that takes p->mutex.
LEMMA EmptyStays ==
  ASSUME IInv, NEW t \in Threads, By(t), NEW u \in Threads, u # t, at[u] = "fill",
         NEW k \in Slots, caches[k] = NoCache
  PROVE  caches'[k] = NoCache
<1>1. mutex = u /\ at[t] # "fill"
  BY NedpoolAssumption DEF IInv, LockInv
<1>2. SlotOf(t) \in Slots => SlotOf(t) # k
  BY NedpoolAssumption DEF IInv, ValueInv, NoCache, NoSlot, Slots
<1>. QED
  BY <1>1, <1>2, CachesChange DEF IInv, TypeOK

\* What a thread knows stays true while others go on.
LEMMA WhenOthers ==
  ASSUME IInv, NEW t \in Threads, By(t), NEW u \in Threads, u # t
  PROVE  WhenAt(u)'
<1>1. at'[u] = at[u] /\ my'[u] = my[u] /\ tls'[u] = tls[u]
  BY OthersStay
<1>2. SlotOf(u)' = SlotOf(u)
  BY <1>1 DEF SlotOf, HasCache, MySlot
<1>3. Found \subseteq Found'
  BY FoundStays
<1>4. at[u] = "fill" /\ my[u].n < MaxCaches => caches'[my[u].n] = NoCache
  <2>1. at[u] = "fill" /\ my[u].n < MaxCaches => my[u].n \in Slots /\ caches[my[u].n] = NoCache
    BY NedpoolAssumption DEF IInv, WhenAt, Slots
  <2>. QED
    BY <2>1, EmptyStays
<1>5. WhenAt(u)
  BY DEF IInv
<1>. QED
  BY <1>1, <1>2, <1>3, <1>4, <1>5 DEF WhenAt

LEMMA FoundIsKept ==
  ASSUME IInv, NEW t \in Threads, By(t)
  PROVE  Found \subseteq Found'
  BY FoundStays

\* A thread that has found an mspace has its number in last, and in its cache or storage.
LEMMA RememberedThere ==
  ASSUME IInv, NEW t \in Threads, LookUp(t) \/ LookDown(t) \/ LockNew(t),
         Remembers(t, my[t].n), at'[t] = "use", at[t] \in Knowing, my[t].temp = NoSpace
  PROVE  WhenAt(t)'
<1>0. /\ at \in [Threads -> Places] /\ my \in [Threads -> LocalTypes]
      /\ tls \in [Threads -> -MaxThreadsInPool..MaxCaches]
  BY DEF IInv, TypeOK
<1>1. my'[t].cache = my[t].cache /\ my'[t].last = my[t].n /\ my'[t].temp = NoSpace
  BY <1>0 DEF Remembers, LocalTypes
<1>2. my[t].cache = SlotOf(t) /\ tls[t] # 0 /\ at[t] # "drop" /\ my[t].n \in Nat
  BY <1>0, NedpoolAssumption DEF IInv, WhenAt, Knowing, LocalTypes
<1>3. SlotOf(t)' = my[t].cache /\ tls'[t] # 0
  <2>1. CASE my[t].cache # NoSlot
    BY <1>2, <2>1 DEF Remembers, SlotOf, HasCache, MySlot
  <2>2. CASE my[t].cache = NoSlot
    <3>1. tls'[t] = -(my[t].n + 1)
      BY <1>0, <2>2 DEF Remembers
    <3>. QED
      BY <1>2, <2>2, <3>1 DEF SlotOf, HasCache
  <2>. QED
    BY <2>1, <2>2
<1>4. my[t].n \in Found'
  <2>1. my[t].n \in Found
    <3>1. CASE LookUp(t)
      BY <1>0, <3>1, FoundTyped DEF IInv, LookUp, Goes, WhenAt
    <3>2. CASE LookDown(t)
      <4>1. my[t].last \in Found /\ my[t].n \in 0..my[t].last
        BY <3>2 DEF IInv, LookDown, Goes, WhenAt, Knowing
      <4>. QED
        BY <4>1, FoundTyped, NedpoolAssumption DEF Found, Indices
    <3>3. CASE LockNew(t)
      BY <3>3 DEF IInv, LockNew, Goes, WhenAt
    <3>. QED
      BY <3>1, <3>2, <3>3
  <2>2. UNCHANGED m
    BY DEF LookUp, LookDown, LockNew, pool
  <2>. QED
    BY <2>1, <2>2 DEF Found
<1>. QED
  BY <1>1, <1>2, <1>3, <1>4 DEF WhenAt, Knowing

\* A thread's own step leads to a place where it knows what it should.
LEMMA WhenOwn ==
  ASSUME IInv, NEW t \in Threads, By(t)
  PROVE  WhenAt(t)'
<1>0. /\ at \in [Threads -> Places] /\ my \in [Threads -> LocalTypes]
      /\ tls \in [Threads -> -MaxThreadsInPool..MaxCaches]
  BY DEF IInv, TypeOK
<1>1. CASE Call(t)
  <2>1. CASE Knows(t) /\ at'[t] = "known"
    <3>1. my[t] = Locals /\ at[t] = "idle" /\ tls[t] # 0 /\ UNCHANGED <<tls, m>>
      BY <1>1, <2>1 DEF Call, Goes, IInv, TypeOK, WhenAt, pool
    <3>2. SlotOf(t)' = (IF HasCache(t) THEN MySlot(t) ELSE NoSlot) /\ Found' = Found
      BY <2>1, <3>1 DEF SlotOf, HasCache, MySlot, Found
    <3>3. MyMspace(t) \in Found
      BY <3>1, MineTyped
    <3>4. /\ my'[t].cache = (IF HasCache(t) THEN MySlot(t) ELSE NoSlot)
          /\ my'[t].last = MyMspace(t) /\ my'[t].temp = NoSpace
      BY <1>0, <2>1, <3>1 DEF Knows, Locals, LocalTypes
    <3>. QED
      BY <2>1, <3>1, <3>2, <3>3, <3>4 DEF WhenAt, Knowing
  <2>2. CASE UNCHANGED my /\ at'[t] \in {"init", "walk", "alloc"}
    BY <1>0, <1>1, <2>2, NedpoolAssumption DEF Call, Goes, pool, IInv, WhenAt, Knowing, Locals, Indices
  <2>. QED
    BY <1>0, <1>1, <2>1, <2>2 DEF Call, Goes
<1>2. CASE InitPool(t)
  BY <1>0, <1>2 DEF InitPool, Goes, Done, IInv, WhenAt, Knowing, Locals
<1>3. CASE AllocCache(t)
  <2>1. my[t] = Locals /\ tls[t] = 0 /\ at'[t] = "fill" /\ UNCHANGED <<caches, tls>>
    BY <1>0, <1>3 DEF AllocCache, Goes, IInv, WhenAt
  <2>2. PICK k \in FirstEmpty : my' = [my EXCEPT ![t].n = k]
    BY <1>3 DEF AllocCache
  <2>3. my'[t].n = k /\ my'[t].cache = NoSlot /\ my'[t].temp = NoSpace
    BY <1>0, <2>1, <2>2 DEF Locals, LocalTypes
  <2>4. k \in 0..MaxCaches /\ (k < MaxCaches => caches[k] = NoCache)
    BY DEF FirstEmpty
  <2>. QED
    BY <2>1, <2>3, <2>4 DEF WhenAt, Knowing
<1>4. CASE FillCache(t)
  <2>1. at'[t] = "known" /\ my[t].temp = NoSpace /\ threads # 0 /\ my[t].n \in 0..MaxCaches
    BY <1>0, <1>4 DEF FillCache, Goes, IInv, WhenAt, UnusedInv
  <2>2. CASE NoCacheFor(t)
    <3>1. tls'[t] = -1 /\ my'[t].cache = NoSlot /\ my'[t].last = 0 /\ my'[t].temp = NoSpace
      BY <1>0, <2>1, <2>2 DEF NoCacheFor, LocalTypes
    <3>2. SlotOf(t)' = NoSlot
      BY <2>1, <3>1 DEF SlotOf, HasCache
    <3>. QED
      BY <2>1, <3>1, <3>2, FoundTyped, FoundIsKept DEF WhenAt, Knowing
  <2>3. CASE ~NoCacheFor(t)
    <3>1. PICK k \in Found : my' = [my EXCEPT ![t].cache = my[t].n, ![t].last = k]
      BY <1>4, <2>3 DEF FillCache
    <3>2. my'[t].cache = my[t].n /\ my'[t].last = k /\ my'[t].temp = NoSpace
      BY <1>0, <2>1, <3>1 DEF LocalTypes
    <3>3. tls'[t] = my[t].n + 1
      BY <1>0, <1>4, <2>3 DEF FillCache
    <3>4. SlotOf(t)' = my[t].n
      BY <2>1, <3>3 DEF SlotOf, HasCache, MySlot
    <3>. QED
      BY <2>1, <3>2, <3>3, <3>4, FoundIsKept DEF WhenAt, Knowing
  <2>. QED
    BY <2>2, <2>3
<1>5. CASE Crash(t)
  BY <1>0, <1>5 DEF Crash, Goes, Done, IInv, WhenAt, Knowing, Locals
<1>6. CASE Continue(t)
  <2>0. at[t] = "known" /\ UNCHANGED <<m, tls>>
    BY <1>6 DEF Continue, Goes, pool
  <2>1. CASE Done(t) /\ at'[t] = "idle"
    BY <1>0, <1>6, <2>1 DEF Continue, Goes, Done, WhenAt, Knowing, Locals
  <2>2. CASE UNCHANGED my /\ at'[t] \in {"free", "try"}
    <3>1. SlotOf(t)' = SlotOf(t)
      BY <2>0, <2>2 DEF SlotOf, HasCache, MySlot
    <3>. QED
      BY <2>0, <2>2, <3>1, FoundIsKept DEF IInv, WhenAt, Knowing
  <2>. QED
    BY <1>0, <1>6, <2>1, <2>2 DEF Continue, Goes
<1>7. CASE FreeBlock(t)
  BY <1>0, <1>7 DEF FreeBlock, Goes, Done, IInv, WhenAt, Knowing, Locals
<1>8. CASE Walk(t)
  <2>1. CASE Done(t) /\ at'[t] = "idle"
    BY <1>0, <1>8, <2>1 DEF Walk, Goes, Done, WhenAt, Knowing, Locals
  <2>2. CASE m[my[t].n] # NoSpace /\ my' = [my EXCEPT ![t].n = my[t].n + 1] /\ at'[t] = "walk"
    <3>1. at[t] = "walk" /\ my[t].n \in Indices /\ my[t].cache = NoSlot /\ my[t].temp = NoSpace
      BY <1>8 DEF Walk, Goes, IInv, WhenAt
    <3>2. my[t].n + 1 \in Indices
      BY <2>2, <3>1, FoundTyped, NedpoolAssumption DEF Indices
    <3>3. my'[t].n = my[t].n + 1 /\ my'[t].cache = NoSlot /\ my'[t].temp = NoSpace
      BY <1>0, <2>2, <3>1 DEF LocalTypes
    <3>. QED
      BY <2>2, <3>2, <3>3 DEF WhenAt, Knowing
  <2>. QED
    BY <1>0, <1>8, <2>1, <2>2 DEF Walk, Goes
<1>9. CASE TryMine(t)
  <2>1. my[t].cache = SlotOf(t) /\ my[t].last \in Found /\ tls[t] # 0 /\ my[t].temp = NoSpace
    BY <1>9 DEF TryMine, Goes, IInv, WhenAt, Knowing
  <2>2. SlotOf(t)' = SlotOf(t) /\ UNCHANGED tls
    BY <1>0, <1>9 DEF TryMine, Goes, SlotOf, HasCache, MySlot
  <2>3. CASE at'[t] = "use" /\ UNCHANGED my
    BY <2>1, <2>2, <2>3, FoundIsKept DEF WhenAt, Knowing
  <2>4. CASE /\ at'[t] = "up"
             /\ my' = [my EXCEPT ![t].n = my[t].last + 1, ![t].end = my[t].last + 1]
    <3>1. /\ my'[t].n = my[t].last + 1 /\ my'[t].end = my[t].last + 1
          /\ my'[t].cache = my[t].cache /\ my'[t].last = my[t].last /\ my'[t].temp = NoSpace
      BY <1>0, <2>1, <2>4 DEF LocalTypes
    <3>2. my'[t].n \in Indices \ {0} /\ my'[t].end - 1 = my[t].last
      BY <2>1, <3>1, FoundTyped, NedpoolAssumption DEF Indices
    <3>. QED
      BY <2>1, <2>2, <2>4, <3>1, <3>2, FoundIsKept DEF WhenAt, Knowing
  <2>. QED
    BY <1>0, <1>9, <2>3, <2>4 DEF TryMine, Goes
<1>10. CASE LookUp(t)
  <2>1. my[t].cache = SlotOf(t) /\ my[t].last \in Found /\ tls[t] # 0 /\ my[t].temp = NoSpace
    BY <1>10 DEF LookUp, Goes, IInv, WhenAt, Knowing
  <2>2. my[t].n = my[t].end /\ my[t].end \in Indices \ {0} /\ my[t].end - 1 \in Found
    BY <1>10 DEF LookUp, Goes, IInv, WhenAt
  <2>3. CASE at'[t] = "use" /\ Remembers(t, my[t].n)
    BY <1>10, <2>1, <2>2, <2>3, RememberedThere DEF LookUp, Goes, Knowing
  <2>4. CASE at'[t] # "use" /\ UNCHANGED tls
    <3>1. SlotOf(t)' = SlotOf(t)
      BY <1>0, <1>10, <2>4 DEF LookUp, Goes, SlotOf, HasCache, MySlot
    <3>2. CASE at'[t] = "down" /\ my' = [my EXCEPT ![t].n = 0]
      <4>1. /\ my'[t].n = 0 /\ my'[t].end = my[t].end /\ my'[t].temp = NoSpace
            /\ my'[t].cache = my[t].cache /\ my'[t].last = my[t].last
        BY <1>0, <2>1, <3>2 DEF LocalTypes
      <4>2. 0 \in 0..my[t].last
        BY <2>1, FoundTyped, NedpoolAssumption
      <4>. QED
        BY <2>1, <2>2, <2>4, <3>1, <3>2, <4>1, <4>2, FoundIsKept DEF WhenAt, Knowing
    <3>3. CASE /\ at'[t] = "up" /\ m[my[t].n] # NoSpace
               /\ my' = [my EXCEPT ![t].n = my[t].n + 1, ![t].end = my[t].n + 1]
      <4>1. /\ my'[t].n = my[t].n + 1 /\ my'[t].end = my[t].n + 1 /\ my'[t].temp = NoSpace
            /\ my'[t].cache = my[t].cache /\ my'[t].last = my[t].last
        BY <1>0, <2>1, <3>3 DEF LocalTypes
      <4>2. my[t].n \in Found /\ my'[t].n \in Indices \ {0} /\ my'[t].end - 1 = my[t].n
        BY <2>2, <3>3, <4>1, FoundTyped, NedpoolAssumption DEF Indices
      <4>. QED
        BY <2>1, <2>4, <3>1, <3>3, <4>1, <4>2, FoundIsKept DEF WhenAt, Knowing
    <3>. QED
      BY <1>0, <1>10, <2>4, <3>2, <3>3 DEF LookUp, Goes
  <2>. QED
    BY <1>0, <1>10, <2>3, <2>4 DEF LookUp, Goes
<1>11. CASE LookDown(t)
  <2>1. my[t].cache = SlotOf(t) /\ my[t].last \in Found /\ tls[t] # 0 /\ my[t].temp = NoSpace
    BY <1>11 DEF LookDown, Goes, IInv, WhenAt, Knowing
  <2>2. my[t].n \in 0..my[t].last /\ my[t].end \in Indices \ {0} /\ my[t].end - 1 \in Found
    BY <1>11 DEF LookDown, Goes, IInv, WhenAt
  <2>3. CASE at'[t] = "use" /\ Remembers(t, my[t].n)
    BY <1>11, <2>1, <2>3, RememberedThere DEF LookDown, Goes, Knowing
  <2>4. CASE at'[t] # "use" /\ UNCHANGED tls
    <3>1. SlotOf(t)' = SlotOf(t)
      BY <1>0, <1>11, <2>4 DEF LookDown, Goes, SlotOf, HasCache, MySlot
    <3>2. CASE at'[t] \in {"create", "wait"} /\ UNCHANGED my
      BY <2>1, <2>2, <2>4, <3>1, <3>2, FoundIsKept DEF WhenAt, Knowing
    <3>3. CASE at'[t] = "down" /\ my[t].n < my[t].last /\ my' = [my EXCEPT ![t].n = my[t].n + 1]
      <4>1. /\ my'[t].n = my[t].n + 1 /\ my'[t].end = my[t].end /\ my'[t].temp = NoSpace
            /\ my'[t].cache = my[t].cache /\ my'[t].last = my[t].last
        BY <1>0, <2>1, <3>3 DEF LocalTypes
      <4>2. my[t].n + 1 \in 0..my[t].last
        BY <2>1, <2>2, <3>3, FoundTyped, NedpoolAssumption
      <4>. QED
        BY <2>1, <2>2, <2>4, <3>1, <3>3, <4>1, <4>2, FoundIsKept DEF WhenAt, Knowing
    <3>. QED
      BY <1>0, <1>11, <2>4, <3>2, <3>3 DEF LookDown, Goes
  <2>. QED
    BY <1>0, <1>11, <2>3, <2>4 DEF LookDown, Goes
<1>12. CASE Create(t)
  <2>1. my[t].cache = SlotOf(t) /\ my[t].last \in Found /\ tls[t] # 0 /\ my[t].temp = NoSpace
    BY <1>12 DEF Create, Goes, IInv, WhenAt, Knowing
  <2>2. SlotOf(t)' = SlotOf(t) /\ UNCHANGED tls /\ my[t].end \in Indices \ {0} /\ my[t].end - 1 \in Found
    BY <1>0, <1>12 DEF Create, Goes, IInv, WhenAt, SlotOf, HasCache, MySlot
  <2>3. CASE at'[t] = "wait" /\ UNCHANGED my
    BY <2>1, <2>2, <2>3, FoundIsKept DEF WhenAt, Knowing
  <2>4. ASSUME NEW s \in Spaces \ made, at'[t] = "insert", my' = [my EXCEPT ![t].temp = s]
        PROVE  WhenAt(t)'
    <3>1. /\ my'[t].end = my[t].end /\ my'[t].temp # NoSpace
          /\ my'[t].cache = my[t].cache /\ my'[t].last = my[t].last
      BY <1>0, <2>4, NedpoolAssumption DEF LocalTypes
    <3>. QED
      BY <2>1, <2>2, <2>4, <3>1, FoundIsKept DEF WhenAt, Knowing
  <2>. QED
    BY <1>0, <1>12, <2>3, <2>4 DEF Create, Goes
<1>13. CASE Insert(t)
  <2>1. my[t].cache = SlotOf(t) /\ my[t].last \in Found /\ tls[t] # 0 /\ my[t].temp # NoSpace
    BY <1>13 DEF Insert, Goes, IInv, WhenAt, Knowing
  <2>2. SlotOf(t)' = SlotOf(t) /\ UNCHANGED tls
    BY <1>0, <1>13 DEF Insert, Goes, SlotOf, HasCache, MySlot
  <2>3. CASE at'[t] = "wait" /\ my' = [my EXCEPT ![t].temp = NoSpace]
    <3>1. my'[t].cache = my[t].cache /\ my'[t].last = my[t].last /\ my'[t].temp = NoSpace
      BY <1>0, <2>3 DEF LocalTypes
    <3>. QED
      BY <2>1, <2>2, <2>3, <3>1, FoundIsKept DEF WhenAt, Knowing
  <2>4. ASSUME NEW end \in EndNow(t), at'[t] = "locknew", m' = [m EXCEPT ![end] = my[t].temp],
               my' = [my EXCEPT ![t].temp = NoSpace, ![t].n = end]
        PROVE  WhenAt(t)'
    <3>1. my'[t].cache = my[t].cache /\ my'[t].last = my[t].last /\ my'[t].temp = NoSpace /\ my'[t].n = end
      BY <1>0, <2>4 DEF LocalTypes
    <3>2. end \in Indices
      BY <1>13, NedpoolAssumption DEF Insert, Goes, IInv, WhenAt, EndNow, Indices
    <3>3. m'[end] # NoSpace
      BY <2>1, <2>4, <3>2 DEF IInv, TypeOK
    <3>4. ListInv'
      BY <1>13, ListStep DEF Next, Step
    <3>5. end \in Found'
      BY <3>2, <3>3, <3>4 DEF ListInv
    <3>. QED
      BY <2>1, <2>2, <2>4, <3>1, <3>5, FoundIsKept DEF WhenAt, Knowing
  <2>. QED
    BY <1>0, <1>13, <2>3, <2>4 DEF Insert, Goes
<1>14. CASE LockNew(t)
  <2>1. my[t].cache = SlotOf(t) /\ my[t].last \in Found /\ tls[t] # 0 /\ my[t].temp = NoSpace
    BY <1>14 DEF LockNew, Goes, IInv, WhenAt, Knowing
  <2>2. at'[t] = "use" /\ Remembers(t, my[t].n)
    BY <1>0, <1>14 DEF LockNew, Goes
  <2>. QED
    BY <1>14, <2>1, <2>2, RememberedThere DEF LockNew, Goes, Knowing
<1>15. CASE Wait(t)
  <2>1. my[t].cache = SlotOf(t) /\ my[t].last \in Found /\ tls[t] # 0 /\ my[t].temp = NoSpace
    BY <1>15 DEF Wait, Goes, IInv, WhenAt, Knowing
  <2>2. SlotOf(t)' = SlotOf(t) /\ UNCHANGED <<tls, my>> /\ at'[t] = "use"
    BY <1>0, <1>15 DEF Wait, Goes, SlotOf, HasCache, MySlot
  <2>. QED
    BY <2>1, <2>2, FoundIsKept DEF WhenAt, Knowing
<1>16. CASE Use(t)
  BY <1>0, <1>16 DEF Use, Goes, Done, IInv, WhenAt, Knowing, Locals
<1>17. CASE neddisablethreadcache(t)
  <2>1. my[t] = Locals
    BY <1>17 DEF neddisablethreadcache, Goes, IInv, WhenAt
  <2>2. CASE at'[t] = "idle" /\ UNCHANGED my
    BY <2>1, <2>2 DEF WhenAt, Knowing, Locals
  <2>3. CASE /\ at'[t] = "drop" /\ HasCache(t) /\ my' = [my EXCEPT ![t].cache = MySlot(t)]
             /\ tls' = [tls EXCEPT ![t] = -caches[MySlot(t)].mymspace]
    <3>1. my'[t].cache = MySlot(t) /\ my'[t].temp = NoSpace
      BY <1>0, <2>1, <2>3 DEF Locals, LocalTypes
    <3>2. MySlot(t) \in Slots /\ SlotOf(t) = MySlot(t) /\ MySlot(t) # NoSlot
      BY <1>17, <2>3, MineTyped, NedpoolAssumption DEF neddisablethreadcache, Goes, SlotOf, Slots, NoSlot
    <3>3. caches[MySlot(t)].mymspace \in Found
      BY <3>2, NedpoolAssumption DEF IInv, ValueInv
    <3>4. tls'[t] <= 0
      BY <1>0, <2>3, <3>3, FoundTyped, NedpoolAssumption
    <3>. QED
      BY <2>3, <3>1, <3>2, <3>4 DEF WhenAt, Knowing
  <2>. QED
    BY <1>0, <1>17, <2>2, <2>3 DEF neddisablethreadcache, Goes
<1>18. CASE DropCache(t)
  BY <1>0, <1>18 DEF DropCache, Goes, Done, IInv, WhenAt, Knowing, Locals
<1>19. CASE Reborn(t)
  BY <1>0, <1>19 DEF Reborn, Goes, Done, IInv, WhenAt, Knowing, Locals
<1>. QED
  BY <1>1, <1>2, <1>3, <1>4, <1>5, <1>6, <1>7, <1>8, <1>9, <1>10,
     <1>11, <1>12, <1>13, <1>14, <1>15, <1>16, <1>17, <1>18, <1>19 DEF By, Step

LEMMA WhenStep ==
  ASSUME IInv, [Next]_vars, NEW u \in Threads
  PROVE  WhenAt(u)'
<1>1. CASE \E t \in Threads : By(t)
  BY <1>1, WhenOwn, WhenOthers
<1>2. CASE neddestroypool
  <2>1. at'[u] = "idle" /\ at[u] = "idle" /\ my' = my
    BY <1>2 DEF neddestroypool
  <2>2. my'[u] = Locals
    BY <2>1 DEF IInv, WhenAt
  <2>. QED
    BY <2>1, <2>2 DEF WhenAt, Knowing, Locals
<1>3. CASE UNCHANGED vars
  BY <1>3 DEF vars, IInv, WhenAt, SlotOf, HasCache, MySlot, Found
<1>. QED
  BY <1>1, <1>2, <1>3 DEF Next, By

-----------------------------------------------------------------------------
(* The theorems. *)

LEMMA InitInv == Init => IInv
<1>. SUFFICES ASSUME Init PROVE IInv
  OBVIOUS
<1>. USE NedpoolAssumption
<1>1. TypeOK
  <2>1. my \in [Threads -> LocalTypes]
    BY DEF Init, Locals, LocalTypes, Indices
  <2>2. caches \in [Slots -> [threadid : Threads \cup {NoThread}, mymspace : -1..MaxThreadsInPool - 1]]
    BY DEF Init, NoCache
  <2>3. tls \in [Threads -> -MaxThreadsInPool..MaxCaches]
    BY DEF Init
  <2>4. at \in [Threads -> Places]
    BY DEF Init, Places
  <2>. QED
    BY <2>1, <2>2, <2>3, <2>4 DEF Init, TypeOK
<1>2. ListInv
  BY DEF Init, ListInv, InPool, Temps, Locals
<1>3. UnusedInv
  BY DEF Init, UnusedInv
<1>4. ValueInv
  BY DEF Init, ValueInv, SlotOf, HasCache, NoCache, Locals
<1>5. LockInv
  BY DEF Init, LockInv
<1>6. \A t \in Threads : WhenAt(t)
  BY DEF Init, WhenAt, Knowing, Locals
<1>. QED
  BY <1>1, <1>2, <1>3, <1>4, <1>5, <1>6 DEF IInv

\* IInv holds in every state of every execution (GetThreadCache, GetMSpace, FindMSpace,
\* InitPool, neddestroypool).
THEOREM Invariance == Spec => []IInv
<1>1. IInv /\ [Next]_vars => IInv'
  BY TypeStep, ListStep, UnusedStep, ValueStep, LockStep, WhenStep DEF IInv
<1>. QED
  BY InitInv, <1>1, PTL DEF Spec

\* FindMSpace loses no mspace, makes no gap and no more than it may, however many threads
\* make one at once; neddestroypool finds them all.
THEOREM NoneLost == Spec => []SpacesAccounted
<1>1. IInv => SpacesKept
  BY NedpoolAssumption DEF IInv, TypeOK, ListInv, SpacesKept, Found
<1>2. IInv => DestroyEmpties
  <2>. SUFFICES ASSUME IInv, \A t \in Threads : at[t] = "idle" PROVE LeftAfterDestroy = {}
    BY DEF DestroyEmpties
  <2>1. Temps = {}
    BY DEF IInv, WhenAt, Temps
  <2>2. InPool \subseteq {m[k] : k \in Found}
    BY FoundTyped DEF InPool
  <2>. QED
    BY <2>1, <2>2 DEF LeftAfterDestroy, IInv, ListInv
<1>. QED
  BY <1>1, <1>2, Invariance, PTL DEF IInv, SpacesAccounted

\* The assertion on the owner of a cache and the one on the mspace hold, for any number
\* of threads, mspaces and caches.
THEOREM ValuesGood == Spec => []ThreadValueHolds
<1>1. IInv => OwnCache
  <2>. SUFFICES ASSUME IInv PROVE OwnCache
    OBVIOUS
  <2>1. \A t \in Threads : HasCache(t) => SlotOf(t) = MySlot(t) /\ SlotOf(t) # NoSlot
    BY NedpoolAssumption DEF IInv, TypeOK, WhenAt, SlotOf, HasCache, MySlot, NoSlot
  <2>2. \A t \in Threads : HasCache(t) => caches[MySlot(t)].threadid = t
    BY <2>1 DEF IInv, ValueInv
  <2>3. \A t, u \in Threads : HasCache(t) /\ tls[t] = tls[u] => HasCache(u) /\ MySlot(t) = MySlot(u)
    BY DEF HasCache, MySlot
  <2>. QED
    BY <2>2, <2>3 DEF OwnCache
<1>2. IInv => LastUsedExists
  <2>. SUFFICES ASSUME IInv, NEW t \in Threads
                PROVE  /\ threads # 0 /\ tls[t] # 0 => MyMspace(t) \in Found
                       /\ at[t] \in Knowing => m[my[t].last] # NoSpace
    BY DEF LastUsedExists, Knowing
  <2>1. at[t] \in Knowing => my[t].last \in Found
    BY DEF IInv, WhenAt
  <2>. QED
    BY <2>1, MineTyped, FoundTyped, NedpoolAssumption
<1>. QED
  BY <1>1, <1>2, Invariance, PTL DEF ThreadValueHolds

\* GETMSPACE acts on an mspace only with its lock, even on one it has just put into
\* the list where others can take it first.
THEOREM UsedWithLock == Spec => []InUseLocked
<1>1. IInv => InUseLocked
  BY DEF IInv, LockInv, InUseLocked
<1>. QED
  BY <1>1, Invariance, PTL

\* The locks of a pool cannot lead to a circle: who has the lock of an mspace waits for
\* nobody, and who has p->mutex waits for such a one only.
THEOREM NoCircle == Spec => []NobodyStuck
<1>1. IInv => NobodyStuck
  <2>. SUFFICES ASSUME IInv, NEW S \in SUBSET Threads, NEW t \in S, at[t] # "idle",
                       \A u \in S : at[u] # "idle" => Owners(u) \cap S # {}
                PROVE  FALSE
    BY DEF NobodyStuck
  <2>1. \A u \in Threads : \A v \in Owners(u) :
          at[v] = "use" \/ (v = mutex /\ at[u] \in {"alloc", "insert"})
    <3>. SUFFICES ASSUME NEW u \in Threads, NEW v \in Owners(u), ~(v = mutex /\ at[u] \in {"alloc", "insert"})
                  PROVE  at[v] = "use"
      OBVIOUS
    <3>1. v # NoThread
      BY DEF Owners
    <3>2. \E s \in Spaces : v = lock[s]
      <4>1. CASE at[u] \in {"alloc", "insert"}
        BY <4>1 DEF Owners
      <4>2. CASE at[u] = "fill" /\ ~Exhausted(my[u].n)
        <5>1. threads # 0
          BY <4>2 DEF IInv, UnusedInv
        <5>2. m[0] \in Spaces
          BY <5>1, FoundTyped
        <5>. QED
          BY <4>2, <5>2 DEF Owners
      <4>3. CASE at[u] \in {"walk", "locknew"} /\ m[my[u].n] # NoSpace
        <5>1. my[u].n \in Indices
          BY <4>3 DEF IInv, WhenAt, Found
        <5>2. m[my[u].n] \in Spaces
          BY <4>3, <5>1 DEF IInv, TypeOK
        <5>. QED
          BY <4>3, <5>2 DEF Owners
      <4>4. CASE at[u] = "wait"
        <5>1. m[my[u].last] \in Spaces
          BY <4>4, FoundTyped DEF IInv, WhenAt, Knowing
        <5>. QED
          BY <4>4, <5>1 DEF Owners
      <4>5. CASE at[u] \in {"free", "drop"} /\ ~SomeFree
        <5>1. InPool \subseteq Spaces
          BY DEF IInv, TypeOK, InPool
        <5>. QED
          BY <4>5, <5>1 DEF Owners
      <4>. QED
        BY <4>1, <4>2, <4>3, <4>4, <4>5 DEF Owners
    <3>. QED
      BY <3>1, <3>2 DEF IInv, LockInv
  <2>2. \A u \in Threads : at[u] = "use" => Owners(u) = {}
    BY DEF Owners
  <2>3. PICK u \in Owners(t) \cap S : TRUE
    OBVIOUS
  <2>4. u = mutex /\ at[t] \in {"alloc", "insert"}
    BY <2>1, <2>2, <2>3
  <2>5. at[u] \in {"fill", "locknew"}
    BY <2>3, <2>4 DEF IInv, LockInv
  <2>6. PICK v \in Owners(u) \cap S : TRUE
    BY <2>3, <2>5
  <2>. QED
    BY <2>1, <2>2, <2>5, <2>6
<1>. QED
  BY <1>1, Invariance, PTL

=============================================================================
