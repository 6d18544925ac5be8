----------------------------- MODULE ThreadCache -----------------------------
(***************************************************************************)
(* The thread caches of nedmalloc.c: freed blocks that a thread keeps in   *)
(* bins by size and hands out again without asking an mspace.  A cache is  *)
(* used by its own thread only, so a call is one step; how threads get     *)
(* caches and mspaces is in Nedpool.  An mspace is here just blocks of     *)
(* some usable size, and gives any that fits.  Not lastUsed is kept with   *)
(* an entry but its age, frees - lastUsed, counted no further than the     *)
(* largest age anyone compares it with.                                    *)
(***************************************************************************)
EXTENDS Integers, SequencesExt, FiniteSets

CONSTANTS
  Threads,
  Blocks, Usable,  \* what nedblksize says of each
  CacheMaxBins,    \* THREADCACHEMAXBINS
  MaxFreeSpace,    \* THREADCACHEMAXFREESPACE
  WordBits,        \* of a size_t
  Requests,        \* sizes that are asked for
  Counts           \* and numbers of elements

ChunkOverhead == 16
BlkSize == 24                     \* sizeof(threadcacheblk)
CacheMax == 2^(CacheMaxBins + 4)  \* THREADCACHEMAX

ASSUME ThreadCacheAssumption ==
  /\ CacheMaxBins \in 1..WordBits /\ WordBits \in Nat
  /\ MaxFreeSpace \in Nat /\ MaxFreeSpace > CacheMax
  /\ IsFiniteSet(Blocks) /\ Usable \in [Blocks -> Nat]
  /\ Requests \subseteq Nat \ {0} /\ Counts \subseteq Nat \ {0}

\* What a prover has to be told of ^; TLC can compute it.
ASSUME PowersOfTwo ==
  /\ 2^4 = 16
  /\ \A k \in 0..WordBits + 4 : 2^k \in Nat \ {0} /\ 2^(k + 1) = 2 * 2^k

VARIABLES
  held,      \* the blocks the program has, and the size it asked for
  caches,    \* thread -> its cache, or NoCache
  asserted,  \* no assertion has failed
  intact     \* no copy went beyond a block or left out what belongs to it

vars == <<held, caches, asserted, intact>>

Bins == 0..CacheMaxBins
NoCache == [freeInCache |-> -1]
NewCache == [freeInCache |-> 0, bins |-> [k \in Bins |-> <<>>]]

EntriesIn(bins) == UNION {ToSet(bins[k]) : k \in Bins}
Entries(c) == EntriesIn(c.bins)

\* The sizes of entries, added: the number of all their bytes
SizeOf(entries) == Cardinality(UNION {{e.blk} \X (1..e.size) : e \in entries})

Caches == {t \in Threads : caches[t] # NoCache}
Cached == UNION {{e.blk : e \in Entries(caches[t])} : t \in Caches}
Held == DOMAIN held
Fresh == Blocks \ (Held \cup Cached)

-----------------------------------------------------------------------------
(* The bins.  An entry is in front of those that were freed before it. *)

\* The position of the top bit of size >> 4
size2binidx(size) == CHOOSE k \in 0..WordBits : 2^(k + 4) <= size /\ size < 2^(k + 5)

\* The bin whose blocks all have the size, and the size then asked for
BestBin(size) ==
  LET idx == size2binidx(size) IN IF size > 2^(idx + 4) THEN idx + 1 ELSE idx
BestSize(size) == 2^(BestBin(size) + 4)

\* The ages ReleaseFreeInCache tries: THREADCACHEMAXFREESPACE/8192, halved while not 0
StartAge == MaxFreeSpace \div CacheMax
Ages == {age \in 1..StartAge : \E k \in 0..WordBits : age = StartAge \div 2^k}

Older(bin) == [i \in DOMAIN bin |-> [bin[i] EXCEPT !.age = Min({@ + 1, StartAge})]]

\* How many entries of a bin stay when those of an age go, oldest first
Young(bin, age) == Max({0} \cup {i \in DOMAIN bin : bin[i].age < age})

RemoveCacheEntries(c, age) ==
  LET left == [k \in Bins |-> SubSeq(c.bins[k], 1, Young(c.bins[k], age))]
      gone == Entries(c) \ EntriesIn(left)
  IN  IF c.freeInCache = 0 THEN c
        ELSE [freeInCache |-> c.freeInCache - SizeOf(gone), bins |-> left]

\* Mutated: what is too much is not looked at again after a first round.
ReleaseFreeInCache_Once(c) ==
  IF c.freeInCache >= MaxFreeSpace THEN RemoveCacheEntries(c, StartAge) ELSE c

\* A round removes all that the rounds before it did, so what stays is what the last
\* round leaves: that of the first age that is enough, or of 1.
ReleaseFreeInCache(c) ==
  LET enough == {age \in Ages : RemoveCacheEntries(c, age).freeInCache < MaxFreeSpace}
  IN  IF c.freeInCache >= MaxFreeSpace THEN RemoveCacheEntries(c, Max(enough \cup {1})) ELSE c

\* Where threadcache_malloc finds a block for a request
FoundIn(c, size) ==
  LET idx == BestBin(size)
      short == c.bins[idx] = <<>> \/ Head(c.bins[idx]).size < BestSize(size)
  IN  IF short /\ idx < CacheMaxBins THEN idx + 1 ELSE idx

Serves(t, size) ==
  caches[t] # NoCache /\ size <= CacheMax /\ caches[t].bins[FoundIn(caches[t], size)] # <<>>
Served(c, size) == Head(c.bins[FoundIn(c, size)])

\* threadcache_malloc: the cache without the block
AfterMalloc(c, size) ==
  [c EXCEPT !.bins[FoundIn(c, size)] = Tail(@), !.freeInCache = @ - Served(c, size).size]

\* "dlmalloc can round up, so we round down to preserve indexing"
FreeBin(memsize) == size2binidx(memsize)

\* Mutated: the block that was freed last is put behind the others.
PutIn_Behind(bin, e) == Append(bin, e)

PutIn(bin, e) == <<e>> \o bin

\* threadcache_free
AfterFree(c, b) ==
  LET idx == FreeBin(Usable[b])
      e == [blk |-> b, size |-> 2^(idx + 4), age |-> 0]
      older == [k \in Bins |-> Older(c.bins[k])]
  IN  ReleaseFreeInCache([freeInCache |-> c.freeInCache + e.size,
                          bins |-> [older EXCEPT ![idx] = PutIn(@, e)]])

-----------------------------------------------------------------------------
(* The assertions on the way *)

Fits(b) == Usable[b] \in BlkSize..CacheMax + ChunkOverhead

MallocAsserts(c, size) ==
  /\ BestSize(size) >= size /\ BestSize(size) <= CacheMax /\ BestBin(size) \in Bins
  /\ LET e == Served(c, size)
     IN  /\ Usable[e.blk] >= e.size /\ e.size >= BestSize(size) /\ Fits(e.blk)
         /\ c.freeInCache >= e.size

RemoveAsserts(c) ==
  c.freeInCache >= 0 /\ \A e \in Entries(c) : e.size # 0 /\ e.size <= Usable[e.blk]

FreeAsserts(c, b) ==
  LET idx == FreeBin(Usable[b])
  IN  /\ Fits(b) /\ idx \in Bins
      /\ c.bins[idx] # <<>> => Head(c.bins[idx]).size = 2^(idx + 4) /\ Head(c.bins[idx]).blk # b
      /\ RemoveAsserts(AfterFree(c, b))

-----------------------------------------------------------------------------
(* The calls. *)

\* Mutated: only room for the first half of a threadcacheblk is made.
AtLeast_Half(size) == Max({size, 16})

\* GetThreadCache: *size<sizeof(threadcacheblk)
AtLeast(size) == Max({size, BlkSize})

With(f, b, size) == [c \in DOMAIN f \cup {b} |-> IF c = b THEN size ELSE f[c]]
Gives(b, size) == held' = With(held, b, size)
Takes(b) == [c \in Held \ {b} |-> held[c]]

\* A thread without a cache asks for the size itself, one with a cache for what
\* threadcache_malloc made of it.
AsksFor(t, size) ==
  IF caches[t] # NoCache /\ size <= CacheMax THEN BestSize(size) ELSE size

\* An allocation for a thread: served by its cache, or by an mspace, or failed
Allocate(t, size, asked, writes) ==
  \/ /\ Serves(t, size)
     /\ LET b == Served(caches[t], size).blk
        IN  Gives(b, asked) /\ intact' = (intact /\ writes <= Usable[b])
     /\ asserted' = (asserted /\ MallocAsserts(caches[t], size))
     /\ caches' = [caches EXCEPT ![t] = AfterMalloc(@, size)]
  \/ /\ ~Serves(t, size)
     /\ \E b \in Fresh : Usable[b] >= AsksFor(t, size) /\ Gives(b, asked)
     /\ UNCHANGED <<caches, asserted, intact>>
  \/ ~Serves(t, size) /\ UNCHANGED vars

nedpmalloc(t, size) == Allocate(t, AtLeast(size), size, 0)

\* The product wraps around; the size that is cleared is the one of the bin.
nedpcalloc(t, no, size) ==
  LET rsize == AtLeast((no * size) % 2^WordBits)
  IN  Allocate(t, rsize, no * size, AsksFor(t, rsize))

\* nedpmemalign and the independent_ calls go to the mspace.
nedpmemalign(t, size) ==
  /\ \E b \in Fresh : Usable[b] >= AtLeast(size) /\ Gives(b, size)
  /\ UNCHANGED <<caches, asserted, intact>>

\* Mutated: what is copied is the size of the new block.
CopySize_New(memsize, size) == size

\* memcpy(ret, mem, memsize<size ? memsize : size)
CopySize(memsize, size) == Min({memsize, size})

\* What was in use of the old block and has room in the new one is copied, no more
\* than the one has and the other holds.
Copies(n, from, to, asked) ==
  /\ n <= Usable[from] /\ n <= Usable[to] /\ n >= Min({held[from], asked})

\* A block from the cache takes over, and the old one goes into the cache or back to
\* its mspace; or it is all left to the mspace.
nedprealloc(t, mem, req) ==
  LET size == AtLeast(req)
      memsize == Usable[mem]
  IN  \/ /\ Serves(t, size)
         /\ LET b == Served(caches[t], size).blk
                c == AfterMalloc(caches[t], size)
                cached == memsize <= CacheMax
            IN  /\ held' = With(Takes(mem), b, req)
                /\ intact' = (intact /\ Copies(CopySize(memsize, BestSize(size)), mem, b, req))
                /\ caches' = [caches EXCEPT ![t] = IF cached THEN AfterFree(c, mem) ELSE c]
                /\ asserted' = (/\ asserted /\ MallocAsserts(caches[t], size)
                                /\ cached => FreeAsserts(c, mem))
      \/ /\ ~Serves(t, size)
         /\ \E b \in Fresh \cup {mem} :
              Usable[b] >= AsksFor(t, size) /\ held' = With(Takes(mem), b, req)
         /\ UNCHANGED <<caches, asserted, intact>>
      \/ ~Serves(t, size) /\ UNCHANGED vars

Cacheable(b) == Usable[b] <= CacheMax + ChunkOverhead

nedpfree(t, mem) ==
  /\ held' = Takes(mem)
  /\ IF caches[t] # NoCache /\ Cacheable(mem)
       THEN /\ caches' = [caches EXCEPT ![t] = AfterFree(@, mem)]
            /\ asserted' = (asserted /\ FreeAsserts(caches[t], mem))
       ELSE UNCHANGED <<caches, asserted>>
  /\ UNCHANGED intact

AllocCache(t) ==
  /\ caches[t] = NoCache /\ caches' = [caches EXCEPT ![t] = NewCache]
  /\ UNCHANGED <<held, asserted, intact>>

\* neddisablethreadcache and DestroyCaches: all entries go.
DropCache(t) ==
  /\ caches[t] # NoCache /\ caches' = [caches EXCEPT ![t] = NoCache]
  /\ asserted' = (/\ asserted /\ RemoveAsserts(caches[t])
                  /\ RemoveCacheEntries(caches[t], 0).freeInCache = 0)
  /\ UNCHANGED <<held, intact>>

Init ==
  /\ held = <<>> /\ caches = [t \in Threads |-> NoCache]
  /\ asserted = TRUE /\ intact = TRUE

Next == \E t \in Threads :
  \/ AllocCache(t) \/ DropCache(t)
  \/ \E size \in Requests :
       \/ nedpmalloc(t, size) \/ nedpmemalign(t, size)
       \/ \E no \in Counts : nedpcalloc(t, no, size)
       \/ \E mem \in Held : nedprealloc(t, mem, size)
  \/ \E mem \in Held : nedpfree(t, mem)

Spec == Init /\ [][Next]_vars

\* The callers this was written for: nedpcalloc does not look whether a product wraps.
ProductsFit == \A no \in Counts, size \in Requests : no * size < 2^WordBits

-----------------------------------------------------------------------------
(* Properties. *)

TypeOK ==
  /\ Held \subseteq Blocks /\ \A b \in Held : held[b] \in Nat
  /\ {asserted, intact} \subseteq BOOLEAN
  /\ \A t \in Caches :
       /\ caches[t].freeInCache \in Nat /\ DOMAIN caches[t].bins = Bins
       /\ Entries(caches[t]) \subseteq
            [blk : Blocks, size : {2^(k + 4) : k \in Bins}, age : 0..StartAge]

Bin(t, k) == caches[t].bins[k]

\* A block is in the hands of the program, or once in one bin of one cache, or in its
\* mspace: whoever gets it is the only one who has it.
OnePlace ==
  /\ Held \cap Cached = {}
  /\ \A t, u \in Caches, k, l \in Bins : \A i \in DOMAIN Bin(t, k), j \in DOMAIN Bin(u, l) :
       Bin(t, k)[i].blk = Bin(u, l)[j].blk => t = u /\ k = l /\ i = j

\* freeInCache is what is in the bins; it decides when entries are released.
FreeInCacheExact == \A t \in Caches : caches[t].freeInCache = SizeOf(Entries(caches[t]))

\* A bin has blocks of its size or more, the newest in front: a request is served
\* from the front, and releasing the oldest stops at the first that is young.
BinsInOrder == \A t \in Caches, k \in Bins : \A i, j \in DOMAIN Bin(t, k) :
  /\ Bin(t, k)[i].size = 2^(k + 4) /\ Bin(t, k)[i].size <= Usable[Bin(t, k)[i].blk]
  /\ i < j => Bin(t, k)[i].age <= Bin(t, k)[j].age

\* Whatever cache or mspace a block came from, it has the bytes that were asked for.
AskedFits == \A b \in Held : Usable[b] >= held[b]

\* Garbage is collected in time: no call leaves as much in a cache as is too much.
CacheBounded == \A t \in Caches : caches[t].freeInCache < MaxFreeSpace

\* The assertions of threadcache_malloc, threadcache_free, RemoveCacheEntries and
\* neddisablethreadcache.
AssertionsHold == asserted

\* nedprealloc and nedpcalloc write no further than a block goes, and the program
\* keeps all its data.
DataKept == intact

\* Of two blocks in a cache the one freed earlier is not kept when the other is
\* given back to its mspace.
OldestGoFirst ==
  [][\A t \in Caches :
       caches'[t] # NoCache =>
         LET left == Entries(caches'[t])
             gone == {e \in Entries(caches[t]) :
                        e.blk \notin {f.blk : f \in left} \cup DOMAIN held'}
         IN  \A e \in gone, f \in left : f.age <= Min({e.age + 1, StartAge})]_vars

\* Between two calls a cache is what its searches and its garbage collection rely on.
CachesSound == TypeOK /\ OnePlace /\ FreeInCacheExact /\ BinsInOrder /\ CacheBounded

\* A block serves whoever has it: it is long enough, and its data survive.
BlocksServe == AskedFits /\ DataKept
=============================================================================
