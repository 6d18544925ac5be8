# A verification project for fping

fping asks many hosts at once whether they are alive: it reads a list of IPv4
addresses, sends every host `-c` ICMP echo requests, collects the answers for
`-w` seconds after the last request, and prints one line per host with the
average round trip in microseconds, or -1. Its memory comes from nedmalloc, a
pool allocator over dlmalloc that it carries along. This directory holds TLA+
models of the program and of its allocator, the TLC runs that check them, and
TLAPS proofs about the threads and their report, the options, the input and the
checksum, the table and its red-black tree, the pool that threads share and their
caches, the chunks that are mapped one by one, the arithmetic of sizes, bins and
bit maps, and the lock everything is built on.

## Inventory

| part (source) | state | operations | talks to |
|---|---|---|---|
| main thread (`main.c`) | exit code | start, error exits (`goto quit`), waiting, report, end | all others |
| command line (`main.c: args_init`) | the option variables, the log level | parse, default, refuse | - |
| send thread (`send.c`) | round, position in the table, socket | `send_init`, `send_loop`, `send_wait` (join) | walks the table, writes `tv_sent`, `icmp_send` |
| receive thread (`recv.c`) | the packet in hand, socket | `recv_init`, `recv_loop`, `recv_wait` (sleep, cancel, **no join**) | looks up the table, writes `tv_recv` |
| ICMP layer (`icmp.c`) | a static receive buffer | open, send, receive, close | raw sockets, `checksum` |
| results (`result.c`) | the pool; per host an address and `results[MAX_COUNT]` | `result_new`, `calc_time`, `result_output`, `result_free` | input file, table, pool |
| table (`table.c`) | root, a lock nobody takes | init, add, del, get, for_each | red-black tree |
| red-black tree (`ks_rbtree.c`) | links, parents, colours | insert, erase, replace, first/last, next/prev, augment | - |
| pool (`nedmalloc.c`) | a list of mspaces, thread caches, thread-local values | find or make an mspace, cache handling, malloc, calloc, realloc, memalign, free, walks, destroy | an mspace per thread, its lock |
| dlmalloc (`malloc.c.h`) | segments, chunks, bins and tries of free chunks, mapped chunks | malloc, free, realloc, memalign, independent_*, trim, mallinfo, create, destroy | `mmap`, the spin lock |
| spin lock (`malloc.c.h`) | three words | acquire, try, release, recursive | - |
| log, utilities | level | print; strip, checksum, unused file helpers | environment |
| `ping.h` | a C++ class nothing includes | start | - |

What makes it hard, and what must hold:

* The three threads share the table and the time stamps without a lock. The
  receive thread is cancelled and never joined, so it can still store an answer
  while the report is computed, and can meet a table that is gone. *The send
  thread always sees a live table; the receive thread can hold at most one stray
  packet at that point, and only after the report.*
* A request is stamped after it was sent, so an answer can overtake the stamp.
  *A stored answer belongs to a request; a host is reported dead only for a
  reason that can be named; a host reported alive has answered.*
* Answers are lost, duplicated, late, reordered, or come from elsewhere. *What
  is stored answers what was asked, in its own slot, inside the array.*
* Every call may fail. *Error exits clean up; the program always ends.*
* Timers. *The waiting time counts from the last request, requests keep the
  distance `-s`, rounds do not overlap.*
* Balancing has cases a few inputs never reach, each in two mirrored copies.
  *Order, links, colours, exact lookup and iteration in every reachable tree.*
* The allocator keeps its state in bits and words inside the blocks. *Chunks
  tile the segments, each free one is in exactly one place, the tries find the
  best fit, nothing mapped is lost, blocks are as long as asked, and so is what
  `malloc`, `calloc`, `memalign` and `realloc` ask of each other and of the system.*
* Threads share a pool whose list of mspaces grows while they search it. *No
  mspace is lost or used without its lock, nobody has another's cache, nobody
  waits for ever.*
* Blocks wander between caches and mspaces under rounded sizes. *Every block is
  in one place and serves every request it is given out for.*

`PROJECT.json` lists the hazards one by one, each with its line and properties.

## Modules

### The pinger

**`Icmp`**, **`Results`** define data: packets and which of them `icmp_recv`
takes for ours; time stamps and `calc_time`. A `struct timeval` is one number of
microseconds, `Second` of them to a second, so that a test of `tv_sec` and a
torn read of the two fields mean what they do in C. An `int` wraps at `IntLim`.

**`Fping`** is the program from the open table on. The program counters are
`main`, `spc` and `rpc`; an action is a stretch of one thread between two points
where another thread can make a difference:

| action | code |
|---|---|
| `setup`, `result_new`, `recv_init`, `send_init`, `send_wait`, `recv_wait`, `result_output` (one entry), `result_free`, `return` | the lines of `main` in order, with their failures |
| `icmp_send`, `StampSent` | `send_loop`: usleep and sendto; gettimeofday and the step to the next entry or round |
| `icmp_recv`, `StampRecv`, `table_get`, `memcpy` | `recv_loop` between recvfrom, gettimeofday, the lookup, and the store |
| `RecvDies` | the pending cancellation takes effect (recvfrom, or a log line) |
| `SegmentationFault` | the table or an entry is touched after `neddestroypool` has unmapped it |
| `Tick` | the clock |

The network is not a variable of its own: what can arrive (`Arriving`) follows
from the requests on the wire, as often and in any order, and from the constant
`Foreign`. A torn read of an answer under `memcpy` is the choice in `Views`.
A table entry is its key, the text of the input line. `InetAddr` and `InetNtoa`
are constants, external functions of the C library that need only agree on the
dotted text.

**`Options`**, **`Input`**, **`Checksum`** are what happens before the first
request: `args_init` option by option, `result_new` line by line through the
buffer of `fgets` with `strip`, and the sum `icmp_send` puts into a packet, on a
machine that stores words low byte first. **`Start`** composes them in the order
of `main`. Only what `atoi`, `getopt_long` and `inet_addr` make of a text is
taken as given.

### The table

**`RbTree`** has the operations of the tree as operators on a record (root,
links, parent, colour). The C code writes each step twice, once per side; both
texts were compared and the side is a parameter here. **`Table`** is the state
machine: adding, deleting or replacing an entry is one step, every turn of the
two rebalancing loops is another. **`TableMap`** is the abstract specification,
a set of entries with unique keys; `Table` implements it. `Fping` uses of the
table just what `ReadsExact` establishes.

### dlmalloc

| module | code | state |
|---|---|---|
| `Sizes` | requests, chunk sizes, what is asked of the system; sums wrap at `2^WordBits` | - |
| `Bins` | which bin a size belongs to, and the bits its trie goes by | - |
| `Binmap` | the bit tricks that find the next non-empty bin | - |
| `SizeLaws` | what the arithmetic of `Sizes` is to achieve | - |
| `Arithmetic` | the laws of `Sizes`, `Bins` and `Binmap` | a number and what it stands for |
| `FreeBins` | heads and footers of chunks, small bins, tries: insertion, unlinking, search | - |
| `Mspace` | everything one mspace does in its segments | `m` (the `malloc_state`), `live` (callers' blocks), `call` (a thread between two locked parts) |
| `Heap` | the abstract specification: blocks that do not overlap and stay put | `blocks` |
| `Mmapped` | chunks with a mapping of their own: alignment, `mremap`, `munmap` | `mapped`, `chunks`, `footprint`, `use_mmap`, ... |
| `SpinLock`, `RecursiveLock` | the lock, word by word, and what a recursive lock promises | `l`, `c`, `threadid`, and each thread's place |

In `FreeBins` a heap is a function from addresses to heads, and writing a head
removes the heads inside the chunk: an operation that would read a stale one
stops TLC with an error. One call under the lock of the mspace is one step of
`Mspace`; `realloc`, `memalign` and the `independent_` routines let go of the
lock in between, and continue from `call`. The system hands out any free range
of memory (`Places`) or none, and takes back or refuses each segment by itself
(`Refusals`). `Mspace` implements `Heap`
under a mapping from the chunks in callers' hands to their blocks
(`ImplementsHeap`): no block is moved, cut or given twice by what other calls do.

The words of the spin lock are read and written one at a time, in program
order; the two fences of the code (the exchange and the assembly barrier)
justify that order for the processors it has assembly for.

### nedmalloc

**`Nedpool`** is the pool: a thread's way through `GetThreadCache`,
`GetMSpace` and `FindMSpace`, in steps between the places where it takes or lets
go of a lock, with the slot and mspace numbers kept in one integer of
thread-local storage as the code keeps them. An mspace is a name and the owner
of its lock. Builds with assertions and without are both initial states.
**`ThreadCache`** is what a thread does with its own cache: bins by size, ages,
garbage collection, and the five calls that use it. An mspace there gives any
block that is large enough. How the two relate: `ThreadValueHolds` of `Nedpool`
says that a cache has one thread, which is why a call is one step in
`ThreadCache`; `InUseLocked` says that a thread is alone in its mspace, which is
why `Mspace` is given one thread at a time by nedmalloc, though its runs have two.

`MCFping`, `MCTable`, `MCMspace`, `MCMmapped`, `MCNedpool` and `MCThreadCache`
give constants their values for TLC; `MCTable` and `MCMspace` also restrict
`Next`, see below. The theorems about a module `M` are in `MProofs`: `Fping`,
`Nedpool`, `ThreadCache`, `SpinLock`, `Start` and `Table` have one.
`TableProofs` begins with the lemmas about `RbTree`, `MallocProofs` is about both
`Sizes` and `Mmapped`, and `MspaceProofs` about `Mspace` and its bins
(`Bins`, `Binmap`, and the tries of `FreeBins`).

## Runs

| run | instance | question |
|---|---|---|
| `base` | 2 hosts (one silent), an invalid line, 2 rounds, foreign packets | sending is complete, ordered, paced; answers belong to requests, and a host alive has one |
| `race` | a host answering from two addresses, one in another spelling, duplicates, no timers, a short int | the report against late packets; how far the unjoined thread gets; what can make a host look dead |
| `faults` | 1 host, every call may fail, foreign replies with our id | clean error exits, and what may kill the process (`FailureIsContained`); no store leaves `results[]` while `g_count < MAX_COUNT`; the program ends |
| `badseq`, `bigpid` | one host | violated, see below |
| `start` | command lines of up to 3 options with values at and beyond limits; files of up to 7 characters through a buffer of 4; packets of up to 6 bytes | options are kept or refused, lines taken one by one, the receiver accepts the sum |
| `table` | 7 keys in any order, one of them twice, and 10 keys from one end | the tree's order, links, colours; lookup, iteration, refinement of the map |
| `mspace` | six scenarios of calls (below), and all numbers of a word of 14 bits and a map of 8 | `MallocStateOK`, `MemoryAccounted`, best fit, sizes, bins, refinement of the heap |
| `mapped` | 17 pages, blocks of 1 to 6 pages and a request just refused, alignment 64 | pages and footprint are accounted for, blocks are long enough |
| `spinlock` | 3 threads, depth 2 | the assertions, refinement of the recursive lock, nobody is locked out |
| `pool` | 3 threads, 2 mspaces of 3, 1 cache | mspaces, caches and locks between threads, deadlock |
| `cache` | 2 threads, 6 blocks, from one too small for a request to one too large for a bin, garbage collected at 128 bytes | blocks in one place and large enough; collection; assertions |

The scenarios of `mspace` have limits of their own, so that each can be deep
where its question is:

| scenario | threads | calls beside malloc and free | requests | units | blocks held |
|---|---|---|---|---|---|
| `segments` | 1 | trim, destroy | 88, 150 | 4 | 2 |
| `small` | 1 | realloc | 20, 88, 150 | 2 | 2 |
| `batch` | 1 | independent_* | 20, 40, and the array of 16 bytes | 2 | 3 |
| `threads` | 2 | memalign | 20, aligned to 64 | 2 | 1 |
| `moves` | 2 | realloc | 20, 88 | 2 | 1 |
| `trees` | 1 | - | 88, 130, 150 | memory of the caller | 3 |

A unit is `Granularity` = 256 bytes, enough for the `malloc_state` and two or
three chunks, so that a second allocation asks the system again: four units that
come in any order make the segments meet in front, behind and not at all.
Requests fall into a small bin, the largest small and the first tree bins. In
`trees` seven large chunks of six sizes are given back in every one of their
5040 orders, which builds every shape of trie these sizes have, and are then
taken and given back. `batch` has one thread only: see `ialloc` below. A word of
14 bits and 8 bins per map let every number be tried.

Other bounds. `Slack` says how far the clock may run past the last timer: beyond
it no guard of the model changes its value. `MaxArrivals` bounds the packets
read: two are enough for a duplicate, an answer overtaken by another and a
stray one, one suffices where every property speaks of a single store.
`Second` is 2, so that a time stamp has a seconds and a microseconds part; the
clock starts at one second because a zero `tv_sec` means "no stamp". Seven keys
in any order reach every case of both rebalancing loops on both sides; the loop
of `__rb_erase_color` comes round again through an inner entry only in trees
that need ten keys. In `pool` one cache for three threads makes exhaustion
usual, and a third mspace is one more than the pool takes, so that two threads
that make one at the same time must throw one away. In `cache` the six blocks have 16, 24, 40,
72, 80 and 88 bytes: one for each of the bins, one whose size rounds down to a bin
of smaller ones, one too large for any; together they overflow a cache more than once.

Fairness. In `Fping` each thread is weakly fair, and so is the clock: the system
schedules runnable threads and time passes. `icmp_recv` is not fair, nothing has
to arrive. In `SpinLock` each thread that is inside a call is weakly fair;
taking the lock in the first place, and giving it back, is up to the program.
`NobodyLockedOut` is therefore about waiting while nobody has the lock: the code
does not promise more, an unlucky thread can spin for ever behind others.

## What disagrees with the program's own words

With a run each:

* `badseq`: `recv.c:36` refuses `seq > g_count` where the valid numbers are
  below `g_count`. With `-c 5` a reply numbered 5 is stored behind `results[4]`.
  (The allocator rounds the block up, so nothing else is hit today.)
* `bigpid`: the id is cut to 16 bits when sent and compared with the whole pid
  when received; with a larger pid every host is reported dead.

Met while modelling; the models have the code as it is, and the properties leave
these cases out by a condition or an instance that says so:

* `send.c:30` pauses before a request, the usage text says after.
* `main.c:81`: an unknown option is `'?'`, which the code takes for `-h`: the
  program ends with the status of success and never reaches its message.
* `result.c:42`: a line of more than 63 characters is cut, and what is left is a
  line of its own, possibly with a shorter address.
* `malloc.c.h:2690`: `compute_tree_index` keeps the shifted size in an
  `unsigned int`, so a chunk of 2^40 bytes lands in a bin of small ones
  (`BinsAgree` is checked with `IntBits` = `WordBits`, and proved for the sizes that fit).
* `malloc.c.h:3703`: `mmap_resize` forgets the offset of a chunk that memalign
  moved: what realloc returns is too short by as much (`BlocksFit` speaks of
  chunks at the start of their mapping), and with an alignment larger than the region
  that is left it lies outside; nor does it look for a wrap (`ModestCallers`).
* `result.c:64` to `71`: no allocation of an entry is looked at. The process dies in
  `bzero` or in the `strcmp` of `table_add`, or the only entry stays without a key
  (`nameless`) and the first answer kills it (`CrashHasReason` allows just these).
* `malloc.c.h:4498` to `4508`: the sizes of the elements and of the array are added up
  without looking for a wrap, so that `ialloc` would cut elements out of a chunk that is too
  short. `SizesFit` leaves this sum out, and the requests of the runs are far from it.
* `malloc.c.h:4551` and `4514`: `ialloc` writes a head without looking at a bit
  another thread may have changed, and clears and restores a flag of the mspace
  without the lock. Both need two threads in one mspace, which nedmalloc excludes.
* `nedmalloc.c:759`: a thread without a cache reads a null pointer in an
  assertion (`ReadsNull`); without assertions it goes on as intended.
* `nedmalloc.c:700`: `neddisablethreadcache` stores `-mymspace`, which is
  "never seen" for mspace 0, so the cache comes back with the next call.
* `nedmalloc.c:553`: only the first mspace of a pool knows the pool's value.
* `nedmalloc.c:792`: `nedpcalloc` multiplies without looking for a wrap
  (`BlocksServe` is checked with counts that do not wrap).

## Proofs

**`FpingProofs`** proves, for any number of hosts, rounds and packets, any timers
and any set of failing calls, that `IInv` is an invariant. It is the conjunction
of parts proved one after the other:

* `TypeInv`: the types, and that a thread past a call holds what the call gave it;
* `ThreadInv`: which positions of the threads go together. None of the safety
  properties is inductive without it: that the send thread runs only while main
  is at `send_wait` is what makes the join protect the table;
* `FaultInv`: what each failed call leaves behind, an entry without a key, a thread that
  is not there, an exit code, up to the crash it may cause; it contains `CrashHasReason`,
  which without failing calls excludes every crash but one;
* `OnceInv`: stamped slots belong to earlier rounds or to entries already
  visited in this one, so that no slot is stamped twice;
* `TimeInv`, `PaceInv`: no stamp is in the future, main's timer covers the last
  stamp, the next request waits for the delay after all others;
* `StoredInv`: the packet in hand answers a request on the wire (if no foreign
  packet carries our id) and is stored in a slot of the array, under the
  spelling of `inet_ntoa`.

From it follow `Typed`, `PoolKept`, `FailuresContained`, `InTime`, `Stamped`,
`SpellingMatters`, `NoOverrun` and `StoredAnswersAsked`. They rest on the named
assumptions on the constants in `Icmp`, `Results` and `Fping`, which say what
the options, the input and the C library provide. `TypeOK` says of `report` only
that it has an entry per text: whether the sum inside `calc_time` is a number at
all is settled further down, for `JustDead`.

It goes on from there to what is reported. `AllAsked` rests on
`AskedInv`: the slots `send_loop` is through with are stamped. `AliveAnswered`
rests on `ReportInv`: an entry printed with a time has a slot with both stamps,
or with an answer that the receive thread was just storing; that is inductive
only because no stamp is ever zero (`ClockInv`). `TrueReport` adds `SentInv`,
every request on the wire is that of an entry that has its stamp or is just
getting it, and `EntryInv`, answers are stored for entries only. Its assumptions
are stated in the theorem: no foreign reply carries our id, hosts answer from
the address that was asked, one spelling per address. They hold in the run
`base`; in `race` a host answers from two addresses, in `faults` foreign replies
carry our id, and so these runs ask other questions.

`JustDead` is the other half, that a host printed as dead has a reason. The sum of
the round trips in `calc_time` is a fold over a finite set, so it is a natural
number only because a function on the subsets satisfies the recursion
(`SumExists`) and its values are numbers (`SumIsNumber`), each by the smallest
counterexample. `FloorInv` (no stamp is below one second) shows that a request
without a stamp and one with it differ in what `calc_time` tests, and
`AnswersRequested` that a stored answer has its request's stamp, or is in the hands
of the send thread.

**`StartProofs`** is about what happens before the first request, for any command
line, file and packet.

* Options (`AllOptions`): an invariant that says of every prefix of the line what
  `OptionsTaken` says of the whole (`ValueInv`), and that an option given at all
  has a last occurrence (`LastInv`).
* Input (`AllLines`): `InputInv` says what has been read is a prefix of the file
  (`FileInv`), that reading stops at the end of a line or with a full buffer inside
  one (`CutInv`), which entries that prefix has made (`TakenInv`), and how many
  lines were counted while all fit (`CountInv`). The lemmas below it say where
  `ReadLength` stops and that `strip` finds the first word of a line.
* Checksum (`PacketsAccepted`): for bytes of any width and packets up to any length
  whose words do not fill an `int` (`BytesFit`; in the code 8 bytes). The argument:
  reading a word with its bytes swapped multiplies it by 256 modulo the 65535 of
  the ones' complement ring (`TurnedWord`), so after every word the sender's sum
  and the receiver's agree up to that factor (`Agree`), the checksum included;
  two additions of the halves bring any sum that fits an `int` into 16 bits without
  changing it in the ring (`ComplementOfFolded`); so the total is a multiple of
  65535, and not zero.

**`NedpoolProofs`** proves the four properties of the run `pool` for any number
of threads, mspaces and caches, with assertions compiled in or not. The
inductive invariant has a part for each thing threads share: the list of mspaces
has no gap, holds none twice, and a new mspace that is not in it is in the hands
of one thread (`ListInv`); thread-local values and caches name what exists and
belong to their thread (`ValueInv`); who holds which lock (`LockInv`); and what
a thread at each place knows that others cannot change (`WhenAt`), for instance
that the end of the list it remembers is a part of the list as it is now, which
is why `FindMSpace` must look for the end again under `p->mutex`.

**`SpinLockProofs`** proves, for any set of threads and any depth, that the lock
is what it is used as. The inductive invariant `Inv` has the types, `Exclusive`
(no two threads have the lock, and `l` is 0 exactly when none has it), and for
each place in the code what a thread there may rely on (`WhenAt`): above all that
`threadid = t` is seen only by a thread that has the lock, although the word is
read without it. The assertions of the code (`NoAssertionFails`), the count
(`Counted`) and the types (`Typed`) follow. `Refinement` shows that every step
is a step of `RecursiveLock` or changes neither owner nor depth: the lock is
taken at the exchange of `l`, or deeper at the write of the count, and let go at
the write of the count, or at last when `l` is reset.

**`MallocProofs`** first proves the laws of `SizeLaws` for every width of `size_t`, page
size and granularity: no size that `malloc`, `calloc`, `memalign`, `sys_alloc` and
`mmap_alloc` compute from a request is too small for it, and a sum of theirs that wraps is
refused or noticed (the sum of `ialloc` is not among these laws). Of `2^WordBits` only what
`SizesAssumption` and `SizeLawsAssumption` say is used, which TLC evaluates:
that it is a number and leaves room for a page, a granule and some chunks. The
lemmas about single routines (`ChunkOfRequest`, `RegionOfChunk`, ...) are what the
proofs about mapped chunks rest on.

It then proves both properties of the run `mapped` for any number of
threads, pages and requests. The invariant has `Accounted` (the mapped pages are
those of the chunks and those `munmap` refused to take, no two chunks share one,
and the footprint counts them), `Owned` (every chunk is with one caller or in one
call), `TypeInv` and `Fits` (how long chunks are, and how much room one has that
is about to be aligned). One lemma for each thing that can happen to a mapping
(`AddMapping`, `DropMapping`, `ShiftChunk`) carries `Accounted` through all calls.
Both theorems have the hypothesis `ModestCallers`, which says where the code
relies on its callers: `mmap_resize` shrinks a region without looking whether
an aligned chunk begins inside what is left, so alignments are at most
`MIN_LARGE_SIZE` or divide a page; and, unlike `mmap_alloc`, it does not look
whether the length wrapped around, so requests stay a page below the end of
memory. The instance of the run satisfies it (`MCCallersAreModest`).

**`MspaceProofs`** proves `BinsAgree`, which the run `mspace` checks for every number of its words,
for every width of words and maps (`BinsAlwaysAgree`). Of `2^k` only `2^0 = 1` and
`2^(k+1) = 2 * 2^k` up to the widths is used (`ArithmeticAssumption`, evaluated by
TLC); that powers add and grow (`PowersAdd`, `PowersGrow`) and every word is below
one power and not the next (`HighestPower`) follows.

* The bin of a size: `HighestBitOf` and `Divided` give `compute_tree_index` the range
  of `minsize_for_tree_index` (`IndexOfSize`), and sizes of one range have the same
  bits above the one the trie looks at first (`BinsShareBits`). The hypothesis is that
  the shifted size fits the `unsigned int` it is kept in, see above for what
  happens otherwise.
* The bit maps: a word is known by its bits (`EveryWord`), negation keeps the lowest bit
  and turns all above it (`NegateBits`), so `least_bit` and `left_bits` are
  sets of bits (`LeastBitIs`, `LeftBitsOf`), and both searches find the least
  marked bin that qualifies (`FirstSmallBinHolds`, `NextTreeBinHolds`), also
  where shifts push bits out of the word.

And it proves that in every state in which `do_check_malloc_state` finds nothing wrong
(`MallocStateOK`, itself left to TLC) `tmalloc_large` and `tmalloc_small` find the best fit of
all large chunks (`SearchFindsBest`), with the same hypothesis on sizes. Of that state the proof uses
`TriesSound`, which is said of links and searches instead of subtrees: a search for
the size of a node in its bin comes to the node. Two walks down that meet came
the same way (`WalksMeet`, since a parent is unique), so a node that two searches
pass is as deep in both and their sizes agree in the bits above it (`OnPath`,
`ChildDeeper`). Where the ways of two sizes part, the one that goes left
is smaller (`LeftIsSmaller`, `PartedSizes`), sizes of a later bin are larger
(`LaterIsLarger`), and from there: the leftmost path from a node passes
a smallest node of its subtree (`LeftmostIsSmall`); the search for a large enough node
leaves that for the request where `tmalloc_large` has noted a right
subtree (`PartsAtTurn`), and the deepest of these has the best (`AsideIsEnough`).
The recursive functions behind the walks are only read one step at a time; that they
exist is `WalkExists`.

From this follows that the system is asked last (`SystemIsAskedLast`): in a behaviour
whose states are in order (`MallocStateOK` and `SegmentsHold`, both checked by the run
`mspace`, and the hypothesis on sizes) a step that makes the footprint greater hands out
a chunk longer than every free chunk and than what top could spare, for any number of
threads, any calls and any places the system maps memory at. The argument has three parts.

* The footprint grows in `sys_alloc` only. `free`, `mspace_trim` and the segments
  they release make it smaller or leave it (`FreeShrinks`, `TrimShrinks`,
  `ReleaseUnusedShrinks`), bins and dv leave it alone (`ChunkBinsOnly`,
  `FromDvKeeps`), and a new mspace begins with the least there is.
* When `sys_alloc` is called the bins had nothing, and dv and top were too small. A free
  chunk is dv or in a bin of its size, the maps and searches above find one
  that is large enough if there is any, and bins are in the order of sizes: so no free chunk
  is (`NoChunkFits`).
* The chunk that comes back is at the old top or at the new memory, its head says
  what was asked, padded (`SysAllocGives`, in each of the three ways memory is
  added), and nobody holds it yet (`AskedLast`), as holders' chunks are in use and in
  segments, top is not in use, and the system maps nothing where a segment is.

The states being in order is a hypothesis and not proved, see below.

**`ThreadCacheProofs`** proves the four properties of the run `cache` for any
number of threads, blocks and bins, any sizes and any bound on a cache. The
invariant says that every cache is sound: its counter is the sum of its
blocks, it is below the bound, its bins hold blocks of their sizes in the order of their
ages; that a block is with the program, in one cache, or free in its mspace;
that a block with the program is large enough to go into a cache; and that
`asserted` and `intact` are still true. The lemmas `MallocIsSound`,
`FreeIsSound`, `RemovalIsExact` and `ReleaseIsEnough` say what each routine makes of a
sound cache; `SizeOf` is a set of bytes that is counted, so that its sums follow from
the cardinalities of finite sets. `OldestAlwaysGoFirst` is an action property: within
a call every routine takes from the old end only. The hypothesis `ProductsFit`
says that no product in `nedpcalloc` wraps, since the code does not look.

**`TableProofs`** proves the three invariants of the run `table` and
the refinement of `TableMap`, for any finite set of entries and any keys. The
invariant `TreeInv` says that two functions exist, each a witness with conditions
on a node and its neighbours in place of a recursive definition:

* `S` gives each node the nodes below it. `Shaped`: these are the node and what the
  witness has for its children; what it has on a side is beyond the node's
  key on that side; and a child's parent is the node. This excludes
  circles and a node reached twice, and `SubtreeIs` shows that following the links
  (`Subtree`) arrives at the same set;
* `H` gives each node the black nodes on every way down from it. `Levelled` says so, with one
  less over the link at which `__rb_erase_color` has a black to make good, and
  `Calm` that two reds meet only where the running loop is at work.

`Inserting` and `Erasing` say what holds at the start of a turn of each loop, `Idle`
what holds between operations. For every way through the code there is a lemma that
gives the new witnesses (`InsertRecolors`, `InsertInner`, `InsertOuter`, `EraseSiblings`,
`EraseRecolors`, `EraseNears`, `EraseFars`, `SpliceLeaves`, `UnlinkLeaves`,
`ReplaceKeeps`, ...); they rest on three facts about rotations: `RotateShaped`,
`RotateLevels` and `RotateCalm`. Taking out a node with two children is
proved as two steps, its successor out of its place (`SpliceLeaves`) and into
that of the node (`TakeKeeps`), and `SuccessorTakes` shows that the assignments of
`ks_rb_erase` come to the same.
What the invariant says of the whole tree follows by going down from the root:
`WayDown` (what is met on the way to a node, what is left below it and what is
lacking there add up to the same number everywhere), `NeighbourIs` (`ks_rb_next` skips
no entry) and `VisitCounts` (each step of `table_for_each` leaves one entry
less). The sides are a parameter, so both copies of the C code are covered.

Induction. The library's induction theorems take an operator as a parameter,
which none of the provers can instantiate. Where a proof needs induction over
numbers it uses the least counterexample instead (`LeastNumber`, from the
well-foundedness of `<`), and where a definition is a recursive function it first
shows that some function satisfies the recursion (`RunningSum`, `WalkExists`,
`VisitExists`, `ReleasesExist`, `SumsExist`); for trees the counterexample is one with the smallest, or the
largest, subtree (`SmallestSet`).

Only model-checked:

* liveness (`Termination`, `NobodyLockedOut`), which is out of the prover's reach;
* that the calls of `Mspace` keep its state in order: `MallocStateOK`,
  `MemoryAccounted`, `BlocksLongEnough` and `ImplementsHeap` follow
  chunks that are split, merged and put back through several lists at a time.
  `BestFit` and `SystemAskedLast` are proved of states in order
  (`SearchFindsBest`, `SystemIsAskedLast`, above).

## Not modelled

* `malloc.c.h`: `mspace_mallopt`, the checks compiled only with `DEBUG`, the
  global malloc that `ONLY_MSPACES` leaves out, the Windows and `sbrk` parts.
* `nedmalloc.c`: statistics, `nedpsetvalue`, `nedpstrdup`, the parts under
  `#ifdef` for other systems.
* The augment functions of the tree, the file helpers and `hexdump`,
  `result_dump`: never called. `ping.h`: never included.
* What the log prints; the contents of the stdio buffer, so how much of a report
  a crash after the last line loses.
* A packet shorter than its header says: the kernel delivers none on this socket.
* Weak memory beyond the torn `struct timeval`.

## Plan

1. `Pinger`, an abstract specification of a probe run (asked, answered, judged)
   that `Fping` implements.
2. The composition of `Nedpool` with `ThreadCache`.
3. `Mspace` with two threads in `independent_`, under the condition nedmalloc
   provides.
