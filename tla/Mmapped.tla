------------------------------- MODULE Mmapped -------------------------------
(***************************************************************************)
(* The chunks of an mspace that are mapped from the system one by one      *)
(* (malloc.c.h).  A request of MmapThreshold or more that no free chunk    *)
(* serves may get a mapping of its own; what comes from a segment instead  *)
(* is in the module Mspace and is not seen here.  memalign moves the chunk *)
(* inside its mapping, realloc resizes the mapping, free unmaps it.        *)
(***************************************************************************)
EXTENDS Bins, FiniteSets, Functions

CONSTANTS
  Threads,
  Requests,       \* bytes a caller may ask for
  Alignments,     \* of memalign, as internal_memalign works with them
  Pages,          \* addresses of pages the system has
  MmapThreshold,  \* mparams.mmap_threshold
  MaxLive         \* bound: chunks that are mapped for callers

ASSUME MmappedAssumption ==
  /\ \A a \in Pages : a \in Nat \ {0} /\ a % PageSize = 0
  /\ Requests \subseteq 0..MAX_SIZE_T
  /\ \A a \in Alignments : a \in Nat /\ a >= MIN_CHUNK_SIZE
  /\ {MmapThreshold, MaxLive} \subseteq Nat

VARIABLES
  mapped,     \* pages that are mapped
  chunks,     \* the chunks: address -> size and offset, from head and prev_foot
  footprint,
  use_mmap,   \* USE_MMAP_BIT of mflags
  live,       \* what callers hold: chunk -> bytes asked for
  call        \* what a thread has still to do in its call

vars == <<mapped, chunks, footprint, use_mmap, live, call>>

Idle == [op |-> "idle"]
Ordinary == 0   \* a chunk of a segment, whatever its address

PagesOf(start, len) == {a \in Pages : start < a + PageSize /\ a < start + len}

\* Where the system may put len bytes when it has the pages of free; it maps no
\* empty range.
PlacesIn(free, len) == {a \in Pages : /\ len > 0 /\ PagesOf(a, len) \subseteq free
                                       /\ Cardinality(PagesOf(a, len)) * PageSize = len}

-----------------------------------------------------------------------------
(* The mapping of a chunk, as the code finds it from the chunk. *)

Start(p, c) == p - c.offset
Length(c) == (c.size + c.offset + MMAP_FOOT_PAD) % SizeT

\* mmap_alloc and mmap_resize: the head in a mapping of len bytes
DirectChunk(len, offset) == [size |-> (len - offset - MMAP_FOOT_PAD) % SizeT, offset |-> offset]

With(f, p, v) == [x \in DOMAIN f \cup {p} |-> IF x = p THEN v ELSE f[x]]
Without(f, p) == Restrict(f, DOMAIN f \ {p})

\* What a malloc of bytes may return, and the state it leaves: a chunk with a
\* mapping of its own, or one that this module does not see.
Malloc(bytes, Then(_)) ==
  LET nb == ChunkSize(bytes)
      len == MmapSize(nb)
  IN  \/ /\ use_mmap /\ nb >= MmapThreshold /\ len # NoSize
         /\ Cardinality(DOMAIN chunks) < MaxLive
         /\ \E mm \in PlacesIn(Pages \ mapped, len) :
              /\ mapped' = mapped \cup PagesOf(mm, len)
              /\ chunks' = With(chunks, mm, DirectChunk(len, 0))
              /\ footprint' = footprint + len
              /\ Then(mm)
      \/ UNCHANGED <<mapped, chunks, footprint>> /\ Then(Ordinary)

\* mspace_free: the bytes it takes off the footprint
Released(c) == Length(c)

\* Gives the chunk p back; munmap may fail.
Free(p) ==
  /\ chunks' = Without(chunks, p)
  /\ \/ /\ mapped' = mapped \ PagesOf(Start(p, chunks[p]), Length(chunks[p]))
        /\ footprint' = footprint - Released(chunks[p])
     \/ UNCHANGED <<mapped, footprint>>

-----------------------------------------------------------------------------
Finish(t) == call' = [call EXCEPT ![t] = Idle]
Hand(p, bytes) == live' = IF p = Ordinary THEN live ELSE With(live, p, bytes)

mspace_malloc(t) ==
  /\ call[t] = Idle
  /\ \E bytes \in Requests : Malloc(bytes, LAMBDA p : Hand(p, bytes))
  /\ UNCHANGED <<use_mmap, call>>

mspace_free(t) ==
  /\ call[t] = Idle
  /\ \E p \in DOMAIN live : Free(p) /\ live' = Without(live, p)
  /\ UNCHANGED <<use_mmap, call>>

\* mmap_resize keeps a chunk that is large enough and not much too large.
Keeps(c, nb) == c.size >= nb + SIZE_T_SIZE /\ c.size - nb <= 2 * Granularity

\* mremap of the chunk p to len bytes, in place or elsewhere
Moves(p, len, bytes) ==
  LET c == chunks[p]
      rest == mapped \ PagesOf(Start(p, c), Length(c))
  IN  \E cp \in PlacesIn(Pages \ rest, len) :
        /\ mapped' = rest \cup PagesOf(cp, len)
        /\ chunks' = With(Without(chunks, p), cp + c.offset, DirectChunk(len, c.offset))
        /\ footprint' = footprint + len - Length(c)
        /\ live' = With(Without(live, p), cp + c.offset, bytes)

\* internal_realloc of a mapped chunk up to POSTACTION; mmap_resize does not look
\* whether the length of the region wrapped around.
mspace_realloc(t) ==
  /\ call[t] = Idle
  /\ \E p \in DOMAIN live, bytes \in Requests \ (MAX_REQUEST..MAX_SIZE_T) :
       LET nb == request2size(bytes)
           resizes == ~is_small(nb) /\ ~Keeps(chunks[p], nb)
       IN  \/ /\ ~is_small(nb) /\ Keeps(chunks[p], nb)
              /\ live' = [live EXCEPT ![p] = bytes]
              /\ UNCHANGED <<mapped, chunks, footprint, call>>
           \/ resizes /\ Moves(p, MmapRegion(nb), bytes) /\ UNCHANGED call
           \/ /\ is_small(nb) \/ resizes
              /\ live' = Without(live, p)
              /\ call' = [call EXCEPT ![t] = [op |-> "move", p |-> p, bytes |-> bytes,
                                               had |-> live[p]]]
              /\ UNCHANGED <<mapped, chunks, footprint>>
  /\ UNCHANGED use_mmap

Stays(t) == Hand(call[t].p, call[t].had)

\* The chunk was not resized: malloc, copy, and then the old one is freed; if there
\* is no memory for a new one it stays.
ReallocMoves(t) ==
  /\ call[t].op = "move"
  /\ \/ /\ Malloc(call[t].bytes, LAMBDA p : Hand(p, call[t].bytes))
        /\ call' = [call EXCEPT ![t] = [op |-> "free", p |-> call[t].p]]
     \/ /\ Stays(t) /\ Finish(t)
        /\ UNCHANGED <<mapped, chunks, footprint>>
  /\ UNCHANGED use_mmap

FreeOld(t) ==
  /\ call[t].op = "free" /\ Free(call[t].p) /\ Finish(t)
  /\ UNCHANGED <<use_mmap, live>>

mspace_memalign(t) ==
  /\ call[t] = Idle
  /\ \E alignment \in Alignments, bytes \in Requests :
       /\ MemalignRequest(alignment, bytes) # NoSize
       /\ Malloc(MemalignRequest(alignment, bytes), LAMBDA p :
            call' = IF p = Ordinary THEN call
                    ELSE [call EXCEPT ![t] = [op |-> "align", p |-> p, alignment |-> alignment,
                                              bytes |-> bytes]])
  /\ UNCHANGED <<use_mmap, live>>

\* Mutated: the chunk is aligned and not the block in it.
AlignedPlace_Chunk(p, alignment) == ((p + alignment - 1) \div alignment) * alignment

\* Where in the mapping the aligned chunk begins
AlignedPlace(p, alignment) ==
  LET mem == p + CHUNK_OVERHEAD
      br == ((mem + alignment - 1) \div alignment) * alignment - CHUNK_OVERHEAD
  IN  IF mem % alignment = 0 THEN p
      ELSE IF br - p >= MIN_CHUNK_SIZE THEN br ELSE br + alignment

\* Mutated: the way back to the start of the mapping is not kept.
MovedChunk_SameOffset(c, leadsize) == [size |-> c.size - leadsize, offset |-> c.offset]

MovedChunk(c, leadsize) == [size |-> c.size - leadsize, offset |-> c.offset + leadsize]

\* internal_memalign after its malloc: only the chunk moves
MemalignAligns(t) ==
  /\ call[t].op = "align"
  /\ LET p == call[t].p
         pos == AlignedPlace(p, call[t].alignment)
     IN  /\ chunks' = With(Without(chunks, p), pos, MovedChunk(chunks[p], pos - p))
         /\ live' = With(live, pos, call[t].bytes)
  /\ Finish(t) /\ UNCHANGED <<mapped, footprint, use_mmap>>

\* The setting with which ialloc makes its malloc
ForIalloc == FALSE

\* ialloc, outside of the lock: was_enabled = use_mmap, disable_mmap
ialloc(t) ==
  /\ call[t] = Idle
  /\ use_mmap' = ForIalloc
  /\ call' = [call EXCEPT ![t] = [op |-> "batch", was_enabled |-> use_mmap]]
  /\ UNCHANGED <<mapped, chunks, footprint, live>>

IallocMallocs(t) ==
  /\ call[t].op = "batch"
  /\ \E bytes \in Requests :
       Malloc(bytes, LAMBDA p :
         call' = [call EXCEPT ![t] = [op |-> "enable", was_enabled |-> call[t].was_enabled, p |-> p]])
  /\ UNCHANGED <<use_mmap, live>>

\* Back to the setting that was found; then the chunk is split into elements.
IallocEnables(t) ==
  /\ call[t].op = "enable"
  /\ use_mmap' = (use_mmap \/ call[t].was_enabled)
  /\ call' = [call EXCEPT ![t] = [op |-> "split", p |-> call[t].p]]
  /\ UNCHANGED <<mapped, chunks, footprint, live>>

\* The elements are chunks of a segment, so nothing of them is seen here.
IallocSplits(t) ==
  /\ call[t].op = "split" /\ call[t].p = Ordinary /\ Finish(t)
  /\ UNCHANGED <<mapped, chunks, footprint, use_mmap, live>>

mspace_mmap_large_chunks(t) ==
  /\ call[t] = Idle /\ use_mmap' \in BOOLEAN
  /\ UNCHANGED <<mapped, chunks, footprint, live, call>>

Init ==
  /\ mapped = {} /\ chunks = <<>> /\ footprint = 0 /\ use_mmap = TRUE
  /\ live = <<>> /\ call = [t \in Threads |-> Idle]

Next == \E t \in Threads :
  \/ mspace_malloc(t) \/ mspace_free(t) \/ mspace_realloc(t) \/ ReallocMoves(t) \/ FreeOld(t)
  \/ mspace_memalign(t) \/ MemalignAligns(t)
  \/ ialloc(t) \/ IallocMallocs(t) \/ IallocEnables(t) \/ IallocSplits(t)
  \/ mspace_mmap_large_chunks(t)

Spec == Init /\ [][Next]_vars

-----------------------------------------------------------------------------
(* Properties. *)

\* What mmap_resize takes for granted of its callers: an aligned chunk begins inside
\* the region that is left when it shrinks, and no length of a region wraps around.
ModestCallers ==
  /\ \A a \in Alignments : a <= MIN_LARGE_SIZE \/ PageSize % a = 0
  /\ \A bytes \in Requests : bytes < MAX_REQUEST => bytes + PageSize + 128 <= SizeT

MappingOf(p) == PagesOf(Start(p, chunks[p]), Length(chunks[p]))

TypeOK ==
  /\ mapped \subseteq Pages /\ use_mmap \in BOOLEAN /\ footprint \in Nat
  /\ \A p \in DOMAIN chunks : chunks[p] \in [size : 0..SizeT - 1, offset : Nat]
  /\ DOMAIN live \subseteq DOMAIN chunks

\* What the head and prev_foot of a chunk say of its mapping, after any sequence of
\* alignments and resizes, is a whole number of mapped pages that no other chunk
\* shares: munmap and mremap get exactly what mmap gave.
MappingsExact ==
  /\ \A p \in DOMAIN chunks :
       /\ Start(p, chunks[p]) \in Pages /\ Length(chunks[p]) % PageSize = 0
       /\ Cardinality(MappingOf(p)) * PageSize = Length(chunks[p])
       /\ MappingOf(p) \subseteq mapped
  /\ \A p, q \in DOMAIN chunks : p # q => MappingOf(p) \cap MappingOf(q) = {}

\* The footprint counts every page that is mapped, also one munmap could not give
\* back.
FootprintExact == footprint = PageSize * Cardinality(mapped)

InCall(p) == \E t \in Threads : call[t].op \notin {"idle", "batch"} /\ call[t].p = p

\* A mapped chunk is held by a caller or is in the hands of a call, and not both.
NoChunkLost == \A p \in DOMAIN chunks : p \in DOMAIN live <=> ~InCall(p)

LongEnough(p) == chunks[p].size >= live[p] + CHUNK_OVERHEAD

\* A chunk that begins where its mapping begins is as long as was asked, after any
\* number of resizes.
FlatChunksLongEnough == \A p \in DOMAIN live : chunks[p].offset = 0 => LongEnough(p)

\* memalign finds its chunk large enough behind the aligned address, which is a
\* chunk's distance into the mapping or at its start.
AlignmentFits ==
  \A t \in Threads : call[t].op = "align" =>
    LET c == call[t]
        pos == AlignedPlace(c.p, c.alignment)
    IN  /\ (pos + CHUNK_OVERHEAD) % c.alignment = 0
        /\ chunks[c.p].size - (pos - c.p) >= request2size(c.bytes)

\* Every page that is mapped belongs to one chunk or is counted as lost to munmap, and
\* every mapped chunk is somebody's.
MappingsAccounted == TypeOK /\ MappingsExact /\ FootprintExact /\ NoChunkLost

\* Both ways to a block of a mapped chunk leave room for what was asked.
BlocksFit == FlatChunksLongEnough /\ AlignmentFits
=============================================================================
