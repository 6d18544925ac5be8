------------------------------- MODULE Mspace -------------------------------
(***************************************************************************)
(* An mspace of dlmalloc (malloc.c.h) and the threads that call it.  What  *)
(* a call does under the lock of the mspace is one step; realloc, memalign *)
(* and the independent_ routines let go of the lock in between, and their  *)
(* pieces are steps of their own.  mmap and munmap may fail, and mmap may  *)
(* return any free place.                                                  *)
(***************************************************************************)
EXTENDS FreeBins

CONSTANTS
  Threads,
  Requests,       \* bytes a caller may ask for
  Alignments,     \* of memalign
  Batches,        \* sequences of bytes of mspace_independent_comalloc
  Pads,           \* of mspace_trim
  Bases,          \* addresses the system maps memory at, one unit of Granularity each
  TrimThreshold,  \* mparams.trim_threshold
  ReleaseRate,    \* MAX_RELEASE_CHECK_RATE
  MaxLive         \* bound: blocks the callers hold

ASSUME MspaceAssumption ==
  /\ \A b \in Bases : b # Null /\ b % Granularity = 0
  /\ MStateSize % MALLOC_ALIGNMENT = 0 /\ Granularity > MStateSize + TOP_FOOT_SIZE
  /\ {TrimThreshold, ReleaseRate, MaxLive} \subseteq Nat /\ Requests \subseteq 0..MAX_SIZE_T
  /\ \A a \in Alignments : a \in Nat /\ a >= MIN_CHUNK_SIZE  \* as internal_memalign rounds them
  /\ Bases \cup Pads \subseteq Nat
  /\ \A batch \in Batches : batch \in Seq(Requests) /\ batch # <<>>  \* none is malloc(0), or nothing

VARIABLES
  m,      \* the malloc_state, with the memory it manages
  live,   \* the blocks of the callers: chunk -> bytes asked for
  call    \* what a thread has still to do in a call that let go of the lock

vars == <<m, live, call>>

Fail == -1  \* MFAIL
Idle == [op |-> "idle"]

\* The units of memory from lo up to hi.
Units(lo, hi) == {b \in Bases : lo <= b /\ b < hi}

Forget(h, lo, hi) == [a \in {x \in DOMAIN h : x < lo \/ x >= hi} |-> h[a]]

-----------------------------------------------------------------------------
(* Segments: the first is the one of top, whose record stands in the         *)
(* malloc_state; those of the others stand in chunks of the mspace.          *)

Holds(seg, a) == seg.base <= a /\ a < seg.base + seg.size

has_segment_link(s, seg) ==
  Holds(seg, s.home) \/ \E k \in 2..Len(s.segs) : Holds(seg, s.segs[k].rec)

init_top(s, p, psize) ==
  [s EXCEPT !.top = p, !.topsize = psize, !.trim_check = TrimThreshold,
            !.heap = WriteHead(WriteHead(@, p, psize, FALSE, TRUE),
                               p + psize, TOP_FOOT_SIZE, FALSE, FALSE)]

\* init_user_mstate
NewMState(base, size, extern) ==
  LET s == [heap |-> base :> [size |-> MStateSize, cinuse |-> TRUE, pinuse |-> TRUE,
                              foot |-> Footer],
            smallbins |-> [i \in 0..NSMALLBINS - 1 |-> <<>>],
            treebins |-> [i \in 0..NTREEBINS - 1 |-> Null], tree |-> <<>>,
            dv |-> Null, dvsize |-> 0, top |-> Null, topsize |-> 0,
            segs |-> <<[base |-> base, size |-> size, extern |-> extern, rec |-> Null]>>,
            home |-> base, least_addr |-> base,
            trim_check |-> TrimThreshold, release_checks |-> ReleaseRate,
            footprint |-> size, max_footprint |-> size,
            mapped |-> IF extern THEN {} ELSE Units(base, base + size)]
  IN  init_top(s, base + MStateSize, size - MStateSize - TOP_FOOT_SIZE)

\* The chunk is cut from the new memory; the rest joins the first chunk after it.
prepend_alloc(s, newbase, oldbase, nb) ==
  LET q == newbase + nb
      qsize == oldbase - q
      s1 == [s EXCEPT !.heap = set_size_and_pinuse_of_inuse_chunk(@, newbase, nb)]
      osize == SizeOf(s, oldbase)
  IN  IF oldbase = s.top
        THEN [s1 EXCEPT !.top = q, !.topsize = @ + qsize,
                        !.heap = WriteHead(@, q, s.topsize + qsize, FALSE, TRUE)]
      ELSE IF oldbase = s.dv
        THEN [s1 EXCEPT !.dv = q, !.dvsize = @ + qsize,
                        !.heap = set_size_and_pinuse_of_free_chunk(@, q, s.dvsize + qsize)]
      ELSE IF s.heap[oldbase].cinuse
        THEN insert_chunk([s1 EXCEPT !.heap = set_free_with_pinuse(@, q, qsize, oldbase)], q, qsize)
      ELSE LET s2 == unlink_chunk(s1, oldbase, osize)
           IN  insert_chunk([s2 EXCEPT !.heap = set_free_with_pinuse(@, q, qsize + osize, oldbase + osize)],
                            q, qsize + osize)

\* The heads of the fenceposts between lo and the end of a segment.
Fenceposts(h, lo, end) ==
  LET posts == {a \in lo..end - 2 * SIZE_T_SIZE : (a - lo) % SIZE_T_SIZE = 0 /\ a + SIZE_T_SIZE < end}
  IN  [a \in posts |-> [size |-> SIZE_T_SIZE, cinuse |-> TRUE, pinuse |-> TRUE,
                        foot |-> Tag(h, a).foot]] @@ Forget(h, lo, end)

\* Where the record of the segment that ends at end goes
RecordPlace(s, end) ==
  LET asp == end - (SegmentRecordSize + 4 * SIZE_T_SIZE)
  IN  IF asp < s.top + MIN_CHUNK_SIZE THEN s.top ELSE asp

\* The record of the old segment goes to its end, fenceposts after it, and what
\* is left of top becomes an ordinary free chunk.
add_segment(s, tbase, tsize) ==
  LET end == s.segs[1].base + s.segs[1].size
      csp == RecordPlace(s, end)
      s1 == init_top(s, tbase, tsize - TOP_FOOT_SIZE)
      s2 == [s1 EXCEPT !.heap = Fenceposts(set_size_and_pinuse_of_inuse_chunk(@, csp, SegmentRecordSize),
                                           csp + SegmentRecordSize, end),
                       !.segs = <<[base |-> tbase, size |-> tsize, extern |-> FALSE, rec |-> Null]>>
                                  \o <<[@[1] EXCEPT !.rec = csp]>> \o Tail(@)]
  IN  IF csp = s.top THEN s2
      ELSE insert_chunk([s2 EXCEPT !.heap = set_free_with_pinuse(@, s.top, csp - s.top, csp)],
                        s.top, csp - s.top)

-----------------------------------------------------------------------------
(* Allocation.  Each part returns the new mspace and the chunk, Null if none. *)

Got(s, p) == [m |-> s, p |-> p]
None(s) == Got(s, Null)

\* Mutated: the old dv is forgotten.
replace_dv_Lost(s, p, size) == [s EXCEPT !.dv = p, !.dvsize = size]

replace_dv(s, p, size) ==
  [(IF s.dvsize = 0 THEN s ELSE insert_small_chunk(s, s.dv, s.dvsize))
     EXCEPT !.dv = p, !.dvsize = size]

\* Cuts nb bytes from the chunk p that was just taken from its bin: all of it if
\* what remains is no chunk, else Rest takes the remainder.
Carve(s, p, nb, Rest(_, _, _)) ==
  LET rsize == SizeOf(s, p) - nb
      h == set_size_and_pinuse_of_free_chunk(s.heap, p + nb, rsize)
  IN  Got(IF rsize < MIN_CHUNK_SIZE
            THEN [s EXCEPT !.heap = set_inuse_and_pinuse(@, p, rsize + nb)]
            ELSE Rest([s EXCEPT !.heap = set_size_and_pinuse_of_inuse_chunk(h, p, nb)],
                      p + nb, rsize), p)

FromSmallBin(s, nb, i) ==
  Carve(unlink_first_small_chunk(s, i), Head(s.smallbins[i]), nb, replace_dv)

tmalloc_small(s, nb) ==
  LET v == SmallFit(s, nb) IN Carve(unlink_large_chunk(s, v), v, nb, replace_dv)

\* dv serves instead when it fits better.
tmalloc_large(s, nb) ==
  LET v == LargeFit(s, nb)
  IN  IF v # Null /\ (s.dvsize < nb \/ SizeOf(s, v) < s.dvsize)
        THEN Carve(unlink_large_chunk(s, v), v, nb, insert_chunk)
        ELSE None(s)

SmallBinsFor(s, nb) == {i \in small_index(nb)..NSMALLBINS - 1 : s.smallbins[i] # <<>>}

\* A chunk from a bin, when one is preferred to dv
FromBins(s, nb) ==
  LET bins == SmallBinsFor(s, nb)
      exact == bins # {} /\ Min(bins) <= small_index(nb) + 1
  IN  IF ~is_small(nb)
        THEN IF NonEmptyTrees(s) = {} THEN None(s) ELSE tmalloc_large(s, nb)
      ELSE IF exact \/ (nb > s.dvsize /\ bins # {}) THEN FromSmallBin(s, nb, Min(bins))
      ELSE IF nb > s.dvsize /\ NonEmptyTrees(s) # {} THEN tmalloc_small(s, nb)
      ELSE None(s)

\* Mutated: dv stays when it is used up.
FromDv_KeepsDv(s, nb) ==
  Carve(s, s.dv, nb, LAMBDA t, r, rsize : [t EXCEPT !.dv = r, !.dvsize = rsize])

FromDv(s, nb) ==
  Carve([s EXCEPT !.dv = Null, !.dvsize = 0], s.dv, nb,
        LAMBDA t, r, rsize : [t EXCEPT !.dv = r, !.dvsize = rsize])

FitsTop(s, nb) == nb < s.topsize

FromTop(s, nb) ==
  Got([s EXCEPT !.top = @ + nb, !.topsize = @ - nb,
                !.heap = set_size_and_pinuse_of_inuse_chunk(
                           WriteHead(@, s.top + nb, s.topsize - nb, FALSE, TRUE), s.top, nb)], s.top)

Grown(s, tbase, tsize) ==
  [s EXCEPT !.footprint = @ + tsize, !.max_footprint = Max({@, s.footprint + tsize}),
            !.mapped = @ \cup Units(tbase, tbase + tsize),
            !.least_addr = Min({@, tbase})]

\* Asks the system for memory, which it has at tbase, if at all: it extends the
\* segment of top, or is put in front of a segment, or becomes one of its own.
sys_alloc(s, nb, tbase) ==
  LET tsize == SegmentSize(nb)
      s1 == Grown(s, tbase, tsize)
      own(k) == ~s.segs[k].extern
      before == {k \in 1..Len(s.segs) : own(k) /\ s.segs[k].base = tbase + tsize}
      s2 == IF own(1) /\ s.segs[1].base + s.segs[1].size = tbase
              THEN init_top([s1 EXCEPT !.segs[1].size = @ + tsize], s.top, s.topsize + tsize)
              ELSE add_segment(s1, tbase, tsize)
  IN  IF tsize = NoSize \/ tbase = Fail THEN None(s)
      ELSE IF before # {} /\ ~(own(1) /\ s.segs[1].base + s.segs[1].size = tbase)
        THEN LET k == Min(before)
             IN  Got(prepend_alloc([s1 EXCEPT !.segs[k].base = tbase, !.segs[k].size = @ + tsize],
                                   tbase, tbase + tsize, nb), tbase)
      ELSE IF FitsTop(s2, nb) THEN FromTop(s2, nb) ELSE None(s2)

\* mspace_malloc
Malloc(s, bytes, tbase) ==
  LET nb == ChunkSize(bytes)
      found == FromBins(s, nb)
  IN  IF found.p # Null THEN found
      ELSE IF nb <= s.dvsize THEN FromDv(s, nb)
      ELSE IF FitsTop(s, nb) THEN FromTop(s, nb)
      ELSE sys_alloc(s, nb, tbase)

-----------------------------------------------------------------------------
(* Giving memory back to the system.  *)

Unmapped(s, lo, hi) ==
  [s EXCEPT !.footprint = @ - (hi - lo), !.mapped = @ \ Units(lo, hi),
            !.heap = Forget(@, lo, hi)]

IsUnused(s, seg) ==
  /\ ~seg.extern /\ ~s.heap[seg.base].cinuse
  /\ SizeOf(s, seg.base) >= seg.size - TOP_FOOT_SIZE

\* The chunk of an unused segment is taken from where it is kept.
Withdrawn(s, p) ==
  IF p = s.dv THEN [s EXCEPT !.dv = Null, !.dvsize = 0] ELSE unlink_large_chunk(s, p)

\* Every segment but the first goes if nothing in it is in use.
Release(t, seg, refused) ==
  LET p == seg.base
      t1 == Withdrawn(t, p)
  IN  IF ~IsUnused(t, seg) THEN t
      ELSE IF p \notin refused
        THEN [Unmapped(t1, p, p + seg.size) EXCEPT !.segs = Remove(@, seg)]
        ELSE insert_large_chunk(t1, p, SizeOf(t, p))

\* The mspace after each of its segments
Releases(s, refused) ==
  LET after[k \in 1..Len(s.segs)] == IF k = 1 THEN s ELSE Release(after[k - 1], s.segs[k], refused)
  IN  after

release_unused_segments(s, refused) ==
  [Releases(s, refused)[Len(s.segs)] EXCEPT !.release_checks = Max({Len(s.segs) - 1, ReleaseRate})]

\* Mutated: room for the record of the segment is not kept.
Shrinkable_NoFoot(s, pad) ==
  IF s.topsize > pad THEN ((s.topsize - pad + Granularity - 1) \div Granularity) * Granularity ELSE 0

\* How much of top can go, in units, so that pad and the foot remain
Shrinkable(s, pad) ==
  LET keep == pad + TOP_FOOT_SIZE
  IN  IF s.topsize > keep
        THEN ((s.topsize - keep + Granularity - 1) \div Granularity - 1) * Granularity
        ELSE 0

\* The end of the first segment goes, with as much of top.
ShrinkTop(s, extra, refused) ==
  LET seg == s.segs[1]
      end == seg.base + seg.size
  IN  IF /\ extra > 0 /\ seg.base \notin refused
         /\ ~seg.extern /\ seg.size >= extra /\ ~has_segment_link(s, seg)
        THEN init_top([Unmapped(s, end - extra, end) EXCEPT !.segs[1].size = @ - extra],
                      s.top, s.topsize - extra)
        ELSE s

sys_trim(s, pad, refused) ==
  LET t == release_unused_segments(ShrinkTop(s, Shrinkable(s, pad), refused), refused)
  IN  IF pad >= MAX_REQUEST THEN s
      ELSE IF t.footprint = s.footprint /\ t.topsize > t.trim_check
        THEN [t EXCEPT !.trim_check = MAX_SIZE_T]
        ELSE t

\* The free chunk in front of p leaves its bin, unless it is dv.
JoinsBack(s, p) ==
  LET prev == p - s.heap[p].foot
  IN  IF s.heap[p].pinuse \/ prev = s.dv THEN s ELSE unlink_chunk(s, prev, s.heap[p].foot)

\* A large chunk that is freed makes an unused segment go now and then.
InsertFreed(s, p, size, refused) ==
  LET t == insert_chunk(s, p, size)
      u == [t EXCEPT !.release_checks = @ - 1]
  IN  IF is_small(size) THEN t
      ELSE IF u.release_checks = 0 THEN release_unused_segments(u, refused) ELSE u

\* mspace_free
Free(s, mem, refused) ==
  LET back == ~s.heap[mem].pinuse
      p == IF back THEN mem - s.heap[mem].foot ELSE mem
      next == NextChunk(s, mem)
      psize == next - p
      s1 == JoinsBack(s, mem)
  IN  IF next = s.top
        THEN LET t == [s1 EXCEPT !.top = p, !.topsize = @ + psize,
                         !.heap = WriteHead(@, p, psize + s.topsize, FALSE, TRUE),
                         !.dv = IF @ = p THEN Null ELSE @,
                         !.dvsize = IF s.dv = p THEN 0 ELSE @]
             IN  IF t.topsize > t.trim_check THEN sys_trim(t, 0, refused) ELSE t
      ELSE IF next = s.dv
        THEN [s1 EXCEPT !.dv = p, !.dvsize = @ + psize,
                !.heap = set_size_and_pinuse_of_free_chunk(@, p, psize + s.dvsize)]
      ELSE LET joined == ~s.heap[next].cinuse
               size == psize + IF joined THEN SizeOf(s, next) ELSE 0
               s2 == IF joined THEN unlink_chunk(s1, next, SizeOf(s, next)) ELSE s1
               h == IF joined THEN set_size_and_pinuse_of_free_chunk(s2.heap, p, size)
                    ELSE set_free_with_pinuse(s2.heap, p, size, next)
           IN  IF p = s.dv THEN [s2 EXCEPT !.dvsize = size, !.heap = h]
               ELSE InsertFreed([s2 EXCEPT !.heap = h], p, size, refused)

-----------------------------------------------------------------------------
(* The pieces of the calls that let go of the lock. *)

\* Cuts a chunk in use at size: the rest is a chunk in use of its own.
Split(s, p, size) ==
  LET rsize == SizeOf(s, p) - size
  IN  [s EXCEPT !.heap = set_inuse(set_inuse(@, p, size), p + size, rsize)]

GrowsIntoTop(s, p, nb) == NextChunk(s, p) = s.top /\ SizeOf(s, p) + s.topsize > nb

\* internal_realloc up to POSTACTION: the chunk that stays, Null if it cannot, and
\* the chunk to free.
ReallocInPlace(s, p, nb) ==
  LET rsize == SizeOf(s, p) - nb
      newtopsize == SizeOf(s, p) + s.topsize - nb
  IN  IF rsize >= 0
        THEN IF rsize >= MIN_CHUNK_SIZE
               THEN [m |-> Split(s, p, nb), p |-> p, extra |-> <<p + nb>>]
               ELSE [m |-> s, p |-> p, extra |-> <<>>]
      ELSE IF GrowsIntoTop(s, p, nb)
        THEN [m |-> [s EXCEPT !.top = p + nb, !.topsize = newtopsize,
                       !.heap = WriteHead(set_inuse(@, p, nb), p + nb, newtopsize, FALSE, TRUE)],
              p |-> p, extra |-> <<>>]
      ELSE [m |-> s, p |-> Null, extra |-> <<>>]

\* internal_memalign: where in the chunk p the aligned one begins
AlignedPlace(p, alignment) ==
  LET mem == p + CHUNK_OVERHEAD
      br == ((mem + alignment - 1) \div alignment) * alignment - CHUNK_OVERHEAD
  IN  IF mem % alignment = 0 THEN p
      ELSE IF br - p >= MIN_CHUNK_SIZE THEN br ELSE br + alignment

\* internal_memalign after its malloc: the aligned chunk, and the leader and the
\* trailer to free.
Align(s, p, alignment, nb) ==
  LET pos == AlignedPlace(p, alignment)
      s1 == IF pos = p THEN s ELSE Split(s, p, pos - p)
      trailer == SizeOf(s1, pos) > nb + MIN_CHUNK_SIZE
  IN  [m |-> IF trailer THEN Split(s1, pos, nb) ELSE s1, p |-> pos,
       extra |-> (IF pos = p THEN <<>> ELSE <<p>>) \o IF trailer THEN <<pos + nb>> ELSE <<>>]

\* What ialloc cuts for a batch of elements, and the bytes of the array of pointers
ElementSizes(batch) == [i \in DOMAIN batch |-> request2size(batch[i])]
ArrayBytes(batch) == Len(batch) * SIZE_T_SIZE

\* The sizes of the first elements together, and contents_size
Totals(sizes) ==
  LET total[k \in 0..Len(sizes)] == IF k = 0 THEN 0 ELSE total[k - 1] + sizes[k]
  IN  total

Total(sizes) == Totals(sizes)[Len(sizes)] % SizeT

\* ialloc after its malloc: a chunk of each size in turn, and one behind them for
\* the array of pointers, if the caller brought none; the last takes what is left.
Elements(s, p, sizes, withArray) ==
  LET rest == SizeOf(s, p) - Total(sizes)
      parts == IF withArray THEN Append(sizes, rest) ELSE Append(Front(sizes), Last(sizes) + rest)
      cut(acc, size) == [heap |-> set_size_and_pinuse_of_inuse_chunk(acc.heap, acc.at, size),
                         at |-> acc.at + size, got |-> Append(acc.got, acc.at)]
  IN  FoldLeft(cut, [heap |-> s.heap, at |-> p, got |-> <<>>], parts)

\* internal_mallinfo: the chunks of a segment, up to top or the fenceposts
Walk(s, seg) ==
  LET walk[q \in DOMAIN s.heap] ==
        IF ~Holds(seg, q) \/ q = s.top \/ (s.heap[q].cinuse /\ SizeOf(s, q) = SIZE_T_SIZE)
          THEN <<>> ELSE <<q>> \o walk[NextChunk(s, q)]
  IN  walk[seg.base]

Chunks(s) == UNION {ToSet(Walk(s, s.segs[k])) : k \in 1..Len(s.segs)}

internal_mallinfo(s) ==
  LET mfree == s.topsize + TOP_FOOT_SIZE
                 + MapThenSumSet(LAMBDA q : SizeOf(s, q), {q \in Chunks(s) : ~s.heap[q].cinuse})
  IN  [fordblks |-> mfree, uordblks |-> s.footprint - mfree]

-----------------------------------------------------------------------------
(* The calls. *)

\* Where the system may map size bytes.
Places(size) ==
  {Fail} \cup {b \in Bases :
    \A u \in {b + k * Granularity : k \in 0..(size \div Granularity) - 1} :
      u \in Bases \ m.mapped /\ \A k \in 1..Len(m.segs) : ~Holds(m.segs[k], u)}

\* What malloc may come to, as the system may answer.
Outcomes(bytes) ==
  {Malloc(m, bytes, tbase) : tbase \in Places(SegmentSize(ChunkSize(bytes)))}

\* The segments, by their bases, of which munmap gives nothing back in a call.
Refusals == SUBSET {m.segs[k].base : k \in 1..Len(m.segs)}

Block(p, bytes) == [q \in {p} |-> bytes]

Handed(p, bytes) == [q \in DOMAIN live \cup {p} |-> IF q = p THEN bytes ELSE live[q]]

Forgotten(p) == [q \in DOMAIN live \ {p} |-> live[q]]

\* The call of t goes on freeing the chunks of todo and then returns the blocks of
\* ret to a caller who holds those of kept.
Finish(t, kept, todo, ret) ==
  IF todo = <<>>
    THEN live' = ret @@ kept /\ call' = [call EXCEPT ![t] = Idle]
    ELSE live' = kept /\ call' = [call EXCEPT ![t] = [op |-> "free", todo |-> todo, ret |-> ret]]

mspace_malloc(t) ==
  /\ call[t] = Idle /\ Cardinality(DOMAIN live) < MaxLive
  /\ \E bytes \in Requests : \E got \in Outcomes(bytes) :
       /\ m' = got.m
       /\ live' = IF got.p = Null THEN live ELSE Handed(got.p, bytes)
  /\ UNCHANGED call

mspace_free(t) ==
  /\ call[t] = Idle
  /\ \E p \in DOMAIN live, refused \in Refusals : m' = Free(m, p, refused) /\ live' = Forgotten(p)
  /\ UNCHANGED call

mspace_realloc(t) ==
  /\ call[t] = Idle
  /\ \E p \in DOMAIN live, bytes \in {b \in Requests : b < MAX_REQUEST} :
       LET r == ReallocInPlace(m, p, ChunkSize(bytes))
       IN  /\ m' = r.m
           /\ \/ r.p # Null /\ Finish(t, Forgotten(p), r.extra, Block(p, bytes))
              \/ /\ r.p = Null /\ live' = Forgotten(p)
                 /\ call' = [call EXCEPT ![t] =
                      [op |-> "move", p |-> p, bytes |-> bytes, had |-> live[p]]]

\* internal_realloc: malloc, copy, and the old block is next to be freed
ReallocMoves(t) ==
  /\ call[t].op = "move"
  /\ LET c == call[t]
     IN  \E got \in Outcomes(c.bytes) :
           /\ m' = got.m
           /\ IF got.p = Null THEN Finish(t, live, <<>>, Block(c.p, c.had))
              ELSE Finish(t, live, <<c.p>>, Block(got.p, c.bytes))

\* internal_free of a chunk that a call cut off or moved away from
FreeRest(t) ==
  /\ call[t].op = "free"
  /\ \E refused \in Refusals : m' = Free(m, Head(call[t].todo), refused)
  /\ Finish(t, live, Tail(call[t].todo), call[t].ret)

\* A malloc for a call that goes on with the chunk, or returns Null.
MallocThen(t, bytes, Continue(_)) ==
  /\ call[t] = Idle /\ Cardinality(DOMAIN live) < MaxLive
  /\ \E got \in Outcomes(bytes) :
       /\ m' = got.m
       /\ call' = IF got.p = Null THEN call ELSE [call EXCEPT ![t] = Continue(got.p)]
  /\ UNCHANGED live

mspace_memalign(t) ==
  \E alignment \in Alignments, bytes \in Requests :
    /\ MemalignRequest(alignment, bytes) # NoSize
    /\ MallocThen(t, MemalignRequest(alignment, bytes),
                  LAMBDA p : [op |-> "align", p |-> p, alignment |-> alignment, bytes |-> bytes])

MemalignAligns(t) ==
  /\ call[t].op = "align"
  /\ LET r == Align(m, call[t].p, call[t].alignment, ChunkSize(call[t].bytes))
     IN  m' = r.m /\ Finish(t, live, r.extra, Block(r.p, call[t].bytes))

\* mspace_independent_comalloc, and mspace_independent_calloc if all sizes are equal
mspace_independent(t) ==
  \E batch \in Batches, withArray \in BOOLEAN :
    LET array == IF withArray THEN request2size(ArrayBytes(batch)) ELSE 0
    IN  MallocThen(t, (Total(ElementSizes(batch)) + array - CHUNK_OVERHEAD) % SizeT,
                   LAMBDA p : [op |-> "elements", p |-> p, batch |-> batch, withArray |-> withArray])

IndependentSplits(t) ==
  /\ call[t].op = "elements"
  /\ LET c == call[t]
         r == Elements(m, c.p, ElementSizes(c.batch), c.withArray)
         asked == IF c.withArray THEN Append(c.batch, ArrayBytes(c.batch)) ELSE c.batch
     IN  /\ m' = [m EXCEPT !.heap = r.heap]
         /\ Finish(t, live, <<>>, [q \in ToSet(r.got) |-> asked[CHOOSE i \in DOMAIN r.got : r.got[i] = q]])

mspace_trim(t) ==
  /\ call[t] = Idle
  /\ \E pad \in Pads, refused \in Refusals : m' = sys_trim(m, pad, refused)
  /\ UNCHANGED <<live, call>>

\* What is still mapped after destroy_mspace
Destroyed(s) ==
  s.mapped \ UNION {Units(s.segs[k].base, s.segs[k].base + s.segs[k].size) :
                      k \in {j \in 1..Len(s.segs) : ~s.segs[j].extern}}

\* The memory of create_mspace or of create_mspace_with_base
NewMStates ==
  LET size == FirstSegmentSize(0)
  IN  {NewMState(b, size, extern) : b \in {u \in Bases : Units(u, u + size) # {}}, extern \in BOOLEAN}

\* Nobody is in a call: the mspace goes, with every block, and a new one comes.
destroy_mspace ==
  /\ \A t \in Threads : call[t] = Idle
  /\ \E s \in NewMStates : m' = [s EXCEPT !.mapped = @ \cup Destroyed(m)]
  /\ live' = <<>> /\ UNCHANGED call

Init == m \in NewMStates /\ live = <<>> /\ call = [t \in Threads |-> Idle]

Next ==
  \/ \E t \in Threads :
       \/ mspace_malloc(t) \/ mspace_free(t) \/ mspace_realloc(t) \/ ReallocMoves(t)
       \/ FreeRest(t) \/ mspace_memalign(t) \/ MemalignAligns(t)
       \/ mspace_independent(t) \/ IndependentSplits(t) \/ mspace_trim(t)
  \/ destroy_mspace

Spec == Init /\ [][Next]_vars

-----------------------------------------------------------------------------
(* Properties. *)

\* The chunks that are in use for callers, or on their way to or from them.
HeldIn(c) ==
  IF c.op = "idle" THEN {}
  ELSE IF c.op = "free" THEN ToSet(c.todo) \cup DOMAIN c.ret
  ELSE {c.p}

Held == DOMAIN live \cup UNION {HeldIn(call[t]) : t \in Threads}

FreeChunks == {q \in Chunks(m) : ~m.heap[q].cinuse}
SmallBinned == UNION {ToSet(m.smallbins[i]) : i \in DOMAIN m.smallbins}
TreeBinned == UNION {ToSet(m.tree[t].chain) : t \in DOMAIN m.tree}
Records == {m.segs[k].rec : k \in 2..Len(m.segs)}

Fields ==
  {"heap", "smallbins", "treebins", "tree", "dv", "dvsize", "top", "topsize", "segs", "home",
   "least_addr", "trim_check", "release_checks", "footprint", "max_footprint", "mapped"}

Segments == [base : Nat, size : Nat, extern : BOOLEAN, rec : Nat]

TypeOK ==
  /\ DOMAIN m.heap \subseteq Nat \ {Null}
  /\ \A q \in DOMAIN m.heap : q % MALLOC_ALIGNMENT = 0 /\ m.heap[q].size \in 1..SizeT - 1 /\ m.heap[q].foot \in Int
  /\ m.smallbins \in [0..NSMALLBINS - 1 -> Seq(DOMAIN m.heap)]
  /\ DOMAIN m.treebins = 0..NTREEBINS - 1
  /\ m.dv = Null <=> m.dvsize = 0
  /\ m.dv # Null => m.dv \in FreeChunks /\ SizeOf(m, m.dv) = m.dvsize
  /\ DOMAIN m = Fields /\ m.segs \in Seq(Segments) /\ m.segs # <<>>
  /\ {m.footprint, m.topsize, m.dvsize} \subseteq Nat /\ m.footprint <= m.max_footprint
  /\ \A q \in DOMAIN m.heap : \E k \in DOMAIN m.segs : Holds(m.segs[k], q)
  /\ {m.top} \cup Chunks(m) \cup {m.segs[k].base : k \in DOMAIN m.segs} \subseteq DOMAIN m.heap
  /\ \A p \in Held : p \in DOMAIN m.heap /\ m.heap[p].cinuse
  /\ DOMAIN call = Threads
  /\ \A t \in Threads :
       /\ call[t].op = "move" => call[t].bytes \in Requests
       /\ call[t].op = "free" => Head(call[t].todo) \in Held

\* traverse_and_check: from the base of a segment to its end there are chunks, each
\* knowing whether the one before it is in use, and how long it is if it is not; two
\* free ones never meet; and behind every chunk in use stands the footer of the
\* mspace, by which free and realloc find the lock they need.
ChunksTile ==
  \A k \in 1..Len(m.segs) :
    LET seg == m.segs[k]
        w == Walk(m, seg)
        end == IF w = <<>> THEN seg.base ELSE NextChunk(m, Last(w))
    IN  /\ m.heap[seg.base].pinuse
        /\ IF k = 1 THEN end = m.top /\ m.heap[end].pinuse /\ ~m.heap[end].cinuse
           ELSE \A a \in {x \in DOMAIN m.heap : end <= x /\ x < seg.base + seg.size} :
                  m.heap[a].cinuse /\ SizeOf(m, a) = SIZE_T_SIZE
        /\ \A j \in 1..Len(w) :
             LET c == m.heap[w[j]]
                 n == m.heap[NextChunk(m, w[j])]
             IN  /\ c.size >= MIN_CHUNK_SIZE /\ n.pinuse = c.cinuse
                 /\ n.foot = IF c.cinuse THEN Footer ELSE c.size
                 /\ ~c.cinuse => c.pinuse

\* do_check_malloc_state: a chunk in use is in no bin, and a free one is in exactly
\* one place: it is dv, or in the small bin of its size, or in the tree of its size.
BinsExact ==
  /\ FreeChunks \ {m.dv} = SmallBinned \cup TreeBinned /\ m.dv \notin SmallBinned \cup TreeBinned
  /\ \A i \in DOMAIN m.smallbins :
       /\ \A q \in ToSet(m.smallbins[i]) : SizeOf(m, q) = small_index2size(i)
       /\ Cardinality(ToSet(m.smallbins[i])) = Len(m.smallbins[i])
  /\ \A t \in DOMAIN m.tree : \A q \in ToSet(m.tree[t].chain) :
       ~is_small(SizeOf(m, q)) /\ SizeOf(m, q) = SizeOf(m, t)

\* The chunks of the subtree of t.
Below(t) ==
  LET below[u \in DOMAIN m.tree] ==
        {u} \cup UNION {below[m.tree[u].child[d]] : d \in {e \in 1..2 : m.tree[u].child[e] # Null}}
  IN  IF t = Null THEN {} ELSE below[t]

\* The tries: parents and children agree, every node is in its chain, and a search for
\* the size of a node in the bin of that size comes to the node (bin_find).
TriesSound(s) ==
  /\ \A i \in DOMAIN s.treebins :
       LET r == s.treebins[i]
       IN  r # Null => r \in DOMAIN s.tree /\ TreeIndex(SizeOf(s, r)) = i /\ s.tree[r].parent = InBin
  /\ \A t \in DOMAIN s.tree :
       LET c == s.tree[t].child
           path == SearchPath(s, TreeIndex(SizeOf(s, t)), SizeOf(s, t))
       IN  /\ t \in ToSet(s.tree[t].chain) /\ ToSet(s.tree[t].chain) \subseteq DOMAIN s.heap
           /\ \A d \in 1..2 : c[d] # Null => c[d] \in DOMAIN s.tree /\ s.tree[c[d]].parent = t
           /\ c[1] = c[2] => c[1] = Null
           /\ path # <<>> /\ Last(path) = t

\* do_check_tree: the nodes of a bin are of different sizes, parents and children
\* agree, every node is reached from its bin, and all that is in a left subtree is
\* smaller than all in the right one.
TreesWellFormed ==
  /\ TriesSound(m)
  /\ \A i \in DOMAIN m.treebins : \A u \in Below(m.treebins[i]) : TreeIndex(SizeOf(m, u)) = i
  /\ DOMAIN m.tree = UNION {Below(m.treebins[i]) : i \in DOMAIN m.treebins}
  /\ \A t \in DOMAIN m.tree :
       LET c == m.tree[t].child
       IN  /\ Head(m.tree[t].chain) = t
           /\ \A u \in Below(t) \ {t} : SizeOf(m, u) # SizeOf(m, t)
           /\ \A u \in Below(c[1]), v \in Below(c[2]) : SizeOf(m, u) < SizeOf(m, v)

\* tmalloc_large and tmalloc_small look at one path and one subtree and still find
\* the best fit of all large chunks that are free.
BestFit ==
  \A nb \in {ChunkSize(b) : b \in Requests} :
    LET best == BestOf(m, TreeBinned, nb)
        found == IF is_small(nb)
                   THEN IF NonEmptyTrees(m) = {} THEN Null ELSE SmallFit(m, nb)
                   ELSE LargeFit(m, nb)
    IN  IF best = Null THEN found = Null ELSE found # Null /\ SizeOf(m, found) = SizeOf(m, best)

\* The segments are the memory that is mapped and counted; top ends the first one
\* and is never used up; the record of another stands in that segment, in a chunk in
\* use that no caller holds; and nothing is below least_addr, so that no address
\* check takes a legal chunk for a bad one.
SegmentsHold ==
  LET own == {k \in 1..Len(m.segs) : ~m.segs[k].extern}
  IN  /\ m.mapped = UNION {Units(m.segs[k].base, m.segs[k].base + m.segs[k].size) : k \in own}
      /\ m.footprint = FoldLeft(LAMBDA n, seg : n + seg.size, 0, m.segs)
      /\ m.footprint >= FirstSegmentSize(0)
      /\ m.topsize > 0 /\ SizeOf(m, m.top) = m.topsize
      /\ m.top + m.topsize + TOP_FOOT_SIZE = m.segs[1].base + m.segs[1].size
      /\ \A k \in 2..Len(m.segs) :
           /\ Holds(m.segs[k], m.segs[k].rec)
           /\ m.heap[m.segs[k].rec].cinuse /\ SizeOf(m, m.segs[k].rec) >= SegmentRecordSize
      /\ Records \cap Held = {}
      /\ \A q \in DOMAIN m.heap : q >= m.least_addr

\* The callers' counts: what mallinfo reports as free is top, dv and the bins, and
\* the rest is enough for every block in use.
MallinfoAgrees ==
  LET size(q) == SizeOf(m, q)
      info == internal_mallinfo(m)
  IN  /\ info.fordblks = m.topsize + TOP_FOOT_SIZE + m.dvsize
                           + MapThenSumSet(size, SmallBinned) + MapThenSumSet(size, TreeBinned)
      /\ info.uordblks >= MapThenSumSet(size, Held)

\* destroy_mspace leaves no memory mapped that the mspace had got from the system.
DestroyGivesAll == Destroyed(m) = {}

\* A block that realloc, memalign or the independent_ routines return is at least as
\* long as asked, like any other, each element of a batch with its own bytes and the array
\* with its pointers, and the chunk memalign got has room for one at an
\* address with the alignment asked for.
BlocksLongEnough ==
  /\ \A p \in DOMAIN live : SizeOf(m, p) >= live[p] + CHUNK_OVERHEAD
  /\ \A t \in Threads :
       LET c == call[t]
       IN  /\ c.op = "free" => \A p \in DOMAIN c.ret : SizeOf(m, p) >= c.ret[p] + CHUNK_OVERHEAD
           /\ c.op = "align" =>
                LET pos == AlignedPlace(c.p, c.alignment)
                IN  /\ (pos + CHUNK_OVERHEAD) % c.alignment = 0
                    /\ NextChunk(m, c.p) - pos >= ChunkSize(c.bytes)

\* The system is asked for memory only when no free chunk is as long as the one
\* that is then returned, and top is not longer than it.
AsksSystemLast ==
  m'.footprint > m.footprint =>
    \E p \in Held' \ Held :
      /\ \A q \in FreeChunks : SizeOf(m, q) < SizeOf(m', p)
      /\ ~FitsTop(m, SizeOf(m', p))

SystemAskedLast == [][AsksSystemLast]_vars

\* What the callers see: their blocks, by the address of the first byte, as long as
\* the heads say.
Blocks == [a \in {p + CHUNK_OVERHEAD : p \in Held} |->
             Tag(m.heap, a - CHUNK_OVERHEAD).size - CHUNK_OVERHEAD]

Allocator == INSTANCE Heap WITH blocks <- Blocks

ImplementsHeap == Allocator!Spec

\* do_check_malloc_state: the heads tile the segments, every free chunk is in the one
\* place for it, and the trees of large ones are tries over their sizes.
MallocStateOK == TypeOK /\ ChunksTile /\ BinsExact /\ TreesWellFormed

\* Segments, footprint and mallinfo agree with what is mapped, and all of it can be
\* given back.
MemoryAccounted == SegmentsHold /\ MallinfoAgrees /\ DestroyGivesAll
=============================================================================
