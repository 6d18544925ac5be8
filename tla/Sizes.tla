------------------------------- MODULE Sizes --------------------------------
(***************************************************************************)
(* The size arithmetic of dlmalloc (malloc.c.h) as nedmalloc.c builds it,  *)
(* with footers: how a request becomes a chunk size, and what is asked of  *)
(* the operating system for it.  size_t has WordBits bits, and every sum   *)
(* wraps around.                                                           *)
(***************************************************************************)
EXTENDS Integers

CONSTANTS
  WordBits,     \* SIZE_T_BITSIZE
  PageSize,     \* mparams.page_size
  Granularity,  \* mparams.granularity
  MStateSize,   \* pad_request(sizeof(struct malloc_state))
  CallocMask    \* the 0xffff of mspace_calloc

ASSUME SizesAssumption ==
  /\ {WordBits, PageSize, Granularity, MStateSize, CallocMask} \subseteq Nat \ {0}
  /\ (CallocMask + 1) * (CallocMask + 1) <= 2^WordBits
  /\ 2^WordBits \in Nat /\ PageSize + 128 <= 2^WordBits

SIZE_T_SIZE == 8
MALLOC_ALIGNMENT == 8
SizeT == 2^WordBits
MAX_SIZE_T == SizeT - 1

RoundUp(n, unit) == LET s == (n + unit - 1) % SizeT IN s - (s % unit)

CHUNK_OVERHEAD == 2 * SIZE_T_SIZE
MIN_CHUNK_SIZE == 4 * SIZE_T_SIZE
MMAP_FOOT_PAD == 4 * SIZE_T_SIZE
MIN_REQUEST == MIN_CHUNK_SIZE - CHUNK_OVERHEAD - 1
MAX_REQUEST == SizeT - 4 * MIN_CHUNK_SIZE

pad_request(req) == RoundUp(req + CHUNK_OVERHEAD, MALLOC_ALIGNMENT)

request2size(req) == IF req < MIN_REQUEST THEN MIN_CHUNK_SIZE ELSE pad_request(req)

\* A segment record is 4 words; a segment keeps room for one and for fenceposts.
SegmentRecordSize == pad_request(4 * SIZE_T_SIZE)
TOP_FOOT_SIZE == SegmentRecordSize + MIN_CHUNK_SIZE
SYS_ALLOC_PADDING == TOP_FOOT_SIZE + MALLOC_ALIGNMENT

granularity_align(s) == RoundUp(s, Granularity)
mmap_align(s) == RoundUp(s, PageSize)

-----------------------------------------------------------------------------
(* What a routine asks for, or NoSize when it gives up instead. *)

NoSize == -1

\* mspace_malloc: the chunk size that is looked for
ChunkSize(bytes) == IF bytes >= MAX_REQUEST THEN MAX_SIZE_T ELSE request2size(bytes)

\* Mutated: what wrapped around zero is asked for as well.
SegmentSize_Unchecked(nb) == granularity_align(nb + SYS_ALLOC_PADDING)

\* sys_alloc: the size of a new segment
SegmentSize(nb) ==
  LET rsize == granularity_align(nb + SYS_ALLOC_PADDING)
  IN  IF rsize > nb THEN rsize ELSE NoSize

\* mmap_alloc and mmap_resize: the whole pages a chunk of nb bytes is to have
MmapRegion(nb) == mmap_align(nb + 6 * SIZE_T_SIZE + MALLOC_ALIGNMENT - 1)

\* mmap_alloc: the size of a region that is mapped for one chunk
MmapSize(nb) == IF MmapRegion(nb) > nb THEN MmapRegion(nb) ELSE NoSize

\* mspace_calloc: the request for n elements of e bytes
CallocRequest(n, e) ==
  LET req == (n * e) % SizeT
  IN  IF n # 0 /\ (n > CallocMask \/ e > CallocMask) /\ req \div n # e
        THEN MAX_SIZE_T ELSE req

\* internal_memalign: the alignment it works with
MemalignAlignment(alignment) ==
  IF alignment < MIN_CHUNK_SIZE THEN MIN_CHUNK_SIZE
  ELSE CHOOSE a \in {2^k : k \in 0..WordBits} :
         a >= alignment /\ \A k \in 0..WordBits : 2^k >= alignment => a <= 2^k

\* Mutated: no room to move on to the next aligned address.
MemalignRequest_NoLeader(alignment, bytes) ==
  IF bytes >= MAX_REQUEST - alignment THEN NoSize
  ELSE (request2size(bytes) + alignment - CHUNK_OVERHEAD) % SizeT

\* internal_memalign: the request it makes of malloc
MemalignRequest(alignment, bytes) ==
  IF bytes >= MAX_REQUEST - alignment THEN NoSize
  ELSE (request2size(bytes) + alignment + MIN_CHUNK_SIZE - CHUNK_OVERHEAD) % SizeT

\* create_mspace: the size of the first segment
FirstSegmentSize(capacity) ==
  IF capacity >= SizeT - (MStateSize + TOP_FOOT_SIZE + PageSize) THEN NoSize
  ELSE granularity_align(IF capacity = 0 THEN Granularity
                         ELSE capacity + TOP_FOOT_SIZE + MStateSize)
=============================================================================
