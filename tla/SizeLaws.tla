------------------------------ MODULE SizeLaws ------------------------------
(***************************************************************************)
(* What the arithmetic of Sizes is to achieve, for one number n when the   *)
(* topic is sizes.                                                         *)
(***************************************************************************)
EXTENDS Sizes

ASSUME SizeLawsAssumption ==
  /\ Granularity + 128 <= 2^WordBits
  /\ Granularity > MStateSize + TOP_FOOT_SIZE
  /\ \A k \in 0..WordBits : 2^k \in Nat

VARIABLES topic, n

\* A chunk is aligned, holds the request n, its header and the footer behind it,
\* and wastes less than a minimal chunk.
RequestFits ==
  n < MAX_REQUEST =>
    LET nb == request2size(n)
    IN  /\ nb % MALLOC_ALIGNMENT = 0 /\ nb >= MIN_CHUNK_SIZE
        /\ n + CHUNK_OVERHEAD <= nb /\ nb < n + CHUNK_OVERHEAD + MIN_CHUNK_SIZE

\* Whatever the request, the memory asked of the system has room for the chunk
\* and what goes with it, or nothing is asked for: no sum that wrapped around
\* passes for a small request.
SystemRequestFits ==
  LET nb == ChunkSize(n)
  IN  /\ SegmentSize(nb) # NoSize => SegmentSize(nb) > nb + TOP_FOOT_SIZE
      /\ MmapSize(nb) # NoSize => MmapSize(nb) >= nb + MMAP_FOOT_PAD + CHUNK_OVERHEAD
      /\ FirstSegmentSize(n) \notin {NoSize, 0} =>
           FirstSegmentSize(n) >= (IF n = 0 THEN 1 ELSE n) + MStateSize + TOP_FOOT_SIZE

\* calloc asks for all the elements, or for so much that malloc refuses.
CallocFits(e) ==
  LET req == CallocRequest(n, e) IN req = n * e \/ req >= MAX_REQUEST

\* memalign asks for enough to cut an aligned chunk of the right size out of
\* whatever malloc returns, leaving nothing or at least a minimal chunk in
\* front, or for so much that malloc refuses.
MemalignFits(al) ==
  LET req == MemalignRequest(al, n)
  IN  \/ req = NoSize \/ req >= MAX_REQUEST
      \/ request2size(req) >= request2size(n) + al + MIN_CHUNK_SIZE

\* Other sizes, and alignments
FewSizes ==
  {s \in {0, 1, 2, 3, 5, 8, 15, 16, 31, 32, 64, 65, 100, 255, 256, 512, 2047} : s < SizeT}

\* However large a request, no size computed from it is too small for it: the chunk,
\* the segment, the region of its own, the array of calloc, the chunk of memalign.
SizesFit ==
  topic = "sizes" =>
    /\ RequestFits /\ SystemRequestFits
    /\ \A e \in FewSizes \cup {MAX_SIZE_T} : CallocFits(e)
    /\ \A al \in {MemalignAlignment(a) : a \in FewSizes} : MemalignFits(al)
=============================================================================
