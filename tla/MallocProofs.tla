---------------------------- MODULE MallocProofs ----------------------------
(***************************************************************************)
(* The size arithmetic of malloc.c.h and its mapped chunks, for any values *)
(* of the constants.                                                       *)
(*                                                                         *)
(* First the laws of SizeLaws, for every width of a size_t, page size and  *)
(* granularity, and the lemmas about single routines on which the rest     *)
(* stands. Only the facts SizesAssumption states of 2^WordBits are used.   *)
(*                                                                         *)
(* Then MappingsAccounted and BlocksFit of Mmapped, for any number of      *)
(* threads, pages and requests. What the system, the heads and the         *)
(* footprint say is the invariant Accounted, with one lemma per thing that *)
(* can happen to a mapping: it is added, dropped, or its chunk shifted.    *)
(* Who has a chunk is Owned, and that blocks are long enough is Fits.      *)
(***************************************************************************)
EXTENDS Mmapped, SizeLaws, FiniteSetTheorems, WellFoundedInduction, TLAPS

-----------------------------------------------------------------------------
(* Sizes: the numbers. *)

\* The width of a size_t enters as one natural number.
LEMMA SizeTFacts ==
  /\ SizeT \in Nat /\ PageSize + 128 <= SizeT
  /\ {PageSize, Granularity, MStateSize, CallocMask} \subseteq Nat \ {0}
  /\ MAX_SIZE_T = SizeT - 1 /\ MAX_REQUEST = SizeT - 128
<1>1. SizeT \in Nat /\ PageSize + 128 <= SizeT
  BY SizesAssumption DEF SizeT
<1>2. {PageSize, Granularity, MStateSize, CallocMask} \subseteq Nat \ {0}
  BY SizesAssumption
<1> QED
  BY <1>1, <1>2 DEF MAX_SIZE_T, MAX_REQUEST, MIN_CHUNK_SIZE, SIZE_T_SIZE

\* Two factors up to CallocMask have a product that fits.
LEMMA CallocMaskFits == (CallocMask + 1) * (CallocMask + 1) <= SizeT
BY SizesAssumption DEF SizeT

-----------------------------------------------------------------------------
(* Rounding. *)

\* Without a wrap the result is the next multiple of the unit.
LEMMA RoundUpExact ==
  ASSUME NEW s \in Nat, NEW unit \in Nat \ {0}, s + unit - 1 < SizeT
  PROVE  /\ RoundUp(s, unit) \in Nat /\ RoundUp(s, unit) % unit = 0
         /\ s <= RoundUp(s, unit) /\ RoundUp(s, unit) < s + unit
<1> DEFINE w == s + unit - 1
           r == w % unit
<1>1. SizeT \in Nat /\ w \in Nat /\ w < SizeT
  BY SizeTFacts
<1>2. w % SizeT = w
  BY <1>1
<1>3. r \in 0..unit - 1
  BY <1>1
<1>4. RoundUp(s, unit) = w - r
  BY <1>2 DEF RoundUp
<1>5. w - r = unit * (w \div unit) /\ w \div unit \in Int
  BY <1>1
<1>6. \A a \in Int : (unit * a) % unit = 0
  OBVIOUS
<1> QED
  BY <1>1, <1>3, <1>4, <1>5, <1>6

\* A sum that wraps around rounds to less than what it wrapped by.
LEMMA RoundUpWraps ==
  ASSUME NEW s \in Nat, NEW unit \in Nat \ {0}, s + unit - 1 >= SizeT, s + unit - 1 < 2 * SizeT
  PROVE  /\ RoundUp(s, unit) \in Nat /\ RoundUp(s, unit) <= s + unit - 1 - SizeT
         /\ s + unit - 1 - SizeT < unit => RoundUp(s, unit) = 0
<1> DEFINE w == s + unit - 1
           v == w - SizeT
           r == v % unit
<1>1. SizeT \in Nat \ {0} /\ w \in Nat /\ v \in 0..SizeT - 1
  BY SizeTFacts
<1>2. w % SizeT = v
  BY <1>1
<1>3. r \in 0..unit - 1 /\ (v < unit => r = v)
  BY <1>1
<1>4. RoundUp(s, unit) = v - r
  BY <1>2 DEF RoundUp
<1>5. r <= v
  <2>1. \A a, b \in Nat : b # 0 => a % b <= a
    OBVIOUS
  <2> QED
    BY <1>1, <2>1
<1> QED
  BY <1>1, <1>3, <1>4, <1>5

-----------------------------------------------------------------------------
(* The sizes that one routine computes. *)

\* A request below MAX_REQUEST becomes an aligned chunk that holds it, its header and
\* its footer.
LEMMA ChunkOfRequest ==
  ASSUME NEW bytes \in Nat, bytes < MAX_REQUEST
  PROVE  /\ request2size(bytes) \in Nat /\ request2size(bytes) % MALLOC_ALIGNMENT = 0
         /\ MIN_CHUNK_SIZE <= request2size(bytes)
         /\ bytes + CHUNK_OVERHEAD <= request2size(bytes)
         /\ request2size(bytes) < bytes + CHUNK_OVERHEAD + MIN_CHUNK_SIZE
         /\ request2size(bytes) < MAX_SIZE_T
<1>1. SizeT \in Nat /\ bytes + 23 < SizeT
  BY SizeTFacts
<1>2. /\ pad_request(bytes) \in Nat /\ pad_request(bytes) % 8 = 0
      /\ bytes + 16 <= pad_request(bytes) /\ pad_request(bytes) < bytes + 24
  BY <1>1, RoundUpExact DEF pad_request, CHUNK_OVERHEAD, MALLOC_ALIGNMENT, SIZE_T_SIZE
<1>3. CASE bytes < MIN_REQUEST
  BY <1>3, SizeTFacts
     DEF request2size, MIN_REQUEST, MIN_CHUNK_SIZE, CHUNK_OVERHEAD, MALLOC_ALIGNMENT, SIZE_T_SIZE
<1>4. CASE ~(bytes < MIN_REQUEST)
  <2>1. pad_request(bytes) = 8 * (pad_request(bytes) \div 8)
    BY <1>2
  <2>2. pad_request(bytes) >= 32
    BY <1>2, <1>4, <2>1 DEF MIN_REQUEST, MIN_CHUNK_SIZE, CHUNK_OVERHEAD, SIZE_T_SIZE
  <2> QED
    BY <1>2, <1>4, <2>2, SizeTFacts
       DEF request2size, MIN_CHUNK_SIZE, CHUNK_OVERHEAD, MALLOC_ALIGNMENT, SIZE_T_SIZE
<1> QED
  BY <1>3, <1>4

\* The region mapped for a chunk is whole pages and has room for the chunk, its fake
\* neighbours and the alignment, and a length that wrapped around is refused.
LEMMA RegionOfChunk ==
  ASSUME NEW nb \in 0..MAX_SIZE_T, MmapSize(nb) # NoSize
  PROVE  /\ MmapSize(nb) \in 1..MAX_SIZE_T /\ MmapSize(nb) % PageSize = 0
         /\ MmapSize(nb) = MmapRegion(nb) /\ MmapSize(nb) >= nb + 55
<1>1. SizeT \in Nat /\ PageSize \in Nat \ {0} /\ PageSize + 128 <= SizeT /\ MAX_SIZE_T = SizeT - 1
  BY SizeTFacts
<1>2. MmapSize(nb) = RoundUp(nb + 55, PageSize) /\ MmapSize(nb) > nb /\ MmapSize(nb) = MmapRegion(nb)
  BY DEF MmapSize, MmapRegion, mmap_align, SIZE_T_SIZE, MALLOC_ALIGNMENT
<1>3. nb + 55 + PageSize - 1 < SizeT
  <2>1. SUFFICES ASSUME nb + 55 + PageSize - 1 >= SizeT PROVE FALSE
    BY <1>1
  <2>2. RoundUp(nb + 55, PageSize) <= nb + 55 + PageSize - 1 - SizeT
    BY <1>1, <2>1, RoundUpWraps
  <2> QED
    BY <1>1, <1>2, <2>2, RoundUpWraps, <2>1
<1> QED
  BY <1>1, <1>2, <1>3, RoundUpExact

\* memalign's request has room for the leader of either kind; nothing wraps around.
LEMMA RequestOfMemalign ==
  ASSUME NEW alignment \in Nat, NEW bytes \in Nat, MemalignRequest(alignment, bytes) # NoSize
  PROVE  /\ bytes < MAX_REQUEST
         /\ MemalignRequest(alignment, bytes) = request2size(bytes) + alignment + 16
         /\ MemalignRequest(alignment, bytes) \in 0..MAX_SIZE_T
<1>1. bytes < MAX_REQUEST - alignment /\ MAX_REQUEST = SizeT - 128 /\ SizeT \in Nat
  BY SizeTFacts DEF MemalignRequest
<1>2. /\ request2size(bytes) \in Nat
      /\ request2size(bytes) < bytes + CHUNK_OVERHEAD + MIN_CHUNK_SIZE
  BY <1>1, ChunkOfRequest
<1>3. request2size(bytes) + alignment + 16 < SizeT
  BY <1>1, <1>2 DEF MIN_CHUNK_SIZE, CHUNK_OVERHEAD, SIZE_T_SIZE
<1>4. (request2size(bytes) + alignment + 16) % SizeT = request2size(bytes) + alignment + 16
  BY <1>1, <1>2, <1>3
<1>5. MemalignRequest(alignment, bytes) = (request2size(bytes) + alignment + 16) % SizeT
  BY <1>1, <1>2 DEF MemalignRequest, MIN_CHUNK_SIZE, CHUNK_OVERHEAD, SIZE_T_SIZE
<1> QED
  BY <1>1, <1>2, <1>3, <1>4, <1>5, SizeTFacts

\* A segment that is asked for is larger than the chunk by all that goes with it.
LEMMA SegmentOfChunk ==
  ASSUME NEW nb \in 0..MAX_SIZE_T, SegmentSize(nb) # NoSize
  PROVE  SegmentSize(nb) > nb + TOP_FOOT_SIZE
<1>1. /\ SizeT \in Nat /\ PageSize \in Nat \ {0} /\ Granularity \in Nat \ {0}
      /\ PageSize + 128 <= SizeT /\ Granularity + 128 <= SizeT /\ MAX_SIZE_T = SizeT - 1
  BY SizeTFacts, SizeLawsAssumption DEF SizeT
<1>2. TOP_FOOT_SIZE = 80 /\ SYS_ALLOC_PADDING = 88
  <2>1. SegmentRecordSize = 48
    BY <1>1 DEF SegmentRecordSize, pad_request, RoundUp, CHUNK_OVERHEAD, MALLOC_ALIGNMENT, SIZE_T_SIZE
  <2> QED
    BY <2>1 DEF TOP_FOOT_SIZE, SYS_ALLOC_PADDING, MIN_CHUNK_SIZE, MALLOC_ALIGNMENT, SIZE_T_SIZE
<1>3. SegmentSize(nb) = RoundUp(nb + 88, Granularity) /\ SegmentSize(nb) > nb
  BY <1>2 DEF SegmentSize, granularity_align
<1>4. nb + 88 + Granularity - 1 < SizeT
  <2>1. SUFFICES ASSUME nb + 88 + Granularity - 1 >= SizeT PROVE FALSE
    BY <1>1
  <2>2. RoundUp(nb + 88, Granularity) <= nb + 88 + Granularity - 1 - SizeT
    BY <1>1, <2>1, RoundUpWraps
  <2> QED
    BY <1>1, <1>3, <2>1, <2>2, RoundUpWraps
<1> QED
  BY <1>1, <1>2, <1>3, <1>4, RoundUpExact

\* The first segment of an mspace has room for what was asked, the mspace's own state
\* and the foot; a length that wrapped around is none at all.
LEMMA FirstSegmentOfCapacity ==
  ASSUME NEW capacity \in 0..MAX_SIZE_T, FirstSegmentSize(capacity) \notin {NoSize, 0}
  PROVE  FirstSegmentSize(capacity)
           >= (IF capacity = 0 THEN 1 ELSE capacity) + MStateSize + TOP_FOOT_SIZE
<1>1. /\ SizeT \in Nat /\ {PageSize, Granularity, MStateSize} \subseteq Nat \ {0}
      /\ Granularity + 128 <= SizeT /\ PageSize + 128 <= SizeT /\ MAX_SIZE_T = SizeT - 1
  BY SizeTFacts, SizeLawsAssumption DEF SizeT
<1>2. TOP_FOOT_SIZE = 80
  <2>1. SegmentRecordSize = 48
    BY <1>1 DEF SegmentRecordSize, pad_request, RoundUp, CHUNK_OVERHEAD, MALLOC_ALIGNMENT, SIZE_T_SIZE
  <2> QED
    BY <2>1 DEF TOP_FOOT_SIZE, MIN_CHUNK_SIZE, SIZE_T_SIZE
<1> DEFINE bytes == IF capacity = 0 THEN Granularity ELSE capacity + 80 + MStateSize
<1>3. /\ bytes \in Nat /\ bytes < SizeT
      /\ bytes >= (IF capacity = 0 THEN 1 ELSE capacity) + MStateSize + TOP_FOOT_SIZE
  BY <1>1, <1>2, SizeLawsAssumption DEF FirstSegmentSize
<1>4. FirstSegmentSize(capacity) = RoundUp(bytes, Granularity)
  BY <1>2 DEF FirstSegmentSize, granularity_align
<1>5. bytes + Granularity - 1 < SizeT
  <2>1. SUFFICES ASSUME bytes + Granularity - 1 >= SizeT PROVE FALSE
    BY <1>1, <1>3
  <2>2. RoundUp(bytes, Granularity) = 0
    BY <1>1, <1>3, <2>1, RoundUpWraps
  <2> QED
    BY <1>4, <2>2
<1>6. bytes <= RoundUp(bytes, Granularity) /\ RoundUp(bytes, Granularity) \in Nat
  BY <1>1, <1>3, <1>5, RoundUpExact
<1> HIDE DEF bytes
<1> QED
  BY <1>1, <1>2, <1>3, <1>4, <1>6

\* calloc's test of the product finds every product that wrapped around.
LEMMA CallocExact ==
  ASSUME NEW k \in 0..MAX_SIZE_T, NEW e \in 0..MAX_SIZE_T
  PROVE  CallocRequest(k, e) = k * e \/ CallocRequest(k, e) >= MAX_REQUEST
<1>1. /\ SizeT \in Nat \ {0} /\ CallocMask \in Nat \ {0} /\ MAX_SIZE_T \in Nat
      /\ (CallocMask + 1) * (CallocMask + 1) <= SizeT /\ MAX_REQUEST <= MAX_SIZE_T
  BY SizeTFacts, CallocMaskFits
<1> DEFINE product == k * e
           req == product % SizeT
<1>2. k \in Nat /\ e \in Nat /\ product \in Nat
  BY <1>1
<1>3. CASE product < SizeT
  <2>1. req = product
    BY <1>1, <1>2, <1>3
  <2> QED
    BY <2>1, <1>1 DEF CallocRequest
<1>4. CASE product >= SizeT
  <2>1. k # 0
    BY <1>1, <1>2, <1>4
  <2>2. k > CallocMask \/ e > CallocMask
    <3>1. SUFFICES ASSUME k <= CallocMask, e <= CallocMask PROVE FALSE
      BY <1>1, <1>2
    <3>2. product <= CallocMask * CallocMask
      BY <1>1, <1>2, <3>1
    <3>3. CallocMask * CallocMask < (CallocMask + 1) * (CallocMask + 1)
      BY <1>1
    <3> QED
      BY <1>1, <1>2, <1>4, <3>2, <3>3
  <2>3. req \div k # e
    <3>1. req \in Nat /\ req < SizeT
      BY <1>1, <1>2
    <3>2. SUFFICES ASSUME req \div k = e PROVE FALSE
      OBVIOUS
    <3>3. \A a \in Nat, b \in Nat \ {0} : b * (a \div b) <= a
      <4>1. \A a \in Nat, b \in Nat \ {0} : a % b = a - b * (a \div b) /\ a % b \in 0..b - 1
        OBVIOUS
      <4>2. \A a \in Nat, b \in Nat \ {0} : a \div b \in Int /\ b * (a \div b) \in Int
        OBVIOUS
      <4> QED
        BY <4>1, <4>2
    <3>4. k * (req \div k) <= req
      <4> HIDE DEF req
      <4> QED
        BY <1>2, <2>1, <3>1, <3>3
    <3> QED
      BY <1>1, <1>2, <1>4, <3>1, <3>2, <3>4
  <2> QED
    BY <1>1, <2>1, <2>2, <2>3 DEF CallocRequest
<1> QED
  BY <1>1, <1>2, <1>3, <1>4

\* The chunk of memalign's request holds the aligned chunk and a leader.
LEMMA ChunkOfMemalign ==
  ASSUME NEW alignment \in Nat, NEW bytes \in Nat
  PROVE  LET req == MemalignRequest(alignment, bytes)
         IN  \/ req = NoSize \/ req >= MAX_REQUEST
             \/ request2size(req) >= request2size(bytes) + alignment + MIN_CHUNK_SIZE
<1> DEFINE req == MemalignRequest(alignment, bytes)
<1>1. SUFFICES ASSUME req # NoSize, req < MAX_REQUEST
               PROVE  request2size(req) >= request2size(bytes) + alignment + MIN_CHUNK_SIZE
  BY SizeTFacts, RequestOfMemalign
<1>2. /\ bytes < MAX_REQUEST /\ req = request2size(bytes) + alignment + 16
      /\ req \in 0..MAX_SIZE_T
  BY <1>1, RequestOfMemalign
<1>3. request2size(req) >= req + CHUNK_OVERHEAD /\ request2size(req) \in Nat
  BY <1>1, <1>2, ChunkOfRequest, SizeTFacts
<1>4. request2size(bytes) \in Nat
  BY <1>2, ChunkOfRequest
<1> QED
  BY <1>2, <1>3, <1>4 DEF CHUNK_OVERHEAD, MIN_CHUNK_SIZE, SIZE_T_SIZE

-----------------------------------------------------------------------------
(* The laws together. *)

\* A nonempty set of numbers has a least one.
LEMMA LeastNumber ==
  ASSUME NEW T \in SUBSET Nat, T # {}
  PROVE  \E least \in T : \A m \in T : least <= m
<1> DEFINE R == OpToRel(<, Nat)
<1>1. IsWellFoundedOn(R, Nat)
  BY NatLessThanWellFounded
<1> HIDE DEF R
<1>2. PICK least \in T : \A m \in T : ~(<<m, least>> \in R)
  BY <1>1, WFMin
<1>3. \A m, k \in Nat : <<m, k>> \in R <=> m < k
  BY DEF R, OpToRel
<1>4. ASSUME NEW m \in T PROVE least <= m
  <2>1. ~(<<m, least>> \in R) /\ m \in Nat /\ least \in Nat
    BY <1>2
  <2>2. ~(m < least)
    BY <1>3, <2>1
  <2> QED
    BY <2>1, <2>2
<1> QED
  BY <1>4

\* memalign works with a power of two that is at least what was asked for.
LEMMA AlignmentOfMemalign ==
  ASSUME NEW alignment \in Nat, alignment <= SizeT
  PROVE  MemalignAlignment(alignment) \in Nat /\ MemalignAlignment(alignment) >= alignment
<1> DEFINE Powers == {2^k : k \in 0..WordBits}
           Enough == {a \in Powers : a >= alignment}
           IsNext(a) == a >= alignment /\ \A k \in 0..WordBits : 2^k >= alignment => a <= 2^k
<1>1. Powers \subseteq Nat /\ SizeT \in Powers
  BY SizeLawsAssumption, SizesAssumption DEF SizeT
<1>2. PICK least \in Enough : \A m \in Enough : least <= m
  <2>1. Enough \in SUBSET Nat /\ Enough # {}
    BY <1>1
  <2> HIDE DEF Enough
  <2> QED
    BY <2>1, LeastNumber
<1>3. least \in Powers /\ IsNext(least)
  <2>1. \A k \in 0..WordBits : 2^k >= alignment => 2^k \in Enough
    OBVIOUS
  <2> QED
    BY <1>2, <2>1
<1>4. CASE alignment < MIN_CHUNK_SIZE
  BY <1>4 DEF MemalignAlignment, MIN_CHUNK_SIZE, SIZE_T_SIZE
<1>5. CASE ~(alignment < MIN_CHUNK_SIZE)
  <2>1. MemalignAlignment(alignment) = CHOOSE a \in Powers : IsNext(a)
    BY <1>5 DEF MemalignAlignment
  <2> HIDE DEF IsNext, Powers
  <2>2. MemalignAlignment(alignment) \in Powers /\ IsNext(MemalignAlignment(alignment))
    BY <1>3, <2>1
  <2> QED
    BY <1>1, <2>2 DEF IsNext
<1> QED
  BY <1>4, <1>5

\* Whatever the width of a size_t, no size computed from a request is too small for
\* it: the chunk, the segment, the region of its own, the array of calloc and the
\* chunk memalign cuts from.
THEOREM SizesAlwaysFit == n \in 0..MAX_SIZE_T => SizesFit
<1> SUFFICES ASSUME n \in 0..MAX_SIZE_T PROVE SizesFit
  OBVIOUS
<1>1. /\ SizeT \in Nat \ {0} /\ MAX_SIZE_T = SizeT - 1 /\ MAX_REQUEST = SizeT - 128
      /\ n \in Nat
  BY SizeTFacts
<1>2. RequestFits
  BY <1>1, ChunkOfRequest DEF RequestFits
<1>3. SystemRequestFits
  <2>1. ChunkSize(n) \in 0..MAX_SIZE_T
    BY <1>1, ChunkOfRequest DEF ChunkSize
  <2>2. SegmentSize(ChunkSize(n)) # NoSize => SegmentSize(ChunkSize(n)) > ChunkSize(n) + TOP_FOOT_SIZE
    BY <2>1, SegmentOfChunk
  <2>3. MmapSize(ChunkSize(n)) # NoSize =>
          MmapSize(ChunkSize(n)) >= ChunkSize(n) + MMAP_FOOT_PAD + CHUNK_OVERHEAD
    BY <1>1, <2>1, RegionOfChunk DEF MMAP_FOOT_PAD, CHUNK_OVERHEAD, SIZE_T_SIZE
  <2>4. FirstSegmentSize(n) \notin {NoSize, 0} =>
          FirstSegmentSize(n) >= (IF n = 0 THEN 1 ELSE n) + MStateSize + TOP_FOOT_SIZE
    BY <1>1, FirstSegmentOfCapacity
  <2> QED
    BY <2>2, <2>3, <2>4 DEF SystemRequestFits
<1>4. ASSUME NEW e \in FewSizes \cup {MAX_SIZE_T} PROVE CallocFits(e)
  <2>1. e \in 0..MAX_SIZE_T
    BY <1>1 DEF FewSizes
  <2> QED
    BY <1>1, <2>1, CallocExact DEF CallocFits
<1>5. ASSUME NEW al \in {MemalignAlignment(a) : a \in FewSizes} PROVE MemalignFits(al)
  <2>1. PICK a \in FewSizes : al = MemalignAlignment(a)
    OBVIOUS
  <2>2. a \in Nat /\ a <= SizeT
    BY <1>1 DEF FewSizes
  <2>3. al \in Nat
    BY <2>1, <2>2, AlignmentOfMemalign
  <2> QED
    BY <1>1, <2>3, ChunkOfMemalign DEF MemalignFits
<1> QED
  BY <1>2, <1>3, <1>4, <1>5 DEF SizesFit

-----------------------------------------------------------------------------
(* Functions with one place changed. *)

LEMMA WithLemma ==
  ASSUME NEW f, NEW p, NEW v
  PROVE  /\ DOMAIN With(f, p, v) = DOMAIN f \cup {p}
         /\ With(f, p, v)[p] = v
         /\ \A x \in DOMAIN f : x # p => With(f, p, v)[x] = f[x]
BY DEF With

LEMMA WithoutLemma ==
  ASSUME NEW f, NEW p
  PROVE  /\ DOMAIN Without(f, p) = DOMAIN f \ {p}
         /\ \A x \in DOMAIN f \ {p} : Without(f, p)[x] = f[x]
BY DEF Without, Restrict

-----------------------------------------------------------------------------
(* Pages and ranges of them. *)

LEMMA PageFacts ==
  /\ PageSize \in Nat \ {0} /\ SizeT \in Nat
  /\ \A a \in Pages : a \in Nat \ {0} /\ a % PageSize = 0 /\ a >= PageSize
<1>1. PageSize \in Nat \ {0} /\ SizeT \in Nat
  BY SizeTFacts
<1>2. ASSUME NEW a \in Pages PROVE a \in Nat \ {0} /\ a % PageSize = 0 /\ a >= PageSize
  <2>1. a \in Nat \ {0} /\ a % PageSize = 0
    BY MmappedAssumption
  <2>2. a < PageSize => a % PageSize = a
    BY <1>1, <2>1
  <2> QED
    BY <1>1, <2>1, <2>2
<1> QED
  BY <1>1, <1>2

\* Two multiples of the page size are a page apart.
LEMMA MultiplesApart ==
  ASSUME NEW a \in Int, NEW b \in Int, a % PageSize = 0, b % PageSize = 0, a < b
  PROVE  a + PageSize <= b /\ (a + PageSize) % PageSize = 0
<1> DEFINE i == a \div PageSize
           j == b \div PageSize
<1>1. PageSize \in Nat \ {0}
  BY PageFacts
<1>2. i \in Int /\ j \in Int /\ a = PageSize * i /\ b = PageSize * j
  BY <1>1
<1> HIDE DEF i, j
<1>3. i < j
  BY <1>1, <1>2
<1>4. PageSize * j >= PageSize * i + PageSize
  BY <1>1, <1>2, <1>3
<1>5. a + PageSize = PageSize * (i + 1) + 0
  BY <1>1, <1>2
<1>6. (a + PageSize) % PageSize = 0
  BY <1>1, <1>2, <1>5
<1> QED
  BY <1>2, <1>4, <1>6

\* A range that the system has given is all pages: it has a page around each of its
\* addresses.
LEMMA RangeIsPages ==
  ASSUME NEW start \in Pages, NEW len \in Nat, len % PageSize = 0,
         Cardinality(PagesOf(start, len)) * PageSize = len,
         NEW x \in start..start + len - 1
  PROVE  x - (x % PageSize) \in PagesOf(start, len)
<1> DEFINE k == len \div PageSize
           M == {start + i * PageSize : i \in 0..k - 1}
           f == [i \in 0..k - 1 |-> start + i * PageSize]
<1>1. PageSize \in Nat \ {0} /\ start \in Nat /\ start % PageSize = 0
  BY PageFacts
<1>2. k \in Nat /\ len = PageSize * k
  BY <1>1
<1> HIDE DEF k
<1>3. IsFiniteSet(M) /\ Cardinality(M) = k
  <2>1. IsFiniteSet(0..k - 1) /\ Cardinality(0..k - 1) = k
    <3>1. 0 \in Int /\ k - 1 \in Int
      BY <1>2
    <3>2. /\ IsFiniteSet(0..k - 1)
          /\ Cardinality(0..k - 1) = IF 0 > k - 1 THEN 0 ELSE (k - 1) - 0 + 1
      BY <3>1, FS_Interval
    <3> QED
      BY <1>2, <3>2
  <2>2. f \in Bijection(0..k - 1, M)
    <3>1. \A i, j \in 0..k - 1 : i # j => start + i * PageSize # start + j * PageSize
      BY <1>1, <1>2
    <3> QED
      BY <3>1 DEF Bijection, Injection, Surjection, IsInjective
  <2>3. ExistsBijection(0..k - 1, M)
    BY <2>2 DEF ExistsBijection
  <2> QED
    BY <2>1, <2>3, FS_Bijection
<1>4. \A a \in start..start + len - 1 : a % PageSize = 0 => a \in M
  <2> SUFFICES ASSUME NEW a \in start..start + len - 1, a % PageSize = 0 PROVE a \in M
    OBVIOUS
  <2> DEFINE i == a \div PageSize
             s == start \div PageSize
  <2>1. i \in Int /\ s \in Int /\ a = PageSize * i /\ start = PageSize * s
    BY <1>1, <1>2
  <2> HIDE DEF i, s
  <2>2. i - s \in 0..k - 1
    BY <1>1, <1>2, <2>1
  <2>3. a = start + (i - s) * PageSize
    BY <1>1, <2>1
  <2> QED
    BY <2>2, <2>3
<1>5. PagesOf(start, len) \subseteq M
  <2> SUFFICES ASSUME NEW a \in PagesOf(start, len) PROVE a \in M
    OBVIOUS
  <2>1. a \in Nat /\ a % PageSize = 0 /\ start < a + PageSize /\ a < start + len
    BY PageFacts DEF PagesOf
  <2>2. ~(a < start)
    BY <1>1, <2>1, MultiplesApart
  <2>3. a \in start..start + len - 1
    BY <1>1, <2>1, <2>2
  <2> HIDE DEF M
  <2> QED
    BY <1>4, <2>1, <2>3
<1>6. PagesOf(start, len) = M
  <2>1. IsFiniteSet(PagesOf(start, len)) /\ PagesOf(start, len) \in SUBSET M
    BY <1>3, <1>5, FS_Subset
  <2>2. Cardinality(PagesOf(start, len)) \in Nat
    BY <2>1, FS_CardinalityType
  <2>3. Cardinality(PagesOf(start, len)) = k
    BY <1>1, <1>2, <2>2
  <2> QED
    BY <1>3, <2>1, <2>3, FS_Subset
<1>7. x - (x % PageSize) \in start..start + len - 1 /\ (x - (x % PageSize)) % PageSize = 0
  <2> DEFINE i == x \div PageSize
             s == start \div PageSize
  <2>1. i \in Int /\ s \in Int /\ x - (x % PageSize) = PageSize * i /\ start = PageSize * s
    BY <1>1, <1>2
  <2>2. x % PageSize \in 0..PageSize - 1 /\ x \in Int
    BY <1>1
  <2> HIDE DEF i, s
  <2>3. (PageSize * i) % PageSize = 0
    BY <1>1, <2>1
  <2>4. i >= s
    BY <1>1, <1>2, <2>1, <2>2
  <2> QED
    BY <1>1, <1>2, <2>1, <2>2, <2>3, <2>4
<1> QED
  BY <1>4, <1>6, <1>7

-----------------------------------------------------------------------------
(* The mappings and the footprint. *)

AChunk == [size : 0..SizeT - 1, offset : Nat]

\* c is the head of a chunk at p with a whole mapping around its address.
Mapping(p, c) == PagesOf(Start(p, c), Length(c))

WellMapped(p, c) ==
  /\ c \in AChunk /\ p \in Nat \ {0}
  /\ Start(p, c) \in Pages /\ Length(c) % PageSize = 0 /\ c.offset < Length(c)
  /\ Cardinality(Mapping(p, c)) * PageSize = Length(c)

\* The parts of MappingsAccounted about mapped, chunks and footprint, for values of
\* them, and that the address of a chunk is in its mapping.
Accounted(m, ch, fp) ==
  /\ m \subseteq Pages /\ IsFiniteSet(m) /\ fp = PageSize * Cardinality(m)
  /\ \A p \in DOMAIN ch : WellMapped(p, ch[p]) /\ Mapping(p, ch[p]) \subseteq m
  /\ \A p, q \in DOMAIN ch : p # q => Mapping(p, ch[p]) \cap Mapping(q, ch[q]) = {}

\* The length of a chunk's mapping is read back as it was written, also when the
\* size between wraps around.
LEMMA DirectChunkLength ==
  ASSUME NEW len \in 1..MAX_SIZE_T, NEW offset \in Nat, offset < len
  PROVE  /\ DirectChunk(len, offset) \in AChunk /\ DirectChunk(len, offset).offset = offset
         /\ Length(DirectChunk(len, offset)) = len
         /\ len >= 32 + offset => DirectChunk(len, offset).size = len - offset - 32
<1> DEFINE s == (len - offset - 32) % SizeT
<1>1. SizeT \in Nat /\ SizeT > 128 /\ len < SizeT /\ len \in Nat /\ MAX_SIZE_T = SizeT - 1
  <2> HIDE DEF s
  <2> QED
    BY SizeTFacts
<1>2. DirectChunk(len, offset) = [size |-> s, offset |-> offset]
  BY DEF DirectChunk, MMAP_FOOT_PAD, SIZE_T_SIZE
<1>3. CASE len >= 32 + offset
  <2>1. s = len - offset - 32
    BY <1>1, <1>3
  <2>2. (s + offset + 32) % SizeT = len
    BY <1>1, <2>1
  <2> QED
    BY <1>1, <1>2, <1>3, <2>1, <2>2 DEF AChunk, Length, MMAP_FOOT_PAD, SIZE_T_SIZE
<1>4. CASE len < 32 + offset
  <2>1. len - offset - 32 = SizeT * (-1) + (SizeT + len - offset - 32)
    BY <1>1
  <2>2. SizeT + len - offset - 32 \in 0..SizeT - 1
    BY <1>1, <1>4
  <2>3. s = SizeT + len - offset - 32
    BY <1>1, <2>1, <2>2
  <2>4. s + offset + 32 = SizeT * 1 + len
    BY <1>1, <2>3
  <2>5. (s + offset + 32) % SizeT = len
    BY <1>1, <2>4
  <2> QED
    BY <1>1, <1>2, <1>4, <2>2, <2>3, <2>5 DEF AChunk, Length, MMAP_FOOT_PAD, SIZE_T_SIZE
<1> QED
  BY <1>1, <1>3, <1>4

LEMMA LengthType == ASSUME NEW c \in AChunk PROVE Length(c) \in Nat
BY PageFacts, SizeTFacts DEF AChunk, Length, MMAP_FOOT_PAD, SIZE_T_SIZE

\* The page around the address of a chunk belongs to its mapping.
LEMMA PageAround ==
  ASSUME NEW p, NEW c, WellMapped(p, c)
  PROVE  p - (p % PageSize) \in Mapping(p, c)
<1>1. /\ p \in Nat /\ c.offset \in Nat /\ Length(c) \in Nat /\ c.offset < Length(c)
      /\ Start(p, c) \in Pages /\ Length(c) % PageSize = 0
      /\ Cardinality(PagesOf(Start(p, c), Length(c))) * PageSize = Length(c)
  BY LengthType DEF WellMapped, AChunk, Mapping
<1>2. p \in Start(p, c)..Start(p, c) + Length(c) - 1
  BY <1>1 DEF Start
<1> QED
  BY <1>1, <1>2, RangeIsPages DEF Mapping

\* A chunk that is freed, or that is moved elsewhere, takes its pages along.
LEMMA DropMapping ==
  ASSUME NEW m, NEW ch, NEW fp, Accounted(m, ch, fp), NEW p \in DOMAIN ch
  PROVE  /\ Accounted(m \ Mapping(p, ch[p]), Without(ch, p), fp - Length(ch[p]))
         /\ Accounted(m, Without(ch, p), fp)
<1> DEFINE rest == m \ Mapping(p, ch[p])
<1>1. \A q \in DOMAIN Without(ch, p) : q \in DOMAIN ch /\ q # p /\ Without(ch, p)[q] = ch[q]
  BY WithoutLemma
<1>2. /\ \A q \in DOMAIN Without(ch, p) :
           /\ WellMapped(q, Without(ch, p)[q]) /\ Mapping(q, Without(ch, p)[q]) \subseteq m
           /\ Mapping(q, Without(ch, p)[q]) \subseteq rest
      /\ \A q, r \in DOMAIN Without(ch, p) :
           q # r => Mapping(q, Without(ch, p)[q]) \cap Mapping(r, Without(ch, p)[r]) = {}
  BY <1>1 DEF Accounted
<1>3. Accounted(m, Without(ch, p), fp)
  BY <1>2 DEF Accounted
<1>4. IsFiniteSet(rest) /\ fp - Length(ch[p]) = PageSize * Cardinality(rest)
  <2>1. /\ IsFiniteSet(m) /\ Mapping(p, ch[p]) \subseteq m /\ fp = PageSize * Cardinality(m)
        /\ Cardinality(Mapping(p, ch[p])) * PageSize = Length(ch[p])
    BY DEF Accounted, WellMapped
  <2>2. m \cap Mapping(p, ch[p]) = Mapping(p, ch[p])
    BY <2>1
  <2>3. IsFiniteSet(rest) /\ Cardinality(rest) = Cardinality(m) - Cardinality(Mapping(p, ch[p]))
    BY <2>1, <2>2, FS_Difference
  <2>4. Cardinality(m) \in Nat /\ Cardinality(Mapping(p, ch[p])) \in Nat /\ PageSize \in Nat
    BY <2>1, FS_CardinalityType, FS_Subset, PageFacts
  <2> QED
    BY <2>1, <2>3, <2>4
<1>5. rest \subseteq Pages
  BY DEF Accounted
<1> QED
  BY <1>2, <1>3, <1>4, <1>5 DEF Accounted

\* A region that the system gives becomes the mapping of a chunk at an address that
\* no chunk has.
LEMMA AddMapping ==
  ASSUME NEW m, NEW ch, NEW fp, Accounted(m, ch, fp),
         NEW len \in 1..MAX_SIZE_T, NEW offset \in Nat, len % PageSize = 0, offset < len,
         NEW place \in PlacesIn(Pages \ m, len)
  PROVE  /\ place + offset \notin DOMAIN ch /\ place + offset \in Nat \ {0}
         /\ Accounted(m \cup PagesOf(place, len),
                      With(ch, place + offset, DirectChunk(len, offset)), fp + len)
<1> DEFINE c == DirectChunk(len, offset)
           p == place + offset
           new == With(ch, p, c)
           pages == PagesOf(place, len)
<1>1. /\ PageSize \in Nat \ {0} /\ place \in Pages /\ place \in Nat \ {0} /\ len \in Nat
      /\ pages \subseteq Pages /\ pages \cap m = {} /\ Cardinality(pages) * PageSize = len
  BY PageFacts, SizeTFacts DEF PlacesIn, PagesOf
<1>2. c \in AChunk /\ c.offset = offset /\ Length(c) = len /\ Start(p, c) = place
  BY <1>1, DirectChunkLength DEF Start
<1> HIDE DEF c
<1>3. Mapping(p, c) = pages
  BY <1>2 DEF Mapping
<1>4. WellMapped(p, c)
  BY <1>1, <1>2, <1>3 DEF WellMapped
<1>5. p \notin DOMAIN ch
  <2>1. SUFFICES ASSUME p \in DOMAIN ch PROVE FALSE
    OBVIOUS
  <2>2. WellMapped(p, ch[p]) /\ Mapping(p, ch[p]) \subseteq m
    BY <2>1 DEF Accounted
  <2>3. p - (p % PageSize) \in pages /\ p - (p % PageSize) \in m
    BY <1>3, <1>4, <2>2, PageAround
  <2> QED
    BY <1>1, <2>3
<1>6. /\ DOMAIN new = DOMAIN ch \cup {p} /\ new[p] = c
      /\ \A q \in DOMAIN ch : q # p /\ new[q] = ch[q]
  <2> HIDE DEF p
  <2> QED
    BY <1>5 DEF With
<1>7. IsFiniteSet(m \cup pages) /\ fp + len = PageSize * Cardinality(m \cup pages)
  <2>1. IsFiniteSet(m) /\ fp = PageSize * Cardinality(m)
    BY DEF Accounted
  <2>2. IsFiniteSet(pages)
    <3>1. \A a \in pages : a \in 0..place + len
      BY <1>1, PageFacts DEF PagesOf
    <3>2. 0 \in Int /\ place + len \in Int
      BY <1>1
    <3> QED
      BY <3>1, <3>2, FS_Interval, FS_Subset
  <2>3. Cardinality(m \cap pages) = 0
    <3>1. m \cap pages = {}
      BY <1>1
    <3> QED
      BY <3>1, FS_EmptySet
  <2>4. /\ IsFiniteSet(m \cup pages)
        /\ Cardinality(m \cup pages)
             = Cardinality(m) + Cardinality(pages) - Cardinality(m \cap pages)
    BY <2>1, <2>2, FS_Union
  <2>5. Cardinality(m) \in Nat /\ Cardinality(pages) \in Nat
    BY <2>1, <2>2, FS_CardinalityType
  <2> HIDE DEF pages
  <2>6. Cardinality(m \cup pages) = Cardinality(m) + Cardinality(pages)
    BY <2>3, <2>4, <2>5
  <2> QED
    BY <1>1, <2>1, <2>4, <2>5, <2>6
<1>8. /\ \A q \in DOMAIN new : WellMapped(q, new[q]) /\ Mapping(q, new[q]) \subseteq m \cup pages
      /\ \A q, r \in DOMAIN new : q # r => Mapping(q, new[q]) \cap Mapping(r, new[r]) = {}
  <2> HIDE DEF new, p, pages
  <2>1. \A q \in DOMAIN ch : WellMapped(q, ch[q]) /\ Mapping(q, ch[q]) \subseteq m
    BY DEF Accounted
  <2>2. \A q, r \in DOMAIN ch : q # r => Mapping(q, ch[q]) \cap Mapping(r, ch[r]) = {}
    BY DEF Accounted
  <2>3. \A q \in DOMAIN ch : Mapping(q, ch[q]) \cap pages = {}
    BY <1>1, <2>1
  <2> QED
    BY <1>3, <1>4, <1>6, <2>1, <2>2, <2>3
<1>9. m \cup pages \subseteq Pages
  BY <1>1 DEF Accounted
<1> QED
  BY <1>1, <1>5, <1>7, <1>8, <1>9 DEF Accounted, c

\* memalign moves a chunk inside its mapping and takes no other's address.
LEMMA ShiftChunk ==
  ASSUME NEW m, NEW ch, NEW fp, Accounted(m, ch, fp), NEW p \in DOMAIN ch,
         NEW lead \in Nat, lead <= ch[p].size, ch[p].offset = 0, lead < Length(ch[p])
  PROVE  /\ p + lead \in Nat \ {0} /\ (lead # 0 => p + lead \notin DOMAIN ch)
         /\ Accounted(m, With(Without(ch, p), p + lead, MovedChunk(ch[p], lead)), fp)
<1> DEFINE c == MovedChunk(ch[p], lead)
           pos == p + lead
           rest == Without(ch, p)
           new == With(rest, pos, c)
<1>1. ch[p] \in AChunk /\ WellMapped(p, ch[p]) /\ Mapping(p, ch[p]) \subseteq m /\ p \in Nat \ {0}
  BY DEF Accounted, WellMapped
<1>2. /\ c \in AChunk /\ c.offset = lead
      /\ Length(c) = Length(ch[p]) /\ Start(pos, c) = Start(p, ch[p])
  <2>1. /\ ch[p].size \in 0..SizeT - 1 /\ SizeT \in Nat
        /\ c = [size |-> ch[p].size - lead, offset |-> lead]
    BY <1>1, PageFacts DEF AChunk, MovedChunk
  <2>2. (ch[p].size - lead) + lead = ch[p].size
    BY <2>1
  <2> QED
    BY <1>1, <2>1, <2>2 DEF AChunk, Length, Start
<1> HIDE DEF c
<1>3. Mapping(pos, c) = Mapping(p, ch[p])
  BY <1>2 DEF Mapping
<1>4. WellMapped(pos, c)
  BY <1>1, <1>2, <1>3 DEF WellMapped
<1>5. /\ DOMAIN rest = DOMAIN ch \ {p}
      /\ \A q \in DOMAIN rest : rest[q] = ch[q]
  BY WithoutLemma
<1>6. pos \notin DOMAIN rest
  <2>1. SUFFICES ASSUME pos \in DOMAIN ch, pos # p PROVE FALSE
    BY <1>5
  <2>2. WellMapped(pos, ch[pos]) /\ Mapping(pos, ch[pos]) \cap Mapping(p, ch[p]) = {}
    BY <2>1 DEF Accounted
  <2>3. /\ pos - (pos % PageSize) \in Mapping(pos, ch[pos])
        /\ pos - (pos % PageSize) \in Mapping(p, ch[p])
    BY <1>3, <1>4, <2>2, PageAround
  <2> QED
    BY <2>2, <2>3
<1>7. /\ DOMAIN new = DOMAIN rest \cup {pos} /\ new[pos] = c
      /\ \A q \in DOMAIN rest : q # pos /\ new[q] = ch[q]
  <2> HIDE DEF pos, rest
  <2> QED
    BY <1>5, <1>6 DEF With
<1>8. lead # 0 => pos \notin DOMAIN ch
  BY <1>1, <1>5, <1>6
<1>9. /\ \A q \in DOMAIN new : WellMapped(q, new[q]) /\ Mapping(q, new[q]) \subseteq m
      /\ \A q, r \in DOMAIN new : q # r => Mapping(q, new[q]) \cap Mapping(r, new[r]) = {}
  <2>1. /\ \A q \in DOMAIN ch : WellMapped(q, ch[q]) /\ Mapping(q, ch[q]) \subseteq m
        /\ \A q, r \in DOMAIN ch : q # r => Mapping(q, ch[q]) \cap Mapping(r, ch[r]) = {}
    BY DEF Accounted
  <2> HIDE DEF new, pos, rest
  <2> QED
    BY <1>3, <1>4, <1>5, <1>7, <2>1
<1> QED
  BY <1>1, <1>8, <1>9 DEF Accounted, c

-----------------------------------------------------------------------------
(* The inductive invariant. *)

Served == Requests \ (MAX_REQUEST..MAX_SIZE_T)

Calls ==
  {Idle}
  \cup [op : {"move"}, p : Nat, bytes : Served, had : Requests]
  \cup [op : {"free"}, p : Nat]
  \cup [op : {"align"}, p : Nat, alignment : Alignments, bytes : Served]
  \cup [op : {"batch"}, was_enabled : BOOLEAN]
  \cup [op : {"enable"}, was_enabled : BOOLEAN, p : Nat]
  \cup [op : {"split"}, p : Nat]

TypeInv ==
  /\ use_mmap \in BOOLEAN /\ call \in [Threads -> Calls]
  /\ \A p \in DOMAIN live : live[p] \in Requests

\* The chunk in the hands of a call, or Ordinary
Holding(c) == IF c.op \in {"idle", "batch"} THEN Ordinary ELSE c.p

\* Every mapped chunk is with one caller or in one call.
Owned ==
  /\ DOMAIN live \subseteq DOMAIN chunks
  /\ \A t \in Threads :
       /\ Holding(call[t]) # Ordinary => Holding(call[t]) \in DOMAIN chunks \ DOMAIN live
       /\ call[t].op \in {"move", "free", "align"} => call[t].p # Ordinary
  /\ \A t, u \in Threads :
       t # u /\ Holding(call[t]) = Holding(call[u]) => Holding(call[t]) = Ordinary
  /\ \A p \in DOMAIN chunks :
       p \in DOMAIN live \/ \E t \in Threads : Holding(call[t]) = p

\* An offset inside the smallest region mmap_resize leaves.
OffsetFits(offset) ==
  offset < PageSize \/ offset < MIN_LARGE_SIZE + 32 \/ offset < MIN_CHUNK_SIZE + 55

FlatFits(c, bytes) == c.offset = 0 => c.size >= bytes + CHUNK_OVERHEAD

\* Room for the block, for the leader and to align it, in a chunk nobody has moved
RoomToAlign(c, alignment, bytes) ==
  /\ c.offset = 0 /\ Length(c) = c.size + MMAP_FOOT_PAD
  /\ c.size >= request2size(bytes) + alignment + MIN_CHUNK_SIZE

Fits ==
  /\ \A p \in DOMAIN chunks : OffsetFits(chunks[p].offset)
  /\ \A p \in DOMAIN live : FlatFits(chunks[p], live[p])
  /\ \A t \in Threads :
       /\ call[t].op = "move" => FlatFits(chunks[call[t].p], call[t].had)
       /\ call[t].op = "align" =>
            RoomToAlign(chunks[call[t].p], call[t].alignment, call[t].bytes)

IInv == Accounted(mapped, chunks, footprint) /\ TypeInv /\ Owned /\ Fits

-----------------------------------------------------------------------------
(* What malloc and memalign do to one chunk. *)

\* The first disjunct of Malloc without what its caller adds
Maps(bytes, mm) ==
  LET len == MmapSize(ChunkSize(bytes))
  IN  /\ len # NoSize /\ mm \in PlacesIn(Pages \ mapped, len)
      /\ mapped' = mapped \cup PagesOf(mm, len)
      /\ chunks' = With(chunks, mm, DirectChunk(len, 0))
      /\ footprint' = footprint + len

LEMMA ConstantFacts ==
  /\ CHUNK_OVERHEAD = 16 /\ MIN_CHUNK_SIZE = 32 /\ MMAP_FOOT_PAD = 32 /\ MIN_LARGE_SIZE \in Nat
  /\ Requests \subseteq Nat /\ Served \subseteq Nat
  /\ \A bytes \in Served : bytes \in Requests /\ bytes < MAX_REQUEST
  /\ \A bytes \in Requests : bytes < MAX_REQUEST => bytes \in Served
  /\ \A a \in Alignments : a \in Nat /\ a >= 32
<1>1. SizeT \in Nat /\ MAX_SIZE_T = SizeT - 1 /\ MAX_REQUEST = SizeT - 128
  BY SizeTFacts
<1>2. Requests \subseteq 0..MAX_SIZE_T /\ \A a \in Alignments : a \in Nat /\ a >= MIN_CHUNK_SIZE
  BY MmappedAssumption
<1>3. MIN_LARGE_SIZE \in Nat
  BY BinsAssumption DEF MIN_LARGE_SIZE
<1> QED
  BY <1>1, <1>2, <1>3 DEF CHUNK_OVERHEAD, MIN_CHUNK_SIZE, MMAP_FOOT_PAD, SIZE_T_SIZE, Served

\* What malloc maps is a new chunk with room to spare; the others stay.
LEMMA MapsFresh ==
  ASSUME IInv, NEW bytes \in 0..MAX_SIZE_T, NEW mm, Maps(bytes, mm)
  PROVE  /\ mm \notin DOMAIN chunks /\ mm \in Nat \ {Ordinary} /\ bytes < MAX_REQUEST
         /\ DOMAIN chunks' = DOMAIN chunks \cup {mm}
         /\ \A q \in DOMAIN chunks : chunks'[q] = chunks[q]
         /\ chunks'[mm].offset = 0 /\ Length(chunks'[mm]) = chunks'[mm].size + MMAP_FOOT_PAD
         /\ chunks'[mm].size \in Nat
         /\ chunks'[mm].size >= request2size(bytes) + 23
         /\ Accounted(mapped', chunks', footprint')
<1> DEFINE nb == ChunkSize(bytes)
           len == MmapSize(nb)
<1>1. /\ SizeT \in Nat /\ MAX_SIZE_T = SizeT - 1 /\ MAX_REQUEST = SizeT - 128 /\ bytes \in Nat
      /\ PageSize \in Nat \ {0}
  BY SizeTFacts
<1>2. nb \in 0..MAX_SIZE_T
  BY <1>1, ChunkOfRequest DEF ChunkSize
<1>3. len \in 1..MAX_SIZE_T /\ len % PageSize = 0 /\ len >= nb + 55
  BY <1>2, RegionOfChunk DEF Maps
<1>4. bytes < MAX_REQUEST /\ nb = request2size(bytes)
  BY <1>1, <1>2, <1>3 DEF ChunkSize
<1>5. /\ mm \in PlacesIn(Pages \ mapped, len) /\ mapped' = mapped \cup PagesOf(mm, len)
      /\ chunks' = With(chunks, mm, DirectChunk(len, 0)) /\ footprint' = footprint + len
  BY DEF Maps
<1> HIDE DEF len, nb
<1>6. mm \in Nat /\ mm + 0 = mm
  BY <1>5, PageFacts DEF PlacesIn
<1>7. /\ mm \notin DOMAIN chunks /\ mm \in Nat \ {0}
      /\ Accounted(mapped', chunks', footprint')
  <2>1. /\ Accounted(mapped, chunks, footprint) /\ 0 \in Nat /\ 0 < len
    BY <1>3 DEF IInv
  <2>2. mm \in PlacesIn(Pages \ mapped, len)
    BY <1>5
  <2>3. len \in 1..MAX_SIZE_T /\ len % PageSize = 0
    BY <1>3
  <2>4. /\ mm + 0 \notin DOMAIN chunks /\ mm + 0 \in Nat \ {0}
        /\ Accounted(mapped \cup PagesOf(mm, len), With(chunks, mm + 0, DirectChunk(len, 0)),
                     footprint + len)
    BY <2>1, <2>2, <2>3, AddMapping
  <2> QED
    BY <1>5, <1>6, <2>4
<1>8. /\ DOMAIN chunks' = DOMAIN chunks \cup {mm} /\ chunks'[mm] = DirectChunk(len, 0)
      /\ \A q \in DOMAIN chunks : chunks'[q] = chunks[q]
  BY <1>5, <1>7 DEF With
<1>9. /\ DirectChunk(len, 0).offset = 0 /\ Length(DirectChunk(len, 0)) = len
      /\ DirectChunk(len, 0).size = len - 32
  <2>0. len \in Nat /\ nb \in Nat /\ len >= nb + 55
    BY <1>1, <1>2, <1>3
  <2>1. 0 \in Nat /\ 0 < len /\ len >= 32 + 0 /\ len - 0 - 32 = len - 32
    BY <2>0
  <2> QED
    BY <1>3, <2>1, DirectChunkLength
<1> QED
  BY <1>1, <1>2, <1>3, <1>4, <1>7, <1>8, <1>9, ConstantFacts DEF Ordinary

\* The aligned place begins less than the alignment and a chunk's size further on, and
\* from the start of a page inside the smallest region a modest caller leaves.
LEMMA AlignedPlaceFacts ==
  ASSUME NEW p \in Nat, NEW alignment \in Alignments
  PROVE  /\ AlignedPlace(p, alignment) \in Nat
         /\ AlignedPlace(p, alignment) - p \in 0..alignment + 31
         /\ (AlignedPlace(p, alignment) + CHUNK_OVERHEAD) % alignment = 0
         /\ ModestCallers /\ p \in Pages => OffsetFits(AlignedPlace(p, alignment) - p)
<1> DEFINE a == alignment
           mem == p + 16
           q == (mem + a - 1) \div a
           r == (mem + a - 1) % a
           br == q * a - 16
           pos == AlignedPlace(p, a)
<1>1. a \in Nat /\ a >= 32 /\ CHUNK_OVERHEAD = 16 /\ MIN_CHUNK_SIZE = 32
  BY ConstantFacts
<1>2. pos = IF mem % a = 0 THEN p ELSE IF br - p >= 32 THEN br ELSE br + a
  BY <1>1 DEF AlignedPlace
<1>3. /\ q \in Int /\ r \in 0..a - 1 /\ mem \in Nat /\ r = (mem + a - 1) - a * q
  BY <1>1
<1> HIDE DEF q, r
<1>4. q * a = a * q /\ q * a \in Int /\ a * (q + 1) = a * q + a
  BY <1>1, <1>3
<1>5. q * a \in mem..mem + a - 1
  BY <1>1, <1>3, <1>4
<1>6. (q * a) % a = 0 /\ (a * (q + 1)) % a = 0
  BY <1>1, <1>3
<1>7. pos \in Nat /\ pos - p \in 0..a + 31
  BY <1>1, <1>2, <1>3, <1>5
<1>8. (pos + 16) % a = 0
  <2>1. CASE mem % a = 0
    BY <1>2, <2>1
  <2>2. CASE mem % a # 0 /\ br - p >= 32
    <3>1. pos + 16 = q * a
      BY <1>2, <1>4, <2>2
    <3> QED
      BY <1>6, <3>1
  <2>3. CASE mem % a # 0 /\ ~(br - p >= 32)
    <3>1. pos + 16 = a * (q + 1)
      BY <1>1, <1>2, <1>4, <2>3
    <3> QED
      BY <1>6, <3>1
  <2> QED
    BY <2>1, <2>2, <2>3
<1>9. ASSUME ModestCallers, p \in Pages PROVE OffsetFits(pos - p)
  <2>1. CASE a <= MIN_LARGE_SIZE
    BY <1>1, <1>7, <2>1, ConstantFacts DEF OffsetFits
  <2>2. CASE PageSize % a = 0
    <3> DEFINE i == p \div PageSize
               j == PageSize \div a
               k == i * j
    <3>1. PageSize \in Nat \ {0} /\ p % PageSize = 0
      BY <1>9, PageFacts
    <3>2. i \in Int /\ j \in Int /\ p = PageSize * i /\ PageSize = a * j
      BY <1>1, <2>2, <3>1
    <3> HIDE DEF i, j
    <3>3. k \in Int /\ p = a * k
      BY <1>1, <3>2
    <3> HIDE DEF k
    <3>4. mem + a - 1 = a * (k + 1) + 15 /\ 15 \in 0..a - 1 /\ k + 1 \in Int
      BY <1>1, <3>3
    <3>5. q = k + 1
      BY <1>1, <3>4 DEF q
    <3>6. q * a = p + a
      BY <1>1, <3>3, <3>5
    <3>7. PageSize >= a
      BY <1>1, <3>1, <3>2
    <3> QED
      BY <1>1, <1>2, <3>1, <3>6, <3>7, ConstantFacts DEF OffsetFits
  <2> QED
    BY <1>9, <2>1, <2>2 DEF ModestCallers
<1> QED
  BY <1>1, <1>7, <1>8, <1>9

-----------------------------------------------------------------------------
(* The steps. *)

\* A block in a chunk that malloc has just mapped for it
LEMMA MapsFits ==
  ASSUME IInv, NEW bytes \in Requests, NEW mm, Maps(bytes, mm)
  PROVE  FlatFits(chunks'[mm], bytes) /\ OffsetFits(chunks'[mm].offset)
<1>1. bytes \in 0..MAX_SIZE_T /\ bytes \in Nat
  BY MmappedAssumption, ConstantFacts
<1>2. /\ bytes < MAX_REQUEST /\ chunks'[mm].offset = 0 /\ chunks'[mm].size \in Nat
      /\ chunks'[mm].size >= request2size(bytes) + 23
  BY <1>1, MapsFresh
<1>3. request2size(bytes) \in Nat /\ bytes + CHUNK_OVERHEAD <= request2size(bytes)
  BY <1>1, <1>2, ChunkOfRequest
<1> QED
  BY <1>1, <1>2, <1>3, PageFacts, ConstantFacts DEF FlatFits, OffsetFits

\* A call goes on that had no chunk, or that keeps the one it had, while nothing happens
\* to chunks and live.
LEMMA SameMemory ==
  ASSUME IInv, NEW t \in Threads, NEW c \in Calls, call' = [call EXCEPT ![t] = c],
         Holding(c) = Holding(call[t]), c.op \notin {"move", "align"},
         c.op = "free" => call[t].op = "move",
         UNCHANGED <<mapped, chunks, footprint, live>>, use_mmap' \in BOOLEAN
  PROVE  IInv'
<1>1. TypeInv'
  BY DEF IInv, TypeInv
<1>2. /\ call \in [Threads -> Calls] /\ call'[t] = c
      /\ \A u \in Threads : u # t => call'[u] = call[u]
      /\ \A u \in Threads : Holding(call'[u]) = Holding(call[u])
  BY DEF IInv, TypeInv
<1>3. \A u \in Threads : call'[u].op \in {"move", "free", "align"} => call'[u].p # Ordinary
  <2>1. c.op = "free" => c.p # Ordinary
    BY DEF IInv, Owned, Holding
  <2> QED
    BY <1>2, <2>1 DEF IInv, Owned
<1>4. Owned'
  BY <1>2, <1>3 DEF IInv, Owned
<1>5. Fits'
  BY <1>2 DEF IInv, Fits
<1>6. Accounted(mapped', chunks', footprint')
  BY DEF IInv
<1> QED
  BY <1>1, <1>4, <1>5, <1>6 DEF IInv

LEMMA StepMalloc ==
  ASSUME IInv, NEW t \in Threads, mspace_malloc(t) PROVE IInv'
<1>1. PICK bytes \in Requests :
        \/ \E mm : Maps(bytes, mm) /\ Hand(mm, bytes)
        \/ UNCHANGED <<mapped, chunks, footprint>> /\ Hand(Ordinary, bytes)
  BY DEF mspace_malloc, Malloc, Maps
<1>2. UNCHANGED <<use_mmap, call>>
  BY DEF mspace_malloc
<1>3. CASE \E mm : Maps(bytes, mm) /\ Hand(mm, bytes)
  <2>1. PICK mm : Maps(bytes, mm) /\ Hand(mm, bytes)
    BY <1>3
  <2>2. /\ mm \notin DOMAIN chunks /\ mm \in Nat \ {Ordinary}
        /\ DOMAIN chunks' = DOMAIN chunks \cup {mm}
        /\ \A q \in DOMAIN chunks : chunks'[q] = chunks[q]
        /\ Accounted(mapped', chunks', footprint')
    BY <2>1, MapsFresh, MmappedAssumption
  <2>3. FlatFits(chunks'[mm], bytes) /\ OffsetFits(chunks'[mm].offset)
    BY <2>1, MapsFits
  <2>4. /\ DOMAIN live' = DOMAIN live \cup {mm} /\ live'[mm] = bytes
        /\ \A q \in DOMAIN live : q # mm => live'[q] = live[q]
    BY <2>1, <2>2 DEF Hand, With
  <2>5. TypeInv'
    BY <1>2, <2>4 DEF IInv, TypeInv
  <2>6. Owned'
    BY <1>2, <2>2, <2>4 DEF IInv, Owned
  <2>7. Fits'
    <3>1. \A p \in DOMAIN live' : FlatFits(chunks'[p], live'[p])
      BY <2>2, <2>3, <2>4 DEF IInv, Owned, Fits
    <3>2. \A u \in Threads : call[u].op \in {"move", "align"} => call[u].p \in DOMAIN chunks
      BY DEF IInv, Owned, Holding
    <3> QED
      BY <1>2, <2>2, <2>3, <3>1, <3>2 DEF IInv, Fits
  <2> QED
    BY <2>2, <2>5, <2>6, <2>7 DEF IInv
<1>4. CASE UNCHANGED <<mapped, chunks, footprint>> /\ Hand(Ordinary, bytes)
  BY <1>2, <1>4 DEF Hand, IInv, TypeInv, Owned, Fits
<1> QED
  BY <1>1, <1>3, <1>4

\* Whether or not munmap succeeds, the chunk is gone and the others stay.
LEMMA FreeDrops ==
  ASSUME IInv, NEW p \in DOMAIN chunks, Free(p)
  PROVE  /\ DOMAIN chunks' = DOMAIN chunks \ {p}
         /\ \A q \in DOMAIN chunks \ {p} : chunks'[q] = chunks[q]
         /\ Accounted(mapped', chunks', footprint')
<1>1. /\ DOMAIN chunks' = DOMAIN chunks \ {p}
      /\ \A q \in DOMAIN chunks \ {p} : chunks'[q] = chunks[q]
  BY DEF Free, Without, Restrict
<1>2. Accounted(mapped', chunks', footprint')
  <2>1. chunks' = Without(chunks, p)
    BY DEF Free
  <2>2. CASE /\ mapped' = mapped \ Mapping(p, chunks[p])
             /\ footprint' = footprint - Length(chunks[p])
    BY <2>1, <2>2, DropMapping DEF IInv
  <2>3. CASE UNCHANGED <<mapped, footprint>>
    BY <2>1, <2>3, DropMapping DEF IInv
  <2> QED
    BY <2>2, <2>3 DEF Free, Mapping, Released
<1> QED
  BY <1>1, <1>2

LEMMA StepFree ==
  ASSUME IInv, NEW t \in Threads, mspace_free(t) PROVE IInv'
<1>1. PICK p \in DOMAIN live : Free(p) /\ live' = Without(live, p)
  BY DEF mspace_free
<1>2. UNCHANGED <<use_mmap, call>>
  BY DEF mspace_free
<1>3. /\ DOMAIN chunks' = DOMAIN chunks \ {p}
      /\ \A q \in DOMAIN chunks \ {p} : chunks'[q] = chunks[q]
      /\ Accounted(mapped', chunks', footprint')
  BY <1>1, FreeDrops DEF IInv, Owned
<1>4. DOMAIN live' = DOMAIN live \ {p} /\ \A q \in DOMAIN live \ {p} : live'[q] = live[q]
  BY <1>1, WithoutLemma
<1>5. TypeInv'
  BY <1>2, <1>4 DEF IInv, TypeInv
<1>6. \A u \in Threads : Holding(call[u]) # p
  <2>1. \A u \in Threads : Holding(call[u]) = Ordinary \/ Holding(call[u]) \notin DOMAIN live
    BY DEF IInv, Owned
  <2>2. p # Ordinary
    BY <1>1 DEF IInv, Owned, Accounted, WellMapped, Ordinary
  <2> QED
    BY <1>1, <2>1, <2>2
<1>7. Owned'
  BY <1>2, <1>3, <1>4, <1>6 DEF IInv, Owned
<1>8. Fits'
  <2>1. \A u \in Threads : call[u].op \in {"move", "align"} =>
          call[u].p \in DOMAIN chunks \ {p}
    BY <1>6 DEF IInv, Owned, Holding
  <2>2. \A q \in DOMAIN live' : q \in DOMAIN chunks \ {p}
    BY <1>4 DEF IInv, Owned
  <2> QED
    BY <1>2, <1>3, <1>4, <2>1, <2>2 DEF IInv, Fits
<1> QED
  BY <1>3, <1>5, <1>7, <1>8 DEF IInv

LEMMA StepFreeOld ==
  ASSUME IInv, NEW t \in Threads, FreeOld(t) PROVE IInv'
<1> DEFINE p == call[t].p
<1>1. call[t].op = "free" /\ Free(p) /\ UNCHANGED <<use_mmap, live>> /\ Finish(t)
  BY DEF FreeOld
<1>2. /\ p = Holding(call[t]) /\ p # Ordinary /\ p \in DOMAIN chunks \ DOMAIN live
      /\ \A u \in Threads : u # t => Holding(call[u]) # p
  BY <1>1 DEF IInv, Owned, Holding
<1>3. /\ DOMAIN chunks' = DOMAIN chunks \ {p}
      /\ \A q \in DOMAIN chunks \ {p} : chunks'[q] = chunks[q]
      /\ Accounted(mapped', chunks', footprint')
  BY <1>1, <1>2, FreeDrops
<1>4. /\ call' \in [Threads -> Calls] /\ call'[t] = Idle
      /\ \A u \in Threads : u # t => call'[u] = call[u]
  BY <1>1 DEF IInv, TypeInv, Finish, Calls
<1>5. TypeInv'
  BY <1>1, <1>4 DEF IInv, TypeInv
<1>6. Holding(call'[t]) = Ordinary /\ call'[t].op = "idle"
  BY <1>4 DEF Holding, Idle
<1> HIDE DEF p
<1>7. Owned'
  BY <1>1, <1>2, <1>3, <1>4, <1>6 DEF IInv, Owned
<1>8. Fits'
  <2>1. \A u \in Threads : call'[u].op \in {"move", "align"} =>
          u # t /\ call[u].p \in DOMAIN chunks \ {p}
    BY <1>2, <1>4, <1>6 DEF IInv, Owned, Holding
  <2>2. \A q \in DOMAIN live : q \in DOMAIN chunks \ {p}
    BY <1>2 DEF IInv, Owned
  <2> QED
    BY <1>1, <1>3, <1>4, <2>1, <2>2 DEF IInv, Fits
<1> QED
  BY <1>3, <1>5, <1>7, <1>8 DEF IInv

\* The region that mmap_resize asks for a large chunk
LEMMA ResizedRegion ==
  ASSUME ModestCallers, NEW bytes \in Served, ~is_small(request2size(bytes))
  PROVE  LET len == MmapRegion(request2size(bytes))
         IN  /\ len \in 1..MAX_SIZE_T /\ len % PageSize = 0 /\ len >= PageSize
             /\ len >= bytes + CHUNK_OVERHEAD + 55
             /\ len >= MIN_LARGE_SIZE + 55 /\ len >= MIN_CHUNK_SIZE + 55
<1> DEFINE nb == request2size(bytes)
           len == MmapRegion(nb)
<1>1. /\ PageSize \in Nat \ {0} /\ SizeT \in Nat /\ MAX_SIZE_T = SizeT - 1 /\ bytes \in Nat
      /\ bytes < MAX_REQUEST /\ bytes + PageSize + 128 <= SizeT
      /\ CHUNK_OVERHEAD = 16 /\ MIN_CHUNK_SIZE = 32
  BY SizeTFacts, ConstantFacts DEF ModestCallers
<1>2. nb \in Nat /\ nb >= 32 /\ bytes + 16 <= nb /\ nb < bytes + 48
  BY <1>1, ChunkOfRequest
<1>3. nb >= MIN_LARGE_SIZE
  <2>1. {2^SMALLBIN_SHIFT, NSMALLBINS} \subseteq Nat \ {0}
    BY BinsAssumption
  <2>2. MIN_LARGE_SIZE = NSMALLBINS * 2^SMALLBIN_SHIFT
    BY BinsAssumption DEF MIN_LARGE_SIZE
  <2>3. nb \div 2^SMALLBIN_SHIFT >= NSMALLBINS
    BY <1>2, <2>1 DEF is_small
  <2>4. \A a, i \in Nat : \A b \in Nat \ {0} : a \div b >= i => a >= i * b
    <3>1. \A a \in Nat, b \in Nat \ {0} : a % b = a - b * (a \div b) /\ a % b \in 0..b - 1
      OBVIOUS
    <3> SUFFICES ASSUME NEW a \in Nat, NEW i \in Nat, NEW b \in Nat \ {0}, a \div b >= i
                 PROVE  a >= i * b
      OBVIOUS
    <3> DEFINE d == a \div b
    <3>2. d \in Int /\ d >= i /\ a >= b * d
      BY <3>1
    <3> HIDE DEF d
    <3>3. b * d >= b * i
      BY <3>2
    <3> QED
      BY <3>2, <3>3
  <2> QED
    BY <1>2, <2>1, <2>2, <2>3, <2>4
<1> HIDE DEF nb
<1>4. len = RoundUp(nb + 55, PageSize)
  <2>1. nb + 6 * SIZE_T_SIZE + MALLOC_ALIGNMENT - 1 = nb + 55
    BY <1>2 DEF SIZE_T_SIZE, MALLOC_ALIGNMENT
  <2> QED
    BY <2>1 DEF MmapRegion, mmap_align
<1> HIDE DEF len
<1>5. len \in Nat /\ len % PageSize = 0 /\ nb + 55 <= len /\ len < nb + 55 + PageSize
  <2>1. nb + 55 \in Nat /\ nb + 55 + PageSize - 1 < SizeT
    BY <1>1, <1>2
  <2> QED
    BY <1>1, <1>4, <2>1, RoundUpExact
<1>6. len >= PageSize
  <2>1. len < PageSize => len % PageSize = len
    BY <1>1, <1>5
  <2> QED
    BY <1>1, <1>2, <1>5, <2>1
<1>7. /\ len \in 1..MAX_SIZE_T /\ len >= bytes + CHUNK_OVERHEAD + 55
      /\ len >= MIN_LARGE_SIZE + 55 /\ len >= MIN_CHUNK_SIZE + 55
  BY <1>1, <1>2, <1>3, <1>5, ConstantFacts
<1> QED
  BY <1>5, <1>6, <1>7 DEF len, nb

\* What a caller has no call has.
LEMMA LiveNotHeld ==
  ASSUME IInv, NEW p \in DOMAIN live
  PROVE  /\ p \in DOMAIN chunks /\ p \in Nat \ {Ordinary}
         /\ \A u \in Threads : Holding(call[u]) # p
<1>1. p \in DOMAIN chunks /\ p \in Nat \ {Ordinary}
  BY DEF IInv, Owned, Accounted, WellMapped, Ordinary
<1>2. \A u \in Threads : Holding(call[u]) = Ordinary \/ Holding(call[u]) \notin DOMAIN live
  BY DEF IInv, Owned
<1> QED
  BY <1>1, <1>2

\* mremap: the chunk of a caller gets another mapping of the length it is to have.
LEMMA MovesMapping ==
  ASSUME IInv, ModestCallers, NEW p \in DOMAIN live, NEW bytes \in Served,
         ~is_small(request2size(bytes)), Moves(p, MmapRegion(request2size(bytes)), bytes)
  PROVE  \E pos :
    /\ pos \notin DOMAIN chunks \ {p} /\ pos # Ordinary
    /\ DOMAIN chunks' = (DOMAIN chunks \ {p}) \cup {pos}
    /\ \A q \in DOMAIN chunks \ {p} : chunks'[q] = chunks[q]
    /\ DOMAIN live' = (DOMAIN live \ {p}) \cup {pos} /\ live'[pos] = bytes
    /\ \A q \in DOMAIN live \ {p} : q # pos => live'[q] = live[q]
    /\ FlatFits(chunks'[pos], bytes) /\ OffsetFits(chunks'[pos].offset)
    /\ Accounted(mapped', chunks', footprint')
<1> DEFINE c == chunks[p]
           len == MmapRegion(request2size(bytes))
           offset == c.offset
           others == Without(chunks, p)
           rest == mapped \ Mapping(p, c)
<1>1. p \in DOMAIN chunks /\ c \in AChunk /\ offset \in Nat /\ OffsetFits(offset)
  BY DEF IInv, Owned, Accounted, WellMapped, AChunk, Fits
<1>2. /\ len \in 1..MAX_SIZE_T /\ len % PageSize = 0 /\ len >= PageSize
      /\ len >= bytes + CHUNK_OVERHEAD + 55
      /\ len >= MIN_LARGE_SIZE + 55 /\ len >= MIN_CHUNK_SIZE + 55
  BY ResizedRegion
<1>3. PICK cp \in PlacesIn(Pages \ rest, len) :
        /\ mapped' = rest \cup PagesOf(cp, len)
        /\ chunks' = With(others, cp + offset, DirectChunk(len, offset))
        /\ footprint' = footprint + len - Length(c)
        /\ live' = With(Without(live, p), cp + offset, bytes)
  BY DEF Moves, Mapping
<1> HIDE DEF len
<1>4. /\ len \in Nat /\ bytes \in Nat /\ PageSize \in Nat /\ MIN_LARGE_SIZE \in Nat
      /\ CHUNK_OVERHEAD = 16 /\ MIN_CHUNK_SIZE = 32
  BY <1>2, PageFacts, ConstantFacts, SizeTFacts
<1>5. offset < len
  BY <1>1, <1>2, <1>4 DEF OffsetFits
<1>6. Accounted(rest, others, footprint - Length(c))
  BY <1>1, DropMapping DEF IInv
<1> DEFINE pos == cp + offset
<1>7. /\ pos \notin DOMAIN others /\ pos \in Nat \ {0}
      /\ Accounted(mapped', chunks', footprint')
  <2>1. footprint' = (footprint - Length(c)) + len
    <3>1. footprint \in Int /\ Length(c) \in Int
      BY <1>1, LengthType, FS_CardinalityType, PageFacts DEF IInv, Accounted
    <3> QED
      BY <1>3, <1>4, <3>1
  <2> HIDE DEF rest, others, c
  <2> QED
    BY <1>1, <1>2, <1>3, <1>5, <1>6, <2>1, AddMapping DEF offset
<1>8. DOMAIN others = DOMAIN chunks \ {p} /\ \A q \in DOMAIN others : others[q] = chunks[q]
  BY WithoutLemma
<1>9. /\ DOMAIN chunks' = (DOMAIN chunks \ {p}) \cup {pos}
      /\ chunks'[pos] = DirectChunk(len, offset)
      /\ \A q \in DOMAIN chunks \ {p} : chunks'[q] = chunks[q]
  <2> HIDE DEF pos, others
  <2> QED
    BY <1>3, <1>7, <1>8 DEF With, pos
<1>10. /\ DOMAIN live' = (DOMAIN live \ {p}) \cup {pos} /\ live'[pos] = bytes
       /\ \A q \in DOMAIN live \ {p} : q # pos => live'[q] = live[q]
  <2> HIDE DEF pos
  <2> QED
    BY <1>3 DEF With, Without, Restrict, pos
<1>11. /\ DirectChunk(len, offset).offset = offset
       /\ len >= 32 + offset => DirectChunk(len, offset).size = len - offset - 32
  BY <1>1, <1>2, <1>5, DirectChunkLength
<1>12. FlatFits(chunks'[pos], bytes)
  BY <1>1, <1>2, <1>4, <1>9, <1>11 DEF FlatFits
<1>13. OffsetFits(chunks'[pos].offset)
  BY <1>1, <1>9, <1>11
<1>14. pos # Ordinary /\ pos \notin DOMAIN chunks \ {p}
  BY <1>7, <1>8 DEF Ordinary
<1> HIDE DEF pos
<1> QED
  BY <1>7, <1>9, <1>10, <1>12, <1>13, <1>14

LEMMA StepRealloc ==
  ASSUME IInv, ModestCallers, NEW t \in Threads, mspace_realloc(t) PROVE IInv'
<1> DEFINE Size(bytes) == request2size(bytes)
<1>1. PICK p \in DOMAIN live, bytes \in Served :
        \/ /\ Keeps(chunks[p], Size(bytes)) /\ live' = [live EXCEPT ![p] = bytes]
           /\ UNCHANGED <<mapped, chunks, footprint, call>>
        \/ /\ ~is_small(Size(bytes)) /\ Moves(p, MmapRegion(Size(bytes)), bytes)
           /\ UNCHANGED call
        \/ /\ live' = Without(live, p)
           /\ call' = [call EXCEPT ![t] = [op |-> "move", p |-> p, bytes |-> bytes,
                                            had |-> live[p]]]
           /\ UNCHANGED <<mapped, chunks, footprint>>
  BY DEF mspace_realloc, Served
<1>2. call[t] = Idle /\ UNCHANGED use_mmap
  BY DEF mspace_realloc
<1>3. /\ p \in DOMAIN chunks /\ p \in Nat \ {Ordinary}
      /\ \A u \in Threads : Holding(call[u]) # p
  BY LiveNotHeld
<1>4. bytes \in Requests /\ bytes \in Nat /\ bytes < MAX_REQUEST /\ CHUNK_OVERHEAD = 16
  BY ConstantFacts
<1>5. \A u \in Threads : call[u].op \in {"move", "align"} => call[u].p \in DOMAIN chunks \ {p}
  BY <1>3 DEF IInv, Owned, Holding
<1>6. CASE /\ Keeps(chunks[p], Size(bytes)) /\ live' = [live EXCEPT ![p] = bytes]
           /\ UNCHANGED <<mapped, chunks, footprint, call>>
  <2>1. FlatFits(chunks[p], bytes)
    <3>1. chunks[p].size \in Nat
      BY <1>3, PageFacts DEF IInv, Accounted, WellMapped, AChunk
    <3>2. Size(bytes) \in Nat /\ bytes + CHUNK_OVERHEAD <= Size(bytes)
      BY <1>4, ChunkOfRequest
    <3>3. chunks[p].size >= Size(bytes) + 8
      BY <1>6 DEF Keeps, SIZE_T_SIZE
    <3> QED
      BY <1>4, <3>1, <3>2, <3>3 DEF FlatFits
  <2>2. /\ DOMAIN live' = DOMAIN live /\ live'[p] = bytes
        /\ \A q \in DOMAIN live : q # p => live'[q] = live[q]
    BY <1>6
  <2> QED
    BY <1>2, <1>4, <1>6, <2>1, <2>2 DEF IInv, TypeInv, Owned, Fits
<1>7. CASE /\ ~is_small(Size(bytes)) /\ Moves(p, MmapRegion(Size(bytes)), bytes)
           /\ UNCHANGED call
  <2>1. PICK pos :
          /\ pos \notin DOMAIN chunks \ {p} /\ pos # Ordinary
          /\ DOMAIN chunks' = (DOMAIN chunks \ {p}) \cup {pos}
          /\ \A q \in DOMAIN chunks \ {p} : chunks'[q] = chunks[q]
          /\ DOMAIN live' = (DOMAIN live \ {p}) \cup {pos} /\ live'[pos] = bytes
          /\ \A q \in DOMAIN live \ {p} : q # pos => live'[q] = live[q]
          /\ FlatFits(chunks'[pos], bytes) /\ OffsetFits(chunks'[pos].offset)
          /\ Accounted(mapped', chunks', footprint')
    BY <1>7, MovesMapping
  <2>2. TypeInv'
    BY <1>2, <1>4, <1>7, <2>1 DEF IInv, TypeInv
  <2>3. \A u \in Threads : Holding(call[u]) # pos
    BY <1>3, <2>1 DEF IInv, Owned
  <2>4. Owned'
    BY <1>3, <1>7, <2>1, <2>3 DEF IInv, Owned
  <2>5. Fits'
    <3>1. \A q \in DOMAIN live \ {p} : q \in DOMAIN chunks \ {p}
      BY DEF IInv, Owned
    <3> QED
      BY <1>5, <1>7, <2>1, <3>1 DEF IInv, Fits
  <2> QED
    BY <2>1, <2>2, <2>4, <2>5 DEF IInv
<1>8. CASE /\ live' = Without(live, p)
           /\ call' = [call EXCEPT ![t] = [op |-> "move", p |-> p, bytes |-> bytes,
                                            had |-> live[p]]]
           /\ UNCHANGED <<mapped, chunks, footprint>>
  <2> DEFINE c == [op |-> "move", p |-> p, bytes |-> bytes, had |-> live[p]]
  <2>1. c \in Calls /\ Holding(c) = p /\ c.op = "move" /\ c.p = p /\ c.had = live[p]
    BY <1>3 DEF Calls, Holding, IInv, TypeInv
  <2> HIDE DEF c
  <2>2. DOMAIN live' = DOMAIN live \ {p} /\ \A q \in DOMAIN live \ {p} : live'[q] = live[q]
    BY <1>8, WithoutLemma
  <2>3. /\ call' \in [Threads -> Calls] /\ call'[t] = c
        /\ \A u \in Threads : u # t => call'[u] = call[u]
    BY <1>8, <2>1 DEF IInv, TypeInv, c
  <2>4. TypeInv'
    BY <1>2, <2>2, <2>3 DEF IInv, TypeInv
  <2>5. Owned'
    <3>1. Holding(call[t]) = Ordinary
      BY <1>2 DEF Holding, Idle
    <3>2. Holding(call'[t]) = p /\ call'[t].p = p
      BY <2>1, <2>3
    <3>3. \A u \in Threads : u # t => Holding(call'[u]) = Holding(call[u])
      BY <2>3
    <3>4. DOMAIN chunks' = DOMAIN chunks
      BY <1>8
    <3>5. DOMAIN live' \subseteq DOMAIN chunks'
      BY <2>2, <3>4 DEF IInv, Owned
    <3>6. \A u \in Threads :
            /\ Holding(call'[u]) # Ordinary => Holding(call'[u]) \in DOMAIN chunks' \ DOMAIN live'
            /\ call'[u].op \in {"move", "free", "align"} => call'[u].p # Ordinary
      BY <1>3, <2>2, <2>3, <3>2, <3>3, <3>4 DEF IInv, Owned
    <3>7. \A u, w \in Threads :
            u # w /\ Holding(call'[u]) = Holding(call'[w]) => Holding(call'[u]) = Ordinary
      BY <1>3, <3>2, <3>3 DEF IInv, Owned
    <3>8. \A q \in DOMAIN chunks' :
            q \in DOMAIN live' \/ \E u \in Threads : Holding(call'[u]) = q
      <4> SUFFICES ASSUME NEW q \in DOMAIN chunks, q # p, q \notin DOMAIN live
                   PROVE  \E u \in Threads : Holding(call'[u]) = q
        BY <2>2, <3>2, <3>4
      <4>1. PICK u \in Threads : Holding(call[u]) = q
        BY DEF IInv, Owned
      <4>2. u # t
        BY <1>3, <3>1, <4>1 DEF IInv, Accounted, WellMapped, Ordinary
      <4> QED
        BY <3>3, <4>1, <4>2
    <3> QED
      BY <3>5, <3>6, <3>7, <3>8 DEF Owned
  <2>6. Fits'
    BY <1>8, <2>1, <2>2, <2>3 DEF IInv, Fits
  <2> QED
    BY <1>8, <2>4, <2>5, <2>6 DEF IInv
<1> QED
  BY <1>1, <1>6, <1>7, <1>8

\* A call that has no chunk, or a new one that malloc mapped for it, goes on with it.
LEMMA Takes ==
  ASSUME IInv, NEW t \in Threads, NEW mm \in Nat \ {Ordinary}, NEW c \in Calls,
         mm \notin DOMAIN chunks, Holding(c) = mm, call[t].op \in {"idle", "batch"},
         DOMAIN chunks' = DOMAIN chunks \cup {mm},
         call' = [call EXCEPT ![t] = c], UNCHANGED live
  PROVE  Owned'
<1>1. /\ Holding(call[t]) = Ordinary /\ Holding(call'[t]) = mm /\ call'[t] = c
      /\ \A u \in Threads : u # t => call'[u] = call[u]
  BY DEF Holding, IInv, TypeInv
<1>2. \A u \in Threads : Holding(call[u]) # mm
  BY DEF IInv, Owned
<1>3. c.op \in {"move", "free", "align"} => c.p # Ordinary
  BY DEF Holding
<1>4. DOMAIN live' \subseteq DOMAIN chunks'
  BY DEF IInv, Owned
<1>5. \A u \in Threads :
        /\ Holding(call'[u]) # Ordinary => Holding(call'[u]) \in DOMAIN chunks' \ DOMAIN live'
        /\ call'[u].op \in {"move", "free", "align"} => call'[u].p # Ordinary
  BY <1>1, <1>3 DEF IInv, Owned
<1>6. \A u, w \in Threads :
        u # w /\ Holding(call'[u]) = Holding(call'[w]) => Holding(call'[u]) = Ordinary
  BY <1>1, <1>2 DEF IInv, Owned
<1>7. \A q \in DOMAIN chunks' :
        q \in DOMAIN live' \/ \E u \in Threads : Holding(call'[u]) = q
  <2> SUFFICES ASSUME NEW q \in DOMAIN chunks, q \notin DOMAIN live
               PROVE  \E u \in Threads : Holding(call'[u]) = q
    BY <1>1
  <2>1. PICK u \in Threads : Holding(call[u]) = q
    BY DEF IInv, Owned
  <2>2. u # t
    BY <1>1, <2>1 DEF IInv, Accounted, WellMapped, Ordinary
  <2> QED
    BY <1>1, <2>1, <2>2
<1> QED
  BY <1>4, <1>5, <1>6, <1>7 DEF Owned

LEMMA StepMemalign ==
  ASSUME IInv, NEW t \in Threads, mspace_memalign(t) PROVE IInv'
<1> DEFINE c(p, alignment, bytes) ==
             [op |-> "align", p |-> p, alignment |-> alignment, bytes |-> bytes]
<1>1. PICK alignment \in Alignments, bytes \in Requests :
        /\ MemalignRequest(alignment, bytes) # NoSize
        /\ \/ \E mm : /\ Maps(MemalignRequest(alignment, bytes), mm)
                      /\ call' = IF mm = Ordinary THEN call
                                 ELSE [call EXCEPT ![t] = c(mm, alignment, bytes)]
           \/ UNCHANGED <<mapped, chunks, footprint>> /\ UNCHANGED call
  BY DEF mspace_memalign, Malloc, Maps
<1>2. call[t] = Idle /\ UNCHANGED <<use_mmap, live>>
  BY DEF mspace_memalign
<1> DEFINE req == MemalignRequest(alignment, bytes)
<1>3. /\ alignment \in Nat /\ bytes \in Nat /\ bytes \in Served
      /\ req = request2size(bytes) + alignment + 16 /\ req \in 0..MAX_SIZE_T
      /\ request2size(bytes) \in Nat
  BY <1>1, RequestOfMemalign, ChunkOfRequest, ConstantFacts
<1>4. CASE \E mm : /\ Maps(req, mm)
                   /\ call' = IF mm = Ordinary THEN call
                              ELSE [call EXCEPT ![t] = c(mm, alignment, bytes)]
  <2>1. PICK mm : /\ Maps(req, mm)
                  /\ call' = IF mm = Ordinary THEN call
                             ELSE [call EXCEPT ![t] = c(mm, alignment, bytes)]
    BY <1>4
  <2> HIDE DEF req
  <2>2. /\ mm \notin DOMAIN chunks /\ mm \in Nat \ {Ordinary} /\ req < MAX_REQUEST
        /\ DOMAIN chunks' = DOMAIN chunks \cup {mm}
        /\ \A q \in DOMAIN chunks : chunks'[q] = chunks[q]
        /\ chunks'[mm].offset = 0 /\ Length(chunks'[mm]) = chunks'[mm].size + MMAP_FOOT_PAD
        /\ chunks'[mm].size \in Nat
        /\ chunks'[mm].size >= request2size(req) + 23
        /\ Accounted(mapped', chunks', footprint')
    BY <1>3, <2>1, MapsFresh
  <2> DEFINE new == c(mm, alignment, bytes)
  <2>3. /\ new \in Calls /\ Holding(new) = mm /\ new.op = "align" /\ new.p = mm
        /\ new.alignment = alignment /\ new.bytes = bytes
    BY <1>3, <2>2 DEF Calls, Holding
  <2>4. call' = [call EXCEPT ![t] = new]
    BY <2>1, <2>2
  <2> HIDE DEF new
  <2>5. TypeInv'
    BY <1>2, <2>3, <2>4 DEF IInv, TypeInv
  <2>6. Owned'
    <3>1. call[t].op \in {"idle", "batch"} /\ UNCHANGED live
      BY <1>2 DEF Idle
    <3> QED
      BY <2>2, <2>3, <2>4, <3>1, Takes
  <2>7. RoomToAlign(chunks'[mm], alignment, bytes)
    <3>1. request2size(req) \in Nat /\ request2size(req) >= req + CHUNK_OVERHEAD
      BY <1>3, <2>2, ChunkOfRequest
    <3>2. chunks'[mm].size >= request2size(bytes) + alignment + 16 + 16 + 23
      BY <1>3, <2>2, <3>1, ConstantFacts
    <3> QED
      BY <1>3, <2>2, <3>2, ConstantFacts DEF RoomToAlign
  <2>8. /\ call'[t] = new /\ \A u \in Threads : u # t => call'[u] = call[u]
    BY <2>4 DEF IInv, TypeInv
  <2>9. \A u \in Threads : call[u].op \in {"move", "align"} => call[u].p \in DOMAIN chunks
    BY DEF IInv, Owned, Holding
  <2>10. OffsetFits(chunks'[mm].offset)
    BY <2>2, PageFacts DEF OffsetFits
  <2>11. Fits'
    <3>1. \A q \in DOMAIN live' : FlatFits(chunks'[q], live'[q])
      BY <1>2, <2>2 DEF IInv, Owned, Fits
    <3>2. \A u \in Threads :
            /\ call'[u].op = "move" => FlatFits(chunks'[call'[u].p], call'[u].had)
            /\ call'[u].op = "align" =>
                 RoomToAlign(chunks'[call'[u].p], call'[u].alignment, call'[u].bytes)
      BY <2>2, <2>3, <2>7, <2>8, <2>9 DEF IInv, Fits
    <3> QED
      BY <2>2, <2>10, <3>1, <3>2 DEF IInv, Fits
  <2> QED
    BY <2>2, <2>5, <2>6, <2>11 DEF IInv
<1>5. CASE UNCHANGED <<mapped, chunks, footprint>> /\ UNCHANGED call
  BY <1>2, <1>5 DEF IInv, TypeInv, Owned, Fits
<1> QED
  BY <1>1, <1>4, <1>5

LEMMA StepAligns ==
  ASSUME IInv, ModestCallers, NEW t \in Threads, MemalignAligns(t) PROVE IInv'
<1> DEFINE p == call[t].p
           bytes == call[t].bytes
           alignment == call[t].alignment
           pos == AlignedPlace(p, alignment)
           lead == pos - p
           old == chunks[p]
           c == MovedChunk(old, lead)
<1>1. /\ call[t].op = "align" /\ Finish(t) /\ UNCHANGED <<mapped, footprint, use_mmap>>
      /\ chunks' = With(Without(chunks, p), pos, c) /\ live' = With(live, pos, bytes)
  BY DEF MemalignAligns
<1>2. p \in Nat /\ alignment \in Alignments /\ bytes \in Served
  BY <1>1 DEF IInv, TypeInv, Calls, Idle
<1>3. /\ p = Holding(call[t]) /\ p # Ordinary /\ p \in DOMAIN chunks \ DOMAIN live
      /\ \A u \in Threads : u # t => Holding(call[u]) # p
  BY <1>1 DEF IInv, Owned, Holding
<1>4. /\ old.offset = 0 /\ Length(old) = old.size + 32 /\ old.size \in Nat
      /\ old.size >= request2size(bytes) + alignment + 32 /\ p \in Pages
  <2>1. RoomToAlign(old, alignment, bytes)
    BY <1>1 DEF IInv, Fits
  <2>2. WellMapped(p, old)
    BY <1>3 DEF IInv, Accounted
  <2>3. p - 0 = p
    BY <1>2
  <2> QED
    BY <2>1, <2>2, <2>3, ConstantFacts, PageFacts DEF RoomToAlign, WellMapped, AChunk, Start
<1>5. /\ bytes \in Requests /\ bytes \in Nat /\ request2size(bytes) \in Nat /\ alignment \in Nat
      /\ bytes + 16 <= request2size(bytes) /\ CHUNK_OVERHEAD = 16
  BY <1>2, ConstantFacts, ChunkOfRequest
<1>6. pos \in Nat /\ lead \in 0..alignment + 31 /\ OffsetFits(lead)
  BY <1>2, <1>4, AlignedPlaceFacts
<1> HIDE DEF pos, lead, bytes, alignment
<1>7. lead \in Nat /\ lead <= old.size /\ lead < Length(old) /\ pos = p + lead
  <2>1. lead = pos - p
    BY DEF lead
  <2> QED
    BY <1>2, <1>4, <1>5, <1>6, <2>1
<1>8. /\ pos \in Nat \ {0} /\ pos \notin DOMAIN chunks \ {p}
      /\ Accounted(mapped', chunks', footprint')
  <2>1. /\ p + lead \in Nat \ {0} /\ (lead # 0 => p + lead \notin DOMAIN chunks)
        /\ Accounted(mapped, With(Without(chunks, p), p + lead, MovedChunk(chunks[p], lead)),
                     footprint)
    BY <1>3, <1>4, <1>7, ShiftChunk DEF IInv
  <2>2. lead = 0 => pos = p
    BY <1>2, <1>7
  <2> QED
    BY <1>1, <1>7, <2>1, <2>2
<1>9. c = [size |-> old.size - lead, offset |-> lead]
  <2>1. 0 + lead = lead
    BY <1>7
  <2> QED
    BY <1>4, <2>1 DEF MovedChunk
<1> HIDE DEF c
<1>10. /\ DOMAIN chunks' = (DOMAIN chunks \ {p}) \cup {pos} /\ chunks'[pos] = c
       /\ \A q \in DOMAIN chunks \ {p} : q # pos /\ chunks'[q] = chunks[q]
  BY <1>1, <1>8 DEF With, Without, Restrict, c
<1>11. /\ DOMAIN live' = DOMAIN live \cup {pos} /\ live'[pos] = bytes
       /\ \A q \in DOMAIN live : q # pos => live'[q] = live[q]
  BY <1>1 DEF With
<1>12. FlatFits(c, bytes) /\ OffsetFits(c.offset)
  <2>1. lead = 0 => old.size - lead >= bytes + 16
    BY <1>4, <1>5
  <2> QED
    BY <1>5, <1>6, <1>9, <2>1 DEF FlatFits
<1>13. /\ call' \in [Threads -> Calls] /\ call'[t] = Idle
       /\ \A u \in Threads : u # t => call'[u] = call[u]
  BY <1>1 DEF IInv, TypeInv, Finish, Calls
<1>14. Holding(call'[t]) = Ordinary /\ call'[t].op = "idle"
  BY <1>13 DEF Holding, Idle
<1>15. TypeInv'
  BY <1>1, <1>5, <1>11, <1>13 DEF IInv, TypeInv
<1> HIDE DEF p, old
<1>16. Owned'
  <2>1. \A u \in Threads : Holding(call'[u]) # Ordinary =>
          /\ u # t /\ Holding(call'[u]) = Holding(call[u])
          /\ Holding(call[u]) \in DOMAIN chunks \ {p}
          /\ Holding(call[u]) \notin DOMAIN live
    BY <1>3, <1>13, <1>14 DEF IInv, Owned
  <2>2. DOMAIN live' \subseteq DOMAIN chunks'
    BY <1>3, <1>10, <1>11 DEF IInv, Owned
  <2>3. \A u \in Threads :
          /\ Holding(call'[u]) # Ordinary => Holding(call'[u]) \in DOMAIN chunks' \ DOMAIN live'
          /\ call'[u].op \in {"move", "free", "align"} => call'[u].p # Ordinary
    BY <1>8, <1>10, <1>11, <1>13, <1>14, <2>1 DEF IInv, Owned
  <2>4. \A u, w \in Threads :
          u # w /\ Holding(call'[u]) = Holding(call'[w]) => Holding(call'[u]) = Ordinary
    BY <2>1 DEF IInv, Owned
  <2>5. \A q \in DOMAIN chunks' :
          q \in DOMAIN live' \/ \E u \in Threads : Holding(call'[u]) = q
    <3> SUFFICES ASSUME NEW q \in DOMAIN chunks, q # p, q \notin DOMAIN live
                 PROVE  \E u \in Threads : Holding(call'[u]) = q
      BY <1>10, <1>11
    <3>1. PICK u \in Threads : Holding(call[u]) = q
      BY DEF IInv, Owned
    <3>2. u # t
      BY <1>3, <3>1
    <3> QED
      BY <1>13, <3>1, <3>2
  <2> QED
    BY <2>2, <2>3, <2>4, <2>5 DEF Owned
<1>17. Fits'
  <2>1. \A u \in Threads : call'[u].op \in {"move", "align"} =>
          /\ u # t /\ call'[u] = call[u] /\ call[u].p \in DOMAIN chunks \ {p}
    BY <1>3, <1>13, <1>14 DEF IInv, Owned, Holding
  <2>2. \A q \in DOMAIN live : q \in DOMAIN chunks \ {p}
    BY <1>3 DEF IInv, Owned
  <2>3. \A q \in DOMAIN chunks' : OffsetFits(chunks'[q].offset)
    BY <1>10, <1>12 DEF IInv, Fits
  <2>4. \A q \in DOMAIN live' : FlatFits(chunks'[q], live'[q])
    BY <1>10, <1>11, <1>12, <2>2 DEF IInv, Fits
  <2>5. \A u \in Threads :
          /\ call'[u].op = "move" => FlatFits(chunks'[call'[u].p], call'[u].had)
          /\ call'[u].op = "align" =>
               RoomToAlign(chunks'[call'[u].p], call'[u].alignment, call'[u].bytes)
    BY <1>10, <2>1 DEF IInv, Fits
  <2> QED
    BY <2>3, <2>4, <2>5 DEF Fits
<1> QED
  BY <1>8, <1>15, <1>16, <1>17 DEF IInv

LEMMA StepReallocMoves ==
  ASSUME IInv, NEW t \in Threads, ReallocMoves(t) PROVE IInv'
<1> DEFINE p == call[t].p
           bytes == call[t].bytes
           had == call[t].had
           c == [op |-> "free", p |-> p]
<1>1. /\ call[t].op = "move" /\ UNCHANGED use_mmap
      /\ \/ /\ \E mm : Maps(bytes, mm) /\ Hand(mm, bytes)
            /\ call' = [call EXCEPT ![t] = c]
         \/ /\ UNCHANGED <<mapped, chunks, footprint>> /\ Hand(Ordinary, bytes)
            /\ call' = [call EXCEPT ![t] = c]
         \/ /\ Hand(p, had) /\ Finish(t) /\ UNCHANGED <<mapped, chunks, footprint>>
  BY DEF ReallocMoves, Malloc, Maps, Stays
<1>2. p \in Nat /\ bytes \in Served /\ had \in Requests
  BY <1>1 DEF IInv, TypeInv, Calls, Idle
<1>3. /\ p = Holding(call[t]) /\ p # Ordinary /\ p \in DOMAIN chunks \ DOMAIN live
      /\ \A u \in Threads : u # t => Holding(call[u]) # p
  BY <1>1 DEF IInv, Owned, Holding
<1>4. c \in Calls /\ Holding(c) = Holding(call[t]) /\ c.op = "free" /\ c.p = p
  BY <1>2, <1>3 DEF Calls, Holding
<1>5. bytes \in Requests /\ bytes \in 0..MAX_SIZE_T
  BY <1>2, ConstantFacts, MmappedAssumption
<1>6. \A u \in Threads : call[u].op \in {"move", "align"} => call[u].p \in DOMAIN chunks
  BY DEF IInv, Owned, Holding
<1> HIDE DEF c, p, bytes, had
<1>7. CASE /\ \E mm : Maps(bytes, mm) /\ Hand(mm, bytes)
           /\ call' = [call EXCEPT ![t] = c]
  <2>1. PICK mm : Maps(bytes, mm) /\ Hand(mm, bytes)
    BY <1>7
  <2>2. /\ mm \notin DOMAIN chunks /\ mm \in Nat \ {Ordinary}
        /\ DOMAIN chunks' = DOMAIN chunks \cup {mm}
        /\ \A q \in DOMAIN chunks : chunks'[q] = chunks[q]
        /\ Accounted(mapped', chunks', footprint')
    BY <1>5, <2>1, MapsFresh
  <2>3. FlatFits(chunks'[mm], bytes) /\ OffsetFits(chunks'[mm].offset)
    BY <1>5, <2>1, MapsFits
  <2>4. /\ DOMAIN live' = DOMAIN live \cup {mm} /\ live'[mm] = bytes
        /\ \A q \in DOMAIN live : q # mm => live'[q] = live[q]
    BY <2>1, <2>2 DEF Hand, With
  <2>5. /\ call' \in [Threads -> Calls] /\ call'[t] = c
        /\ \A u \in Threads : u # t => call'[u] = call[u]
    BY <1>4, <1>7 DEF IInv, TypeInv
  <2>6. TypeInv'
    BY <1>1, <1>5, <2>4, <2>5 DEF IInv, TypeInv
  <2>7. \A u \in Threads : Holding(call'[u]) = Holding(call[u]) /\ Holding(call[u]) # mm
    <3>1. \A u \in Threads : Holding(call[u]) # mm
      BY <2>2 DEF IInv, Owned
    <3> QED
      BY <1>4, <2>5, <3>1
  <2>8. Owned'
    <3>1. \A u \in Threads :
            call'[u].op \in {"move", "free", "align"} => call'[u].p # Ordinary
      BY <1>3, <1>4, <2>5 DEF IInv, Owned
    <3> QED
      BY <2>2, <2>4, <2>7, <3>1 DEF IInv, Owned
  <2>9. Fits'
    <3>1. \A q \in DOMAIN live' : FlatFits(chunks'[q], live'[q])
      BY <2>2, <2>3, <2>4 DEF IInv, Owned, Fits
    <3>2. \A u \in Threads : call'[u].op \in {"move", "align"} => u # t /\ call'[u] = call[u]
      BY <1>4, <2>5
    <3>3. \A q \in DOMAIN chunks' : OffsetFits(chunks'[q].offset)
      BY <2>2, <2>3 DEF IInv, Fits
    <3>4. \A u \in Threads :
            /\ call'[u].op = "move" => FlatFits(chunks'[call'[u].p], call'[u].had)
            /\ call'[u].op = "align" =>
                 RoomToAlign(chunks'[call'[u].p], call'[u].alignment, call'[u].bytes)
      BY <1>6, <2>2, <3>2 DEF IInv, Fits
    <3> QED
      BY <3>1, <3>3, <3>4 DEF Fits
  <2> QED
    BY <2>2, <2>6, <2>8, <2>9 DEF IInv
<1>8. CASE /\ UNCHANGED <<mapped, chunks, footprint>> /\ Hand(Ordinary, bytes)
           /\ call' = [call EXCEPT ![t] = c]
  <2>1. UNCHANGED live
    BY <1>8 DEF Hand
  <2>2. use_mmap' \in BOOLEAN
    BY <1>1 DEF IInv, TypeInv
  <2> QED
    BY <1>1, <1>4, <1>8, <2>1, <2>2, SameMemory
<1>9. CASE /\ Hand(p, had) /\ Finish(t) /\ UNCHANGED <<mapped, chunks, footprint>>
  <2>1. /\ DOMAIN live' = DOMAIN live \cup {p} /\ live'[p] = had
        /\ \A q \in DOMAIN live : q # p => live'[q] = live[q]
    BY <1>3, <1>9 DEF Hand, With
  <2>2. /\ call' \in [Threads -> Calls] /\ call'[t] = Idle
        /\ \A u \in Threads : u # t => call'[u] = call[u]
    BY <1>9 DEF IInv, TypeInv, Finish, Calls
  <2>3. Holding(call'[t]) = Ordinary /\ call'[t].op = "idle"
    BY <2>2 DEF Holding, Idle
  <2>4. TypeInv'
    BY <1>1, <1>2, <2>1, <2>2 DEF IInv, TypeInv
  <2>5. Owned'
    <3>1. \A u \in Threads : Holding(call'[u]) # Ordinary =>
            /\ u # t /\ Holding(call'[u]) = Holding(call[u])
            /\ Holding(call[u]) \in DOMAIN chunks \ {p}
            /\ Holding(call[u]) \notin DOMAIN live
      BY <1>3, <2>2, <2>3 DEF IInv, Owned
    <3>2. DOMAIN live' \subseteq DOMAIN chunks'
      BY <1>3, <1>9, <2>1 DEF IInv, Owned
    <3>3. \A u \in Threads :
            /\ Holding(call'[u]) # Ordinary => Holding(call'[u]) \in DOMAIN chunks' \ DOMAIN live'
            /\ call'[u].op \in {"move", "free", "align"} => call'[u].p # Ordinary
      BY <1>9, <2>1, <2>2, <2>3, <3>1 DEF IInv, Owned
    <3>4. \A u, w \in Threads :
            u # w /\ Holding(call'[u]) = Holding(call'[w]) => Holding(call'[u]) = Ordinary
      BY <3>1 DEF IInv, Owned
    <3>5. \A q \in DOMAIN chunks' :
            q \in DOMAIN live' \/ \E u \in Threads : Holding(call'[u]) = q
      <4> SUFFICES ASSUME NEW q \in DOMAIN chunks, q # p, q \notin DOMAIN live
                   PROVE  \E u \in Threads : Holding(call'[u]) = q
        BY <1>9, <2>1
      <4>1. PICK u \in Threads : Holding(call[u]) = q
        BY DEF IInv, Owned
      <4>2. u # t
        BY <1>3, <4>1
      <4> QED
        BY <2>2, <4>1, <4>2
    <3> QED
      BY <3>2, <3>3, <3>4, <3>5 DEF Owned
  <2>6. FlatFits(chunks[p], had)
    BY <1>1 DEF IInv, Fits, p, had
  <2>7. Fits'
    BY <1>9, <2>1, <2>2, <2>3, <2>6 DEF IInv, Fits
  <2> QED
    BY <1>9, <2>4, <2>5, <2>7 DEF IInv
<1> QED
  BY <1>1, <1>7, <1>8, <1>9 DEF p, bytes, had, c

LEMMA StepIallocMallocs ==
  ASSUME IInv, NEW t \in Threads, IallocMallocs(t) PROVE IInv'
<1> DEFINE c(p) == [op |-> "enable", was_enabled |-> call[t].was_enabled, p |-> p]
<1>1. PICK bytes \in Requests :
        \/ \E mm : Maps(bytes, mm) /\ call' = [call EXCEPT ![t] = c(mm)]
        \/ UNCHANGED <<mapped, chunks, footprint>> /\ call' = [call EXCEPT ![t] = c(Ordinary)]
  BY DEF IallocMallocs, Malloc, Maps
<1>2. call[t].op = "batch" /\ UNCHANGED <<use_mmap, live>>
  BY DEF IallocMallocs
<1>3. call[t].was_enabled \in BOOLEAN
  BY <1>2 DEF IInv, TypeInv, Calls, Idle
<1>4. \A p \in Nat : c(p) \in Calls /\ Holding(c(p)) = p /\ c(p).op = "enable"
  BY <1>3 DEF Calls, Holding
<1> HIDE DEF c
<1>5. CASE \E mm : Maps(bytes, mm) /\ call' = [call EXCEPT ![t] = c(mm)]
  <2>1. PICK mm : Maps(bytes, mm) /\ call' = [call EXCEPT ![t] = c(mm)]
    BY <1>5
  <2>2. /\ mm \notin DOMAIN chunks /\ mm \in Nat \ {Ordinary}
        /\ DOMAIN chunks' = DOMAIN chunks \cup {mm}
        /\ \A q \in DOMAIN chunks : chunks'[q] = chunks[q]
        /\ Accounted(mapped', chunks', footprint')
    BY <2>1, MapsFresh, MmappedAssumption
  <2>3. OffsetFits(chunks'[mm].offset)
    BY <2>1, MapsFits
  <2>4. Owned'
    BY <1>2, <1>4, <2>1, <2>2, Takes
  <2>5. /\ call' \in [Threads -> Calls] /\ call'[t] = c(mm)
        /\ \A u \in Threads : u # t => call'[u] = call[u]
    BY <1>4, <2>1, <2>2 DEF IInv, TypeInv
  <2>6. TypeInv'
    BY <1>2, <2>5 DEF IInv, TypeInv
  <2>7. Fits'
    <3>1. \A u \in Threads : call[u].op \in {"move", "align"} => call[u].p \in DOMAIN chunks
      BY DEF IInv, Owned, Holding
    <3>2. \A q \in DOMAIN live' : FlatFits(chunks'[q], live'[q])
      BY <1>2, <2>2 DEF IInv, Owned, Fits
    <3>3. \A q \in DOMAIN chunks' : OffsetFits(chunks'[q].offset)
      BY <2>2, <2>3 DEF IInv, Fits
    <3>4. \A u \in Threads : call'[u].op \in {"move", "align"} => u # t /\ call'[u] = call[u]
      BY <1>4, <2>2, <2>5
    <3>5. \A u \in Threads :
            /\ call'[u].op = "move" => FlatFits(chunks'[call'[u].p], call'[u].had)
            /\ call'[u].op = "align" =>
                 RoomToAlign(chunks'[call'[u].p], call'[u].alignment, call'[u].bytes)
      BY <2>2, <3>1, <3>4 DEF IInv, Fits
    <3> QED
      BY <3>2, <3>3, <3>5 DEF Fits
  <2> QED
    BY <2>2, <2>4, <2>6, <2>7 DEF IInv
<1>6. CASE UNCHANGED <<mapped, chunks, footprint>> /\ call' = [call EXCEPT ![t] = c(Ordinary)]
  <2>1. Holding(call[t]) = Ordinary /\ Ordinary \in Nat
    BY <1>2 DEF Holding, Ordinary
  <2>2. use_mmap' \in BOOLEAN
    BY <1>2 DEF IInv, TypeInv
  <2>3. c(Ordinary) \in Calls /\ Holding(c(Ordinary)) = Ordinary /\ c(Ordinary).op = "enable"
    BY <1>4, <2>1
  <2> QED
    BY <1>2, <1>6, <2>1, <2>2, <2>3, SameMemory
<1> QED
  BY <1>1, <1>5, <1>6

\* The steps of ialloc and of mspace_mmap_large_chunks that touch no chunk
LEMMA StepSettings ==
  ASSUME IInv, NEW t \in Threads,
         ialloc(t) \/ IallocEnables(t) \/ IallocSplits(t) \/ mspace_mmap_large_chunks(t)
  PROVE  IInv'
<1>1. CASE ialloc(t)
  <2> DEFINE c == [op |-> "batch", was_enabled |-> use_mmap]
  <2>1. c \in Calls /\ Holding(c) = Holding(call[t]) /\ c.op = "batch"
    BY <1>1 DEF ialloc, Calls, Holding, Idle, IInv, TypeInv
  <2>2. /\ call' = [call EXCEPT ![t] = c] /\ use_mmap' \in BOOLEAN
        /\ UNCHANGED <<mapped, chunks, footprint, live>>
    BY <1>1 DEF ialloc, ForIalloc
  <2> HIDE DEF c
  <2> QED
    BY <2>1, <2>2, SameMemory
<1>2. CASE IallocEnables(t)
  <2> DEFINE c == [op |-> "split", p |-> call[t].p]
  <2>1. call[t].p \in Nat /\ call[t].was_enabled \in BOOLEAN
    BY <1>2 DEF IallocEnables, Calls, Idle, IInv, TypeInv
  <2>2. c \in Calls /\ Holding(c) = Holding(call[t]) /\ c.op = "split"
    BY <1>2, <2>1 DEF IallocEnables, Calls, Holding
  <2>3. /\ call' = [call EXCEPT ![t] = c] /\ use_mmap' \in BOOLEAN
        /\ UNCHANGED <<mapped, chunks, footprint, live>>
    BY <1>2, <2>1 DEF IallocEnables, IInv, TypeInv
  <2> HIDE DEF c
  <2> QED
    BY <2>2, <2>3, SameMemory
<1>3. CASE IallocSplits(t)
  <2>1. Idle \in Calls /\ Holding(Idle) = Holding(call[t]) /\ Idle.op = "idle"
    BY <1>3 DEF IallocSplits, Calls, Holding, Idle
  <2>2. /\ call' = [call EXCEPT ![t] = Idle] /\ use_mmap' \in BOOLEAN
        /\ UNCHANGED <<mapped, chunks, footprint, live>>
    BY <1>3 DEF IallocSplits, Finish, IInv, TypeInv
  <2> QED
    BY <2>1, <2>2, SameMemory
<1>4. CASE mspace_mmap_large_chunks(t)
  BY <1>4 DEF mspace_mmap_large_chunks, IInv, TypeInv, Owned, Fits
<1> QED
  BY <1>1, <1>2, <1>3, <1>4

-----------------------------------------------------------------------------
(* The theorems. *)

LEMMA InitIInv == Init => IInv
<1> SUFFICES ASSUME Init PROVE IInv
  OBVIOUS
<1>1. DOMAIN chunks = {} /\ DOMAIN live = {}
  BY DEF Init
<1>2. Accounted(mapped, chunks, footprint)
  <2>1. mapped = {} /\ footprint = 0
    BY DEF Init
  <2>2. IsFiniteSet({}) /\ Cardinality({}) = 0
    BY FS_EmptySet
  <2>3. footprint = PageSize * Cardinality(mapped)
    BY <2>1, <2>2, PageFacts
  <2> QED
    BY <1>1, <2>1, <2>2, <2>3 DEF Accounted
<1>3. TypeInv
  BY <1>1 DEF Init, TypeInv, Calls
<1>4. \A t \in Threads : Holding(call[t]) = Ordinary /\ call[t].op = "idle"
  BY DEF Init, Holding, Idle
<1>5. Owned
  BY <1>1, <1>4 DEF Owned
<1>6. Fits
  BY <1>1, <1>4 DEF Fits
<1> QED
  BY <1>2, <1>3, <1>5, <1>6 DEF IInv

LEMMA NextIInv == ASSUME ModestCallers, IInv, [Next]_vars PROVE IInv'
<1>1. CASE UNCHANGED vars
  BY <1>1 DEF vars, IInv, TypeInv, Owned, Fits
<1>2. CASE Next
  <2>1. PICK t \in Threads :
          \/ mspace_malloc(t) \/ mspace_free(t) \/ mspace_realloc(t) \/ ReallocMoves(t)
          \/ FreeOld(t) \/ mspace_memalign(t) \/ MemalignAligns(t)
          \/ ialloc(t) \/ IallocMallocs(t) \/ IallocEnables(t) \/ IallocSplits(t)
          \/ mspace_mmap_large_chunks(t)
    BY <1>2 DEF Next
  <2> QED
    BY <2>1, StepMalloc, StepFree, StepRealloc, StepReallocMoves, StepFreeOld, StepMemalign,
       StepAligns, StepIallocMallocs, StepSettings
<1> QED
  BY <1>1, <1>2

LEMMA InvariantHolds == ModestCallers => (Spec => []IInv)
<1> SUFFICES ASSUME ModestCallers PROVE Spec => []IInv
  OBVIOUS
<1>1. Init => IInv
  BY InitIInv
<1>2. IInv /\ [Next]_vars => IInv'
  BY NextIInv
<1> QED
  BY <1>1, <1>2, PTL DEF Spec

LEMMA InvariantAccounts == IInv => MappingsAccounted
<1> SUFFICES ASSUME IInv PROVE MappingsAccounted
  OBVIOUS
<1>1. \A p \in DOMAIN chunks :
        /\ WellMapped(p, chunks[p]) /\ MappingOf(p) = Mapping(p, chunks[p])
        /\ MappingOf(p) \subseteq mapped
  BY DEF IInv, Accounted, MappingOf, Mapping
<1>2. TypeOK
  <2>1. footprint \in Nat
    BY FS_CardinalityType, PageFacts DEF IInv, Accounted
  <2> QED
    BY <1>1, <2>1 DEF TypeOK, IInv, Accounted, TypeInv, Owned, WellMapped, AChunk
<1>3. MappingsExact
  <2>1. \A p, q \in DOMAIN chunks : p # q => MappingOf(p) \cap MappingOf(q) = {}
    BY <1>1 DEF IInv, Accounted
  <2> QED
    BY <1>1, <2>1 DEF MappingsExact, WellMapped
<1>4. FootprintExact
  BY DEF FootprintExact, IInv, Accounted
<1>5. NoChunkLost
  <2> SUFFICES ASSUME NEW p \in DOMAIN chunks PROVE p \in DOMAIN live <=> ~InCall(p)
    BY DEF NoChunkLost
  <2>1. p # Ordinary
    BY <1>1 DEF WellMapped, Ordinary
  <2>2. InCall(p) <=> \E t \in Threads : Holding(call[t]) = p
    BY <2>1 DEF InCall, Holding
  <2> QED
    BY <2>1, <2>2 DEF IInv, Owned
<1> QED
  BY <1>2, <1>3, <1>4, <1>5 DEF MappingsAccounted

LEMMA InvariantFits == IInv => BlocksFit
<1> SUFFICES ASSUME IInv PROVE BlocksFit
  OBVIOUS
<1>1. FlatChunksLongEnough
  BY DEF FlatChunksLongEnough, LongEnough, FlatFits, IInv, Fits
<1>2. AlignmentFits
  <2> SUFFICES ASSUME NEW t \in Threads, call[t].op = "align"
               PROVE  LET c == call[t]
                          pos == AlignedPlace(c.p, c.alignment)
                      IN  /\ (pos + CHUNK_OVERHEAD) % c.alignment = 0
                          /\ chunks[c.p].size - (pos - c.p) >= request2size(c.bytes)
    BY DEF AlignmentFits
  <2> DEFINE p == call[t].p
             alignment == call[t].alignment
             bytes == call[t].bytes
             lead == AlignedPlace(p, alignment) - p
             size == chunks[p].size
  <2>1. p \in Nat /\ alignment \in Alignments /\ bytes \in Served
    BY DEF IInv, TypeInv, Calls, Idle
  <2>2. /\ (AlignedPlace(p, alignment) + CHUNK_OVERHEAD) % alignment = 0
        /\ lead \in 0..alignment + 31
    BY <2>1, AlignedPlaceFacts
  <2>3. size >= request2size(bytes) + alignment + 32
    BY ConstantFacts DEF IInv, Fits, RoomToAlign
  <2>4. size \in Nat
    <3>1. p \in DOMAIN chunks
      BY DEF IInv, Owned, Holding
    <3> QED
      BY <3>1, PageFacts DEF IInv, Accounted, WellMapped, AChunk
  <2>5. request2size(bytes) \in Nat /\ alignment \in Nat
    BY <2>1, ConstantFacts, ChunkOfRequest
  <2> HIDE DEF lead, size, alignment, bytes
  <2>6. size - lead >= request2size(bytes)
    BY <2>2, <2>3, <2>4, <2>5
  <2> QED
    BY <2>2, <2>6 DEF lead, size, alignment, bytes
<1> QED
  BY <1>1, <1>2 DEF BlocksFit

\* Whatever callers that are modest ask for, in any order and from any number of
\* threads, every page that is mapped belongs to one chunk or was refused by munmap,
\* the footprint counts it, and every chunk is with one caller or call.
THEOREM MappingsAreAccounted == ModestCallers => (Spec => []MappingsAccounted)
<1> SUFFICES ASSUME ModestCallers PROVE Spec => []MappingsAccounted
  OBVIOUS
<1>1. Spec => []IInv
  BY InvariantHolds
<1>2. IInv => MappingsAccounted
  BY InvariantAccounts
<1> QED
  BY <1>1, <1>2, PTL

\* A block that begins its mapping holds what was asked, after any number of resizes,
\* and memalign always finds its aligned chunk in the one that malloc gave it.
THEOREM BlocksAlwaysFit == ModestCallers => (Spec => []BlocksFit)
<1> SUFFICES ASSUME ModestCallers PROVE Spec => []BlocksFit
  OBVIOUS
<1>1. Spec => []IInv
  BY InvariantHolds
<1>2. IInv => BlocksFit
  BY InvariantFits
<1> QED
  BY <1>1, <1>2, PTL
=============================================================================
