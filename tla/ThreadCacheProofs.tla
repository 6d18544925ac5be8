------------------------- MODULE ThreadCacheProofs -------------------------
(***************************************************************************)
(* The thread caches of ThreadCache, proved for every set of blocks, any   *)
(* sizes and any number of bins.                                           *)
(***************************************************************************)
EXTENDS ThreadCache, FiniteSetTheorems, WellFoundedInduction, TLAPS

-----------------------------------------------------------------------------
(* Numbers. *)

\* A nonempty set of numbers has a least one.
LEMMA LeastNumber ==
  ASSUME NEW T \in SUBSET Nat, T # {}
  PROVE  \E least \in T : \A m \in T : least <= m
<1> DEFINE R == OpToRel(<, Nat)
<1>1. IsWellFoundedOn(R, Nat)
  BY NatLessThanWellFounded
<1> HIDE DEF R
<1>2. PICK least \in T : \A m \in T : ~(<<m, least>> \in R)
  BY <1>1, WFMin
<1>3. \A m, k \in Nat : <<m, k>> \in R <=> m < k
  BY DEF R, OpToRel
<1>4. ASSUME NEW m \in T PROVE least <= m
  <2>1. ~(<<m, least>> \in R) /\ m \in Nat /\ least \in Nat
    BY <1>2
  <2> QED
    BY <1>3, <2>1
<1> QED
  BY <1>4

\* A nonempty bounded set of numbers has a largest one.
LEMMA MaxOfNumbers ==
  ASSUME NEW n \in Nat, NEW T \in SUBSET (0..n), T # {}
  PROVE  Max(T) \in T /\ \A m \in T : m <= Max(T)
<1> DEFINE U == {b \in Nat : \A m \in T : m <= b}
<1>1. n \in U
  OBVIOUS
<1>2. PICK b \in U : \A c \in U : b <= c
  BY <1>1, LeastNumber
<1>3. b \in T
  <2>1. SUFFICES ASSUME b \notin T PROVE FALSE
    OBVIOUS
  <2>2. \A m \in T : m <= b /\ m # b /\ m \in Nat
    BY <2>1
  <2>3. b \in Nat /\ b > 0
    <3>1. PICK x \in T : TRUE
      OBVIOUS
    <3>2. b \in Nat /\ x \in Nat /\ x <= b /\ x # b
      BY <2>2, <3>1
    <3> QED
      BY <3>2
  <2>4. \A m \in T : m <= b - 1
    BY <2>2, <2>3
  <2>5. b - 1 \in U
    BY <2>3, <2>4
  <2> QED
    BY <1>2, <2>3, <2>5
<1>4. \A y \in T : b >= y
  BY <1>2
<1>5. \E x \in T : \A y \in T : x >= y
  BY <1>3, <1>4
<1>6. Max(T) \in T /\ \A y \in T : Max(T) >= y
  BY <1>5 DEF Max
<1> QED
  BY <1>6

LEMMA MaxOfTwo ==
  ASSUME NEW a \in Nat, NEW b \in Nat
  PROVE  Max({a, b}) = IF a >= b THEN a ELSE b
<1>1. \E x \in {a, b} : \A y \in {a, b} : x >= y
  OBVIOUS
<1> QED
  BY <1>1 DEF Max

LEMMA MinOfTwo ==
  ASSUME NEW a \in Nat, NEW b \in Nat
  PROVE  Min({a, b}) = IF a <= b THEN a ELSE b
<1>1. \E x \in {a, b} : \A y \in {a, b} : x <= y
  OBVIOUS
<1> QED
  BY <1>1 DEF Min

LEMMA PowerIsNumber ==
  ASSUME NEW k \in 0..WordBits + 5
  PROVE  2^k \in Nat \ {0}
<1>1. WordBits \in Nat
  BY ThreadCacheAssumption
<1>2. CASE k <= WordBits + 4
  BY <1>1, <1>2, PowersOfTwo
<1>3. CASE k = WordBits + 5
  <2>1. 2^((WordBits + 4) + 1) = 2 * 2^(WordBits + 4) /\ 2^(WordBits + 4) \in Nat \ {0}
    BY <1>1, PowersOfTwo
  <2>2. (WordBits + 4) + 1 = k
    BY <1>1, <1>3
  <2> QED
    BY <2>1, <2>2
<1> QED
  BY <1>1, <1>2, <1>3

LEMMA PowersGrow ==
  ASSUME NEW i \in 0..WordBits + 5, NEW j \in 0..WordBits + 5, i < j
  PROVE  2^i < 2^j
<1> DEFINE T == {m \in Nat : m \in i + 1..WordBits + 5 /\ ~(2^i < 2^m)}
<1>1. WordBits \in Nat
  BY ThreadCacheAssumption
<1>2. SUFFICES ASSUME ~(2^i < 2^j) PROVE FALSE
  OBVIOUS
<1>3. j \in T
  BY <1>1, <1>2
<1>4. PICK m \in T : \A k \in T : m <= k
  BY <1>3, LeastNumber
<1>5. m \in Nat /\ m - 1 \in 0..WordBits + 4 /\ m - 1 >= i /\ (m - 1) + 1 = m
  BY <1>1, <1>4
<1>6. 2^m = 2 * 2^(m - 1) /\ 2^(m - 1) \in Nat \ {0}
  <2>1. 2^((m - 1) + 1) = 2 * 2^(m - 1) /\ 2^(m - 1) \in Nat \ {0}
    BY <1>5, PowersOfTwo
  <2> QED
    BY <2>1, <1>5
<1>7. 2^i <= 2^(m - 1)
  <2>1. CASE m - 1 = i
    BY <2>1, <1>6
  <2>2. CASE m - 1 # i
    <3>1. m - 1 \notin T
      BY <1>4, <1>5
    <3>2. 2^i < 2^(m - 1)
      BY <3>1, <2>2, <1>1, <1>5
    <3>3. 2^i \in Nat
      BY <1>1, PowerIsNumber
    <3> QED
      BY <3>2, <3>3, <1>6
  <2> QED
    BY <2>1, <2>2
<1>8. 2^i \in Nat
  BY <1>1, PowerIsNumber
<1> QED
  BY <1>4, <1>6, <1>7, <1>8

-----------------------------------------------------------------------------
(* The bin of a size. *)

\* What the prover is to know of the constants
LEMMA CacheFacts ==
  /\ CacheMaxBins \in Nat \ {0} /\ WordBits \in Nat /\ CacheMaxBins <= WordBits
  /\ \A k \in Bins : 2^(k + 4) \in Nat /\ 16 <= 2^(k + 4) /\ 2^(k + 4) <= CacheMax
  /\ CacheMax \in Nat /\ 32 <= CacheMax /\ 2^(CacheMaxBins + 5) = 2 * CacheMax
  /\ MaxFreeSpace \in Nat /\ CacheMax < MaxFreeSpace
  /\ StartAge \in Nat \ {0}
<1>1. /\ CacheMaxBins \in Nat \ {0} /\ WordBits \in Nat /\ CacheMaxBins <= WordBits
      /\ MaxFreeSpace \in Nat /\ CacheMax < MaxFreeSpace
  BY ThreadCacheAssumption
<1>2. \A k \in Bins : 2^(k + 4) \in Nat /\ 16 <= 2^(k + 4) /\ 2^(k + 4) <= CacheMax
  <2> SUFFICES ASSUME NEW k \in Bins
               PROVE  2^(k + 4) \in Nat /\ 16 <= 2^(k + 4) /\ 2^(k + 4) <= CacheMax
    OBVIOUS
  <2>1. k + 4 \in 0..WordBits + 5 /\ CacheMaxBins + 4 \in 0..WordBits + 5 /\ 4 \in 0..WordBits + 5
    BY <1>1 DEF Bins
  <2>2. 2^(k + 4) \in Nat /\ CacheMax \in Nat
    BY <2>1, PowerIsNumber DEF CacheMax
  <2>3. 16 <= 2^(k + 4)
    <3>1. CASE k = 0
      BY <3>1, PowersOfTwo
    <3>2. CASE k # 0
      <4>1. 4 < k + 4
        BY <3>2 DEF Bins
      <4>2. 2^4 < 2^(k + 4)
        BY <2>1, <4>1, PowersGrow
      <4>3. 2^4 = 16
        BY PowersOfTwo
      <4> QED
        BY <4>2, <4>3, <2>2
    <3> QED
      BY <3>1, <3>2
  <2>4. 2^(k + 4) <= CacheMax
    BY <1>1, <2>1, <2>2, PowersGrow DEF Bins, CacheMax
  <2> QED
    BY <2>2, <2>3, <2>4
<1>3. CacheMax \in Nat /\ 32 <= CacheMax /\ 2^(CacheMaxBins + 5) = 2 * CacheMax
  <2>1. CacheMaxBins + 4 \in 0..WordBits + 4 /\ (CacheMaxBins + 4) + 1 = CacheMaxBins + 5
    BY <1>1
  <2>2. 2^((CacheMaxBins + 4) + 1) = 2 * CacheMax /\ CacheMax \in Nat
    BY <2>1, PowersOfTwo DEF CacheMax
  <2>3. 2^(CacheMaxBins + 5) = 2 * CacheMax
    BY <2>1, <2>2
  <2>4. CacheMax = 2 * 2^(CacheMaxBins + 3) /\ 2^(CacheMaxBins + 3) \in Nat
    <3>1. CacheMaxBins + 3 \in 0..WordBits + 4 /\ (CacheMaxBins + 3) + 1 = CacheMaxBins + 4
      BY <1>1
    <3>2. 2^((CacheMaxBins + 3) + 1) = 2 * 2^(CacheMaxBins + 3) /\ 2^(CacheMaxBins + 3) \in Nat
      BY <3>1, PowersOfTwo
    <3> QED
      BY <3>1, <3>2 DEF CacheMax
  <2>5. 16 <= 2^(CacheMaxBins + 3)
    <3>1. CacheMaxBins - 1 \in Bins /\ (CacheMaxBins - 1) + 4 = CacheMaxBins + 3
      BY <1>1 DEF Bins
    <3>2. 16 <= 2^((CacheMaxBins - 1) + 4)
      BY <3>1, <1>2
    <3> QED
      BY <3>1, <3>2
  <2> QED
    BY <2>2, <2>3, <2>4, <2>5
<1>4. StartAge \in Nat \ {0}
  BY <1>1, <1>3 DEF StartAge
<1> QED
  BY <1>1, <1>2, <1>3, <1>4

\* Every size that is cached has a bin.
LEMMA BinOfSize ==
  ASSUME NEW size \in Nat, 16 <= size, size < 2 * CacheMax
  PROVE  /\ size2binidx(size) \in Bins
         /\ 2^(size2binidx(size) + 4) <= size /\ size < 2^(size2binidx(size) + 5)
<1> DEFINE T == {k \in Nat : k <= CacheMaxBins /\ size < 2^(k + 5)}
<1>1. CacheMaxBins \in T
  BY CacheFacts
<1>2. PICK k \in T : \A m \in T : k <= m
  BY <1>1, LeastNumber
<1>3. k \in 0..WordBits /\ 2^(k + 4) <= size
  <2>1. CASE k = 0
    BY <2>1, CacheFacts, PowersOfTwo
  <2>2. CASE k # 0
    <3>1. k - 1 \in Nat /\ k - 1 <= CacheMaxBins /\ (k - 1) + 5 = k + 4 /\ k - 1 \notin T
      BY <1>2, <2>2, CacheFacts
    <3>2. ~(size < 2^(k + 4))
      BY <3>1
    <3>3. k + 4 \in 0..WordBits + 5
      BY <1>2, CacheFacts
    <3> QED
      BY <3>2, <3>3, <1>2, PowerIsNumber, CacheFacts
  <2> QED
    BY <2>1, <2>2
<1>4. /\ size2binidx(size) \in 0..WordBits
      /\ 2^(size2binidx(size) + 4) <= size /\ size < 2^(size2binidx(size) + 5)
  BY <1>2, <1>3 DEF size2binidx
<1>5. size2binidx(size) <= CacheMaxBins
  <2> DEFINE idx == size2binidx(size)
  <2> HIDE DEF idx
  <2>0. idx \in 0..WordBits /\ 2^(idx + 4) <= size
    BY <1>4 DEF idx
  <2>1. SUFFICES ASSUME idx > CacheMaxBins PROVE FALSE
    BY <2>0, CacheFacts DEF idx
  <2>2. idx + 4 \in 0..WordBits + 5 /\ CacheMaxBins + 5 \in 0..WordBits + 5
    BY <2>0, CacheFacts
  <2>3. 2^(idx + 4) >= 2^(CacheMaxBins + 5)
    <3>1. CASE idx + 4 = CacheMaxBins + 5
      BY <3>1, CacheFacts
    <3>2. CASE idx + 4 # CacheMaxBins + 5
      BY <3>2, <2>0, <2>1, <2>2, CacheFacts, PowersGrow, PowerIsNumber
    <3> QED
      BY <3>1, <3>2
  <2> QED
    BY <2>0, <2>2, <2>3, CacheFacts, PowerIsNumber
<1> QED
  BY <1>4, <1>5, CacheFacts DEF Bins

\* A request is served from a bin whose blocks are as large.
LEMMA BinOfRequest ==
  ASSUME NEW size \in Nat, 16 <= size, size <= CacheMax
  PROVE  /\ BestBin(size) \in Bins /\ BestSize(size) = 2^(BestBin(size) + 4)
         /\ size <= BestSize(size) /\ BestSize(size) <= CacheMax /\ BestSize(size) \in Nat
<1> DEFINE idx == size2binidx(size)
<1> HIDE DEF idx
<1>1. idx \in Bins /\ 2^(idx + 4) <= size /\ size < 2^(idx + 5)
  BY BinOfSize, CacheFacts DEF idx
<1>2. BestBin(size) = IF size > 2^(idx + 4) THEN idx + 1 ELSE idx
  BY DEF BestBin, idx
<1>3. BestSize(size) = 2^(BestBin(size) + 4)
  BY DEF BestSize
<1>4. CASE size > 2^(idx + 4)
  <2>1. idx # CacheMaxBins
    BY <1>4, CacheFacts DEF CacheMax
  <2>2. idx + 1 \in Bins /\ BestBin(size) = idx + 1 /\ (idx + 1) + 4 = idx + 5
    BY <1>1, <1>2, <1>4, <2>1, CacheFacts DEF Bins
  <2>3. BestSize(size) = 2^((idx + 1) + 4)
    BY <2>2, <1>3
  <2>4. size < BestSize(size)
    BY <2>2, <2>3, <1>1
  <2> QED
    BY <2>2, <2>3, <2>4, <1>3, CacheFacts
<1>5. CASE ~(size > 2^(idx + 4))
  <2>1. BestBin(size) = idx
    BY <1>2, <1>5
  <2>2. BestSize(size) = 2^(idx + 4)
    BY <2>1, <1>3
  <2> QED
    BY <2>1, <2>2, <1>1, <1>3, <1>5, CacheFacts
<1> QED
  BY <1>4, <1>5

-----------------------------------------------------------------------------
(* The bytes of entries. *)

Entry == [blk : Blocks, size : 1..CacheMax, age : 0..StartAge]
Bytes(entries) == UNION {{e.blk} \X (1..e.size) : e \in entries}
Blks(entries) == {e.blk : e \in entries}
Distinct(entries) == \A e, f \in entries : e.blk = f.blk => e = f

LEMMA BytesAre ==
  ASSUME NEW S
  PROVE  /\ SizeOf(S) = Cardinality(Bytes(S))
         /\ \A p : p \in Bytes(S) <=> \E e \in S : p \in {e.blk} \X (1..e.size)
  BY DEF SizeOf, Bytes

LEMMA BytesFinite ==
  ASSUME NEW S \in SUBSET Entry
  PROVE  IsFiniteSet(Bytes(S)) /\ SizeOf(S) \in Nat
<1>1. IsFiniteSet(Blocks) /\ IsFiniteSet(1..CacheMax)
  BY ThreadCacheAssumption, CacheFacts, FS_Interval
<1>2. IsFiniteSet(Blocks \X (1..CacheMax))
  BY <1>1, FS_Product
<1>3. Bytes(S) \in SUBSET (Blocks \X (1..CacheMax))
  <2> SUFFICES ASSUME NEW p \in Bytes(S) PROVE p \in Blocks \X (1..CacheMax)
    OBVIOUS
  <2>1. PICK e \in S : p \in {e.blk} \X (1..e.size)
    BY BytesAre
  <2>2. e.blk \in Blocks /\ e.size \in 1..CacheMax
    BY <2>1 DEF Entry
  <2> QED
    BY <2>1, <2>2, CacheFacts
<1> QED
  BY <1>2, <1>3, FS_Subset, FS_CardinalityType, BytesAre

LEMMA SizeOfNone == SizeOf({}) = 0
<1>1. Bytes({}) = {}
  BY DEF Bytes
<1> QED
  BY <1>1, FS_EmptySet, BytesAre

LEMMA SizeOfOne ==
  ASSUME NEW e \in Entry
  PROVE  SizeOf({e}) = e.size
<1>1. e.size \in Nat /\ e.size >= 1
  BY CacheFacts DEF Entry
<1>2. Bytes({e}) = {e.blk} \X (1..e.size)
  BY DEF Bytes
<1>3. IsFiniteSet(1..e.size) /\ Cardinality(1..e.size) = e.size
  BY <1>1, FS_Interval
<1>4. IsFiniteSet({e.blk}) /\ Cardinality({e.blk}) = 1
  BY FS_Singleton
<1>5. Cardinality({e.blk} \X (1..e.size)) = Cardinality({e.blk}) * Cardinality(1..e.size)
  BY <1>3, <1>4, FS_Product
<1>6. Cardinality({e.blk} \X (1..e.size)) = 1 * e.size
  BY <1>3, <1>4, <1>5
<1>7. SizeOf({e}) = Cardinality({e.blk} \X (1..e.size))
  BY <1>2 DEF SizeOf, Bytes
<1> QED
  BY <1>1, <1>6, <1>7

\* Of entries of distinct blocks the sizes add up.
LEMMA SizeOfRest ==
  ASSUME NEW S \in SUBSET Entry, Distinct(S), NEW T \in SUBSET S
  PROVE  SizeOf(S) = SizeOf(T) + SizeOf(S \ T)
<1>1. IsFiniteSet(Bytes(T)) /\ IsFiniteSet(Bytes(S \ T))
  BY BytesFinite
<1>2. Bytes(S) = Bytes(T) \cup Bytes(S \ T)
  BY DEF Bytes
<1>3. Bytes(T) \cap Bytes(S \ T) = {}
  <2> SUFFICES ASSUME NEW p \in Bytes(T), p \in Bytes(S \ T) PROVE FALSE
    OBVIOUS
  <2>1. PICK e \in T : p \in {e.blk} \X (1..e.size)
    BY BytesAre
  <2>2. PICK f \in S \ T : p \in {f.blk} \X (1..f.size)
    BY BytesAre
  <2>3. e.blk = f.blk
    BY <2>1, <2>2
  <2> QED
    BY <2>1, <2>2, <2>3 DEF Distinct
<1>4. Cardinality(Bytes(S)) = Cardinality(Bytes(T)) + Cardinality(Bytes(S \ T))
                                - Cardinality(Bytes(T) \cap Bytes(S \ T))
  BY <1>1, <1>2, FS_Union
<1>5. Cardinality(Bytes(T) \cap Bytes(S \ T)) = 0
  BY <1>3, FS_EmptySet
<1>6. SizeOf(T) \in Nat /\ SizeOf(S \ T) \in Nat
  BY BytesFinite
<1> QED
  BY <1>4, <1>5, <1>6, BytesAre

\* Only when there is no entry is there no byte.
LEMMA SizeOfSome ==
  ASSUME NEW S \in SUBSET Entry, Distinct(S), NEW e \in S
  PROVE  SizeOf(S) >= e.size /\ SizeOf(S \ {e}) = SizeOf(S) - e.size /\ e.size \in Nat \ {0}
<1>0. {e} \in SUBSET S
  OBVIOUS
<1>1. SizeOf(S) = SizeOf({e}) + SizeOf(S \ {e})
  BY <1>0, SizeOfRest
<1>2. SizeOf({e}) = e.size
  BY SizeOfOne
<1>3. SizeOf(S \ {e}) \in Nat /\ e.size \in Nat \ {0}
  BY BytesFinite, CacheFacts DEF Entry
<1>4. SizeOf(S) = e.size + SizeOf(S \ {e})
  BY <1>1, <1>2
<1>5. SizeOf(S) \in Nat
  BY BytesFinite
<1> QED
  BY <1>3, <1>4, <1>5

\* The age does not count.
LEMMA SizeOfSame ==
  ASSUME NEW S, NEW T,
         \A e \in S : \E f \in T : e.blk = f.blk /\ e.size = f.size,
         \A f \in T : \E e \in S : e.blk = f.blk /\ e.size = f.size
  PROVE  SizeOf(S) = SizeOf(T)
<1>1. Bytes(S) = Bytes(T)
  <2>1. ASSUME NEW p \in Bytes(S) PROVE p \in Bytes(T)
    <3>1. PICK e \in S : p \in {e.blk} \X (1..e.size)
      BY BytesAre
    <3>2. PICK f \in T : e.blk = f.blk /\ e.size = f.size
      OBVIOUS
    <3> QED
      BY <3>1, <3>2, BytesAre
  <2>2. ASSUME NEW p \in Bytes(T) PROVE p \in Bytes(S)
    <3>1. PICK f \in T : p \in {f.blk} \X (1..f.size)
      BY BytesAre
    <3>2. PICK e \in S : e.blk = f.blk /\ e.size = f.size
      OBVIOUS
    <3> QED
      BY <3>1, <3>2, BytesAre
  <2> QED
    BY <2>1, <2>2
<1> QED
  BY <1>1, BytesAre

-----------------------------------------------------------------------------
(* One bin. *)

Aged(e) == [e EXCEPT !.age = Min({@ + 1, StartAge})]

BinSound(k, bin) ==
  /\ bin \in Seq(Entry)
  /\ \A i \in DOMAIN bin :
       /\ bin[i].size = 2^(k + 4) /\ bin[i].size <= Usable[bin[i].blk] /\ Fits(bin[i].blk)
  /\ \A i, j \in DOMAIN bin : i < j => bin[i].age <= bin[j].age
  /\ \A i, j \in DOMAIN bin : bin[i].blk = bin[j].blk => i = j

LEMMA EntriesOfBin ==
  ASSUME NEW k \in Bins, NEW bin, BinSound(k, bin)
  PROVE  /\ ToSet(bin) \in SUBSET Entry /\ Distinct(ToSet(bin))
         /\ \A e \in ToSet(bin) :
              e.size = 2^(k + 4) /\ e.size <= Usable[e.blk] /\ Fits(e.blk)
<1>1. \A e : e \in ToSet(bin) <=> \E i \in DOMAIN bin : e = bin[i]
  BY DEF ToSet
<1>2. bin \in Seq(Entry) /\ \A i \in DOMAIN bin : bin[i] \in Entry
  BY DEF BinSound
<1>3. Distinct(ToSet(bin))
  BY <1>1 DEF Distinct, BinSound
<1> QED
  BY <1>1, <1>2, <1>3 DEF BinSound

\* The front of a bin is taken.
LEMMA TailOfBin ==
  ASSUME NEW k \in Bins, NEW bin, BinSound(k, bin), bin # <<>>
  PROVE  /\ BinSound(k, Tail(bin)) /\ Head(bin) \in ToSet(bin)
         /\ ToSet(Tail(bin)) = ToSet(bin) \ {Head(bin)}
<1> DEFINE rest == Tail(bin)
<1>1. /\ bin \in Seq(Entry) /\ Len(bin) \in Nat \ {0} /\ DOMAIN bin = 1..Len(bin)
      /\ Head(bin) = bin[1]
  BY DEF BinSound
<1>2. /\ rest \in Seq(Entry) /\ DOMAIN rest = 1..Len(bin) - 1
      /\ \A i \in DOMAIN rest : i + 1 \in DOMAIN bin /\ rest[i] = bin[i + 1]
  BY <1>1
<1> HIDE DEF rest
<1>3. BinSound(k, rest)
  <2>1. \A i \in DOMAIN rest :
          /\ rest[i].size = 2^(k + 4) /\ rest[i].size <= Usable[rest[i].blk] /\ Fits(rest[i].blk)
    BY <1>2 DEF BinSound
  <2>2. \A i, j \in DOMAIN rest : i < j => rest[i].age <= rest[j].age
    <3> SUFFICES ASSUME NEW i \in DOMAIN rest, NEW j \in DOMAIN rest, i < j
                 PROVE  rest[i].age <= rest[j].age
      OBVIOUS
    <3>1. i + 1 < j + 1
      BY <1>1, <1>2
    <3>2. bin[i + 1].age <= bin[j + 1].age
      BY <1>2, <3>1 DEF BinSound
    <3> QED
      BY <1>2, <3>2
  <2>3. \A i, j \in DOMAIN rest : rest[i].blk = rest[j].blk => i = j
    <3> SUFFICES ASSUME NEW i \in DOMAIN rest, NEW j \in DOMAIN rest, rest[i].blk = rest[j].blk
                 PROVE  i = j
      OBVIOUS
    <3>1. bin[i + 1].blk = bin[j + 1].blk
      BY <1>2
    <3>2. i + 1 = j + 1
      BY <1>2, <3>1 DEF BinSound
    <3> QED
      BY <1>1, <1>2, <3>2
  <2> QED
    BY <1>2, <2>1, <2>2, <2>3 DEF BinSound
<1>4. Head(bin) \in ToSet(bin)
  BY <1>1 DEF ToSet
<1>5. ToSet(rest) = ToSet(bin) \ {Head(bin)}
  <2>1. ASSUME NEW e \in ToSet(rest) PROVE e \in ToSet(bin) \ {Head(bin)}
    <3>1. PICK i \in DOMAIN rest : e = rest[i]
      BY DEF ToSet
    <3>2. i + 1 # 1 /\ 1 \in DOMAIN bin /\ i + 1 \in DOMAIN bin /\ e = bin[i + 1]
      BY <1>1, <1>2, <3>1
    <3>3. e # bin[1]
      BY <3>2 DEF BinSound
    <3> QED
      BY <1>1, <3>2, <3>3 DEF ToSet
  <2>2. ASSUME NEW e \in ToSet(bin), e # Head(bin) PROVE e \in ToSet(rest)
    <3>1. PICK i \in DOMAIN bin : e = bin[i]
      BY DEF ToSet
    <3>2. i # 1
      BY <1>1, <2>2, <3>1
    <3>3. i - 1 \in DOMAIN rest /\ (i - 1) + 1 = i
      BY <1>1, <1>2, <3>2
    <3>4. rest[i - 1] = bin[i]
      BY <1>2, <3>3
    <3> QED
      BY <3>1, <3>3, <3>4 DEF ToSet
  <2> QED
    BY <2>1, <2>2
<1> QED
  BY <1>3, <1>4, <1>5 DEF rest

LEMMA AgedEntry ==
  ASSUME NEW e \in Entry
  PROVE  /\ Aged(e) \in Entry /\ Aged(e).blk = e.blk /\ Aged(e).size = e.size
         /\ Aged(e).age = (IF e.age + 1 <= StartAge THEN e.age + 1 ELSE StartAge)
         /\ Aged(e).age >= 1
<1>1. e.age \in 0..StartAge /\ StartAge \in Nat \ {0}
  BY CacheFacts DEF Entry
<1>2. Min({e.age + 1, StartAge}) = IF e.age + 1 <= StartAge THEN e.age + 1 ELSE StartAge
  BY <1>1, MinOfTwo
<1>3. /\ Aged(e) = [e EXCEPT !.age = Min({e.age + 1, StartAge})]
      /\ Min({e.age + 1, StartAge}) \in 1..StartAge
  BY <1>1, <1>2 DEF Aged
<1> HIDE DEF Aged
<1> QED
  BY <1>1, <1>2, <1>3 DEF Entry

\* All of a bin are a step older.
LEMMA OlderBin ==
  ASSUME NEW k \in Bins, NEW bin, BinSound(k, bin)
  PROVE  BinSound(k, Older(bin)) /\ ToSet(Older(bin)) = {Aged(e) : e \in ToSet(bin)}
<1> DEFINE old == Older(bin)
<1>1. bin \in Seq(Entry) /\ DOMAIN bin = 1..Len(bin) /\ Len(bin) \in Nat
  BY DEF BinSound
<1>2. old = [i \in DOMAIN bin |-> Aged(bin[i])]
  BY DEF Older, Aged
<1> HIDE DEF old
<1>3. \A i \in DOMAIN bin : bin[i] \in Entry
  BY <1>1
<1>4. \A i \in DOMAIN bin : Aged(bin[i]) \in Entry
  BY <1>3, AgedEntry
<1>5. old \in Seq(Entry) /\ DOMAIN old = DOMAIN bin
  BY <1>1, <1>2, <1>4
<1>6. BinSound(k, old)
  <2>1. \A i \in DOMAIN old :
          /\ old[i].size = 2^(k + 4) /\ old[i].size <= Usable[old[i].blk] /\ Fits(old[i].blk)
    BY <1>2, <1>3, AgedEntry DEF BinSound
  <2>2. \A i, j \in DOMAIN old : i < j => old[i].age <= old[j].age
    <3> SUFFICES ASSUME NEW i \in DOMAIN old, NEW j \in DOMAIN old, i < j
                 PROVE  old[i].age <= old[j].age
      OBVIOUS
    <3>1. bin[i].age <= bin[j].age /\ bin[i] \in Entry /\ bin[j] \in Entry
      BY <1>3, <1>5 DEF BinSound
    <3>2. old[i].age = IF bin[i].age + 1 <= StartAge THEN bin[i].age + 1 ELSE StartAge
      BY <1>2, <1>5, <3>1, AgedEntry
    <3>3. old[j].age = IF bin[j].age + 1 <= StartAge THEN bin[j].age + 1 ELSE StartAge
      BY <1>2, <1>5, <3>1, AgedEntry
    <3>4. bin[i].age \in Nat /\ bin[j].age \in Nat /\ StartAge \in Nat
      BY <3>1, CacheFacts DEF Entry
    <3> QED
      BY <3>1, <3>2, <3>3, <3>4
  <2>3. \A i, j \in DOMAIN old : old[i].blk = old[j].blk => i = j
    <3>1. \A i \in DOMAIN old : old[i].blk = bin[i].blk
      BY <1>2, <1>3, AgedEntry
    <3> QED
      BY <1>5, <3>1 DEF BinSound
  <2> QED
    BY <1>5, <2>1, <2>2, <2>3 DEF BinSound
<1>7. ToSet(old) = {Aged(e) : e \in ToSet(bin)}
  <2>1. ToSet(old) = {old[i] : i \in DOMAIN bin}
    BY <1>5 DEF ToSet
  <2>2. \A i \in DOMAIN bin : old[i] = Aged(bin[i])
    BY <1>2
  <2> QED
    BY <2>1, <2>2 DEF ToSet
<1> QED
  BY <1>6, <1>7 DEF old

\* A new entry comes to the front.
LEMMA PutInBin ==
  ASSUME NEW k \in Bins, NEW bin, BinSound(k, bin),
         NEW e \in Entry, e.size = 2^(k + 4), e.size <= Usable[e.blk], Fits(e.blk), e.age = 0,
         e.blk \notin Blks(ToSet(bin))
  PROVE  BinSound(k, PutIn(bin, e)) /\ ToSet(PutIn(bin, e)) = ToSet(bin) \cup {e}
<1> DEFINE new == PutIn(bin, e)
<1>1. bin \in Seq(Entry) /\ DOMAIN bin = 1..Len(bin) /\ Len(bin) \in Nat
  BY DEF BinSound
<1>2. /\ new \in Seq(Entry) /\ DOMAIN new = 1..Len(bin) + 1 /\ new[1] = e
      /\ \A i \in DOMAIN new : i # 1 => i - 1 \in DOMAIN bin /\ new[i] = bin[i - 1]
  BY <1>1 DEF PutIn
<1> HIDE DEF new
<1>3. \A i \in DOMAIN bin : i + 1 \in DOMAIN new /\ new[i + 1] = bin[i]
  <2> SUFFICES ASSUME NEW i \in DOMAIN bin PROVE i + 1 \in DOMAIN new /\ new[i + 1] = bin[i]
    OBVIOUS
  <2>1. i + 1 \in DOMAIN new /\ i + 1 # 1 /\ (i + 1) - 1 = i
    BY <1>1, <1>2
  <2> QED
    BY <1>2, <2>1
<1>4. \A i \in DOMAIN bin : bin[i].blk # e.blk
  BY DEF Blks, ToSet
<1>5. \A i \in DOMAIN bin : bin[i].age \in Nat
  <2>1. \A i \in DOMAIN bin : bin[i] \in Entry
    BY <1>1
  <2>2. \A d \in Entry : d.age \in Nat
    BY CacheFacts DEF Entry
  <2> QED
    BY <2>1, <2>2
<1>6. BinSound(k, new)
  <2>1. \A i \in DOMAIN new :
          /\ new[i].size = 2^(k + 4) /\ new[i].size <= Usable[new[i].blk] /\ Fits(new[i].blk)
    BY <1>2 DEF BinSound
  <2>2. \A i, j \in DOMAIN new : i < j => new[i].age <= new[j].age
    <3> SUFFICES ASSUME NEW i \in DOMAIN new, NEW j \in DOMAIN new, i < j
                 PROVE  new[i].age <= new[j].age
      OBVIOUS
    <3>1. j # 1 /\ j - 1 \in DOMAIN bin /\ new[j] = bin[j - 1]
      BY <1>1, <1>2
    <3>2. CASE i = 1
      BY <1>2, <1>5, <3>1, <3>2
    <3>3. CASE i # 1
      <4>1. i - 1 \in DOMAIN bin /\ new[i] = bin[i - 1] /\ i - 1 < j - 1
        BY <1>1, <1>2, <3>3
      <4>2. bin[i - 1].age <= bin[j - 1].age
        BY <3>1, <4>1 DEF BinSound
      <4> QED
        BY <3>1, <4>1, <4>2
    <3> QED
      BY <3>2, <3>3
  <2>3. \A i, j \in DOMAIN new : new[i].blk = new[j].blk => i = j
    <3> SUFFICES ASSUME NEW i \in DOMAIN new, NEW j \in DOMAIN new, new[i].blk = new[j].blk
                 PROVE  i = j
      OBVIOUS
    <3>1. CASE i = 1 \/ j = 1
      BY <1>2, <1>4, <3>1
    <3>2. CASE i # 1 /\ j # 1
      <4>1. /\ i - 1 \in DOMAIN bin /\ new[i] = bin[i - 1]
            /\ j - 1 \in DOMAIN bin /\ new[j] = bin[j - 1]
        BY <1>2, <3>2
      <4>2. i - 1 = j - 1
        BY <4>1 DEF BinSound
      <4> QED
        BY <1>1, <1>2, <4>2
    <3> QED
      BY <3>1, <3>2
  <2> QED
    BY <1>2, <2>1, <2>2, <2>3 DEF BinSound
<1>7. ToSet(new) = ToSet(bin) \cup {e}
  <2>1. ASSUME NEW f \in ToSet(new) PROVE f \in ToSet(bin) \cup {e}
    <3>1. PICK i \in DOMAIN new : f = new[i]
      BY DEF ToSet
    <3> QED
      BY <1>2, <3>1 DEF ToSet
  <2>2. ASSUME NEW f \in ToSet(bin) PROVE f \in ToSet(new)
    <3>1. PICK i \in DOMAIN bin : f = bin[i]
      BY DEF ToSet
    <3> QED
      BY <1>3, <3>1 DEF ToSet
  <2>3. e \in ToSet(new)
    <3>1. 1 \in DOMAIN new
      BY <1>1, <1>2
    <3> QED
      BY <1>2, <3>1 DEF ToSet
  <2> QED
    BY <2>1, <2>2, <2>3
<1> QED
  BY <1>6, <1>7 DEF new

\* As the ages of a bin grow from its front, what stays is all that is young enough.
LEMMA YoungOfBin ==
  ASSUME NEW k \in Bins, NEW bin, BinSound(k, bin), NEW age \in Nat
  PROVE  LET left == SubSeq(bin, 1, Young(bin, age))
         IN  BinSound(k, left) /\ ToSet(left) = {e \in ToSet(bin) : e.age < age}
<1> DEFINE y == Young(bin, age)
           left == SubSeq(bin, 1, y)
           Places == {0} \cup {i \in DOMAIN bin : bin[i].age < age}
<1>1. bin \in Seq(Entry) /\ DOMAIN bin = 1..Len(bin) /\ Len(bin) \in Nat
  BY DEF BinSound
<1>2. \A i \in DOMAIN bin : bin[i].age \in Nat
  <2>1. \A i \in DOMAIN bin : bin[i] \in Entry
    BY <1>1
  <2>2. \A e \in Entry : e.age \in Nat
    BY CacheFacts DEF Entry
  <2> QED
    BY <2>1, <2>2
<1>3. Places \in SUBSET (0..Len(bin)) /\ Places # {}
  BY <1>1
<1>4. y \in Places /\ \A i \in Places : i <= y
  BY <1>1, <1>3, MaxOfNumbers DEF Young
<1> HIDE DEF y
<1>5. y \in 0..Len(bin)
  BY <1>3, <1>4
<1>6. \A i \in DOMAIN bin : i <= y <=> bin[i].age < age
  <2> SUFFICES ASSUME NEW i \in DOMAIN bin PROVE i <= y <=> bin[i].age < age
    OBVIOUS
  <2>1. ASSUME i <= y PROVE bin[i].age < age
    <3>1. y \in DOMAIN bin /\ bin[y].age < age
      BY <1>1, <1>4, <2>1
    <3>2. bin[i].age <= bin[y].age
      <4>1. CASE i = y
        BY <4>1, <1>2
      <4>2. CASE i < y
        BY <4>2, <3>1 DEF BinSound
      <4> QED
        BY <4>1, <4>2, <2>1, <1>1, <1>5
    <3> QED
      BY <1>2, <3>1, <3>2
  <2>2. ASSUME bin[i].age < age PROVE i <= y
    BY <1>4, <2>2
  <2> QED
    BY <2>1, <2>2
<1>7. /\ left \in Seq(Entry) /\ DOMAIN left = 1..y
      /\ \A i \in DOMAIN left : i \in DOMAIN bin /\ left[i] = bin[i]
  BY <1>1, <1>5
<1> HIDE DEF left
<1>8. BinSound(k, left)
  BY <1>7 DEF BinSound
<1>9. ToSet(left) = {e \in ToSet(bin) : e.age < age}
  <2>1. ASSUME NEW e \in ToSet(left) PROVE e \in ToSet(bin) /\ e.age < age
    <3>1. PICK i \in DOMAIN left : e = left[i]
      BY DEF ToSet
    <3>2. i \in DOMAIN bin /\ e = bin[i] /\ i <= y
      BY <1>5, <1>7, <3>1
    <3> QED
      BY <1>6, <3>2 DEF ToSet
  <2>2. ASSUME NEW e \in ToSet(bin), e.age < age PROVE e \in ToSet(left)
    <3>1. PICK i \in DOMAIN bin : e = bin[i]
      BY DEF ToSet
    <3>2. i <= y
      BY <1>6, <2>2, <3>1
    <3>3. i \in DOMAIN left
      BY <1>1, <1>5, <1>7, <3>2
    <3> QED
      BY <1>7, <3>1, <3>3 DEF ToSet
  <2> QED
    BY <2>1, <2>2
<1> QED
  BY <1>8, <1>9 DEF left, y

-----------------------------------------------------------------------------
(* All bins of a cache. *)

BinsSound(bins) ==
  /\ DOMAIN bins = Bins /\ bins = [k \in Bins |-> bins[k]]
  /\ \A k \in Bins : BinSound(k, bins[k])
  /\ \A k, l \in Bins : k # l => Blks(ToSet(bins[k])) \cap Blks(ToSet(bins[l])) = {}

LEMMA EntriesOfBins ==
  ASSUME NEW bins
  PROVE  \A e : e \in EntriesIn(bins) <=> \E k \in Bins : e \in ToSet(bins[k])
  BY DEF EntriesIn

LEMMA EntriesAreDistinct ==
  ASSUME NEW bins, BinsSound(bins)
  PROVE  EntriesIn(bins) \in SUBSET Entry /\ Distinct(EntriesIn(bins))
<1>1. ASSUME NEW e \in EntriesIn(bins) PROVE e \in Entry
  <2>1. PICK k \in Bins : e \in ToSet(bins[k])
    BY EntriesOfBins
  <2>2. BinSound(k, bins[k])
    BY DEF BinsSound
  <2> QED
    BY <2>1, <2>2, EntriesOfBin
<1>2. ASSUME NEW e \in EntriesIn(bins), NEW f \in EntriesIn(bins), e.blk = f.blk PROVE e = f
  <2>1. PICK k \in Bins : e \in ToSet(bins[k])
    BY EntriesOfBins
  <2>2. PICK l \in Bins : f \in ToSet(bins[l])
    BY EntriesOfBins
  <2>3. k = l
    BY <1>2, <2>1, <2>2 DEF BinsSound, Blks
  <2>4. BinSound(k, bins[k])
    BY DEF BinsSound
  <2> QED
    BY <1>2, <2>1, <2>2, <2>3, <2>4, EntriesOfBin DEF Distinct
<1> QED
  BY <1>1, <1>2 DEF Distinct

LEMMA EntriesFit ==
  ASSUME NEW bins, BinsSound(bins), NEW e \in EntriesIn(bins)
  PROVE  e.size \in Nat \ {0} /\ e.size <= Usable[e.blk] /\ Fits(e.blk) /\ e.blk \in Blocks
<1>1. PICK k \in Bins : e \in ToSet(bins[k])
  BY EntriesOfBins
<1>2. BinSound(k, bins[k])
  BY DEF BinsSound
<1>3. e \in Entry
  BY <1>1, <1>2, EntriesOfBin
<1> QED
  BY <1>1, <1>2, <1>3, EntriesOfBin, CacheFacts DEF Entry

\* One bin changes and gets no block that another one has.
LEMMA ReplaceBin ==
  ASSUME NEW bins, BinsSound(bins), NEW k \in Bins, NEW bin, BinSound(k, bin),
         Blks(ToSet(bin)) \cap Blks(EntriesIn(bins) \ ToSet(bins[k])) = {}
  PROVE  /\ BinsSound([bins EXCEPT ![k] = bin])
         /\ EntriesIn([bins EXCEPT ![k] = bin]) = (EntriesIn(bins) \ ToSet(bins[k])) \cup ToSet(bin)
<1> DEFINE new == [bins EXCEPT ![k] = bin]
<1>1. /\ DOMAIN new = Bins /\ new = [l \in Bins |-> new[l]]
      /\ new[k] = bin /\ \A l \in Bins : l # k => new[l] = bins[l]
  BY DEF BinsSound
<1> HIDE DEF new
<1>2. \A l \in Bins : l # k => ToSet(bins[l]) \subseteq EntriesIn(bins) \ ToSet(bins[k])
  <2> SUFFICES ASSUME NEW l \in Bins, l # k, NEW e \in ToSet(bins[l])
               PROVE  e \in EntriesIn(bins) /\ e \notin ToSet(bins[k])
    OBVIOUS
  <2> QED
    BY EntriesOfBins DEF BinsSound, Blks
<1>3. \A l \in Bins : l # k => Blks(ToSet(bin)) \cap Blks(ToSet(bins[l])) = {}
  BY <1>2 DEF Blks
<1>4. BinsSound(new)
  <2>1. \A l \in Bins : BinSound(l, new[l])
    BY <1>1 DEF BinsSound
  <2>2. ASSUME NEW l \in Bins, NEW m \in Bins, l # m
        PROVE  Blks(ToSet(new[l])) \cap Blks(ToSet(new[m])) = {}
    <3>1. CASE l = k
      BY <1>1, <1>3, <2>2, <3>1
    <3>2. CASE m = k
      BY <1>1, <1>3, <2>2, <3>2
    <3>3. CASE l # k /\ m # k
      BY <1>1, <2>2, <3>3 DEF BinsSound
    <3> QED
      BY <3>1, <3>2, <3>3
  <2> QED
    BY <1>1, <2>1, <2>2 DEF BinsSound
<1>5. EntriesIn(new) = (EntriesIn(bins) \ ToSet(bins[k])) \cup ToSet(bin)
  <2>1. ASSUME NEW e \in EntriesIn(new)
        PROVE  e \in (EntriesIn(bins) \ ToSet(bins[k])) \cup ToSet(bin)
    <3>1. PICK l \in Bins : e \in ToSet(new[l])
      BY EntriesOfBins
    <3> QED
      BY <1>1, <1>2, <3>1
  <2>2. ASSUME NEW e \in EntriesIn(bins) \ ToSet(bins[k]) PROVE e \in EntriesIn(new)
    <3>1. PICK l \in Bins : e \in ToSet(bins[l])
      BY EntriesOfBins
    <3>2. e \in ToSet(new[l])
      BY <1>1, <2>2, <3>1
    <3> QED
      BY <3>2, EntriesOfBins
  <2>3. ASSUME NEW e \in ToSet(bin) PROVE e \in EntriesIn(new)
    BY <1>1, <2>3, EntriesOfBins
  <2> QED
    BY <2>1, <2>2, <2>3
<1> QED
  BY <1>4, <1>5 DEF new

\* Every bin changes in the same way and gets no block it did not have.
LEMMA ReplaceBins ==
  ASSUME NEW bins, BinsSound(bins), NEW new, DOMAIN new = Bins, new = [k \in Bins |-> new[k]],
         \A k \in Bins : BinSound(k, new[k]) /\ Blks(ToSet(new[k])) \subseteq Blks(ToSet(bins[k]))
  PROVE  BinsSound(new)
  BY DEF BinsSound

\* All of a cache are a step older.
LEMMA OlderBins ==
  ASSUME NEW bins, BinsSound(bins)
  PROVE  LET older == [k \in Bins |-> Older(bins[k])]
         IN  /\ BinsSound(older)
             /\ EntriesIn(older) = {Aged(e) : e \in EntriesIn(bins)}
             /\ Blks(EntriesIn(older)) = Blks(EntriesIn(bins))
             /\ SizeOf(EntriesIn(older)) = SizeOf(EntriesIn(bins))
<1> DEFINE older == [k \in Bins |-> Older(bins[k])]
<1>1. DOMAIN older = Bins /\ \A k \in Bins : older[k] = Older(bins[k])
  OBVIOUS
<1>2. older = [k \in Bins |-> older[k]]
  OBVIOUS
<1> HIDE DEF older
<1>3. \A k \in Bins : /\ BinSound(k, older[k])
                      /\ ToSet(older[k]) = {Aged(e) : e \in ToSet(bins[k])}
  BY <1>1, OlderBin DEF BinsSound
<1>4. \A k \in Bins : ToSet(bins[k]) \in SUBSET Entry
  BY EntriesOfBin DEF BinsSound
<1>5. \A k \in Bins : Blks(ToSet(older[k])) \subseteq Blks(ToSet(bins[k]))
  BY <1>3, <1>4, AgedEntry DEF Blks
<1>6. BinsSound(older)
  BY <1>1, <1>2, <1>3, <1>5, ReplaceBins
<1>7. EntriesIn(older) = {Aged(e) : e \in EntriesIn(bins)}
  <2>1. ASSUME NEW e \in EntriesIn(older) PROVE e \in {Aged(f) : f \in EntriesIn(bins)}
    <3>1. PICK k \in Bins : e \in ToSet(older[k])
      BY EntriesOfBins
    <3>2. PICK f \in ToSet(bins[k]) : e = Aged(f)
      BY <1>3, <3>1
    <3> QED
      BY <3>2, EntriesOfBins
  <2>2. ASSUME NEW f \in EntriesIn(bins) PROVE Aged(f) \in EntriesIn(older)
    <3>1. PICK k \in Bins : f \in ToSet(bins[k])
      BY EntriesOfBins
    <3>2. Aged(f) \in ToSet(older[k])
      BY <1>3, <3>1
    <3> QED
      BY <3>2, EntriesOfBins
  <2> QED
    BY <2>1, <2>2
<1>8. \A e \in EntriesIn(bins) : Aged(e).blk = e.blk /\ Aged(e).size = e.size
  BY AgedEntry, EntriesAreDistinct
<1>9. Blks(EntriesIn(older)) = Blks(EntriesIn(bins))
  BY <1>7, <1>8 DEF Blks
<1>10. SizeOf(EntriesIn(older)) = SizeOf(EntriesIn(bins))
  <2>1. \A e \in EntriesIn(older) : \E f \in EntriesIn(bins) : e.blk = f.blk /\ e.size = f.size
    BY <1>7, <1>8
  <2>2. \A f \in EntriesIn(bins) : \E e \in EntriesIn(older) : e.blk = f.blk /\ e.size = f.size
    BY <1>7, <1>8
  <2> QED
    BY <2>1, <2>2, SizeOfSame
<1> QED
  BY <1>6, <1>7, <1>9, <1>10 DEF older

-----------------------------------------------------------------------------
(* A cache. *)

Sound(c) ==
  /\ c = [freeInCache |-> c.freeInCache, bins |-> c.bins]
  /\ BinsSound(c.bins)
  /\ c.freeInCache = SizeOf(Entries(c))

LEMMA FreeInCacheIsNumber ==
  ASSUME NEW c, Sound(c)
  PROVE  /\ c.freeInCache \in Nat /\ Entries(c) \in SUBSET Entry /\ Distinct(Entries(c))
         /\ c # NoCache
<1>1. Entries(c) \in SUBSET Entry /\ Distinct(Entries(c))
  BY EntriesAreDistinct DEF Sound, Entries
<1>2. c.freeInCache \in Nat
  BY <1>1, BytesFinite DEF Sound
<1>3. c # NoCache
  BY <1>2 DEF NoCache
<1> QED
  BY <1>1, <1>2, <1>3

LEMMA NewCacheIsSound == Sound(NewCache) /\ Entries(NewCache) = {}
<1> DEFINE bins == [k \in Bins |-> <<>>]
<1>1. NewCache = [freeInCache |-> 0, bins |-> bins]
  BY DEF NewCache
<1>2. BinsSound(bins)
  <2>1. <<>> \in Seq(Entry) /\ DOMAIN <<>> = {} /\ ToSet(<<>>) = {}
    BY DEF ToSet
  <2> QED
    BY <2>1 DEF BinsSound, BinSound, Blks
<1>3. EntriesIn(bins) = {}
  BY DEF EntriesIn, ToSet
<1> QED
  BY <1>1, <1>2, <1>3, SizeOfNone DEF Sound, Entries

\* RemoveCacheEntries takes exactly the entries of at least the age, and counts them.
LEMMA RemovalIsExact ==
  ASSUME NEW c, Sound(c), NEW age \in Nat
  PROVE  /\ Sound(RemoveCacheEntries(c, age))
         /\ Entries(RemoveCacheEntries(c, age)) = {e \in Entries(c) : e.age < age}
<1> DEFINE left == [k \in Bins |-> SubSeq(c.bins[k], 1, Young(c.bins[k], age))]
           d == RemoveCacheEntries(c, age)
<1>1. CASE c.freeInCache = 0
  <2>1. d = c
    BY <1>1 DEF RemoveCacheEntries
  <2>2. Entries(c) = {}
    <3>1. SUFFICES ASSUME NEW e \in Entries(c) PROVE FALSE
      OBVIOUS
    <3>2. Entries(c) \in SUBSET Entry /\ Distinct(Entries(c))
      BY FreeInCacheIsNumber
    <3>3. SizeOf(Entries(c)) >= e.size /\ e.size \in Nat \ {0}
      BY <3>2, SizeOfSome
    <3>4. SizeOf(Entries(c)) = 0
      BY <1>1 DEF Sound
    <3> QED
      BY <3>3, <3>4
  <2> QED
    BY <2>1, <2>2
<1>2. CASE c.freeInCache # 0
  <2>1. d = [freeInCache |-> c.freeInCache - SizeOf(Entries(c) \ EntriesIn(left)), bins |-> left]
    BY <1>2 DEF RemoveCacheEntries
  <2>2. /\ DOMAIN left = Bins /\ left = [k \in Bins |-> left[k]]
        /\ \A k \in Bins : left[k] = SubSeq(c.bins[k], 1, Young(c.bins[k], age))
    OBVIOUS
  <2> HIDE DEF left, d
  <2>3. \A k \in Bins : /\ BinSound(k, left[k])
                        /\ ToSet(left[k]) = {e \in ToSet(c.bins[k]) : e.age < age}
    <3> SUFFICES ASSUME NEW k \in Bins
                 PROVE  /\ BinSound(k, left[k])
                        /\ ToSet(left[k]) = {e \in ToSet(c.bins[k]) : e.age < age}
      OBVIOUS
    <3>1. BinSound(k, c.bins[k])
      BY DEF Sound, BinsSound
    <3>2. LET bin == SubSeq(c.bins[k], 1, Young(c.bins[k], age))
          IN  BinSound(k, bin) /\ ToSet(bin) = {e \in ToSet(c.bins[k]) : e.age < age}
      BY <3>1, YoungOfBin
    <3> QED
      BY <2>2, <3>2
  <2>4. BinsSound(left)
    <3>1. \A k \in Bins : Blks(ToSet(left[k])) \subseteq Blks(ToSet(c.bins[k]))
      BY <2>3 DEF Blks
    <3>2. BinsSound(c.bins)
      BY DEF Sound
    <3>3. \A k \in Bins :
            BinSound(k, left[k]) /\ Blks(ToSet(left[k])) \subseteq Blks(ToSet(c.bins[k]))
      BY <2>3, <3>1
    <3> QED
      BY <2>2, <3>3, <3>2, ReplaceBins
  <2>5. EntriesIn(left) = {e \in Entries(c) : e.age < age}
    BY <2>3, EntriesOfBins DEF Entries
  <2>6. SizeOf(Entries(c)) = SizeOf(EntriesIn(left)) + SizeOf(Entries(c) \ EntriesIn(left))
    BY <2>5, FreeInCacheIsNumber, SizeOfRest
  <2>7. SizeOf(EntriesIn(left)) \in Nat /\ SizeOf(Entries(c) \ EntriesIn(left)) \in Nat
    BY <2>5, FreeInCacheIsNumber, BytesFinite
  <2>8. d.freeInCache = SizeOf(EntriesIn(left))
    <3>1. d.freeInCache = c.freeInCache - SizeOf(Entries(c) \ EntriesIn(left))
      BY <2>1
    <3>2. c.freeInCache = SizeOf(Entries(c))
      BY DEF Sound
    <3> QED
      BY <2>6, <2>7, <3>1, <3>2
  <2>9. d.bins = left /\ Entries(d) = EntriesIn(left)
    BY <2>1 DEF Entries
  <2>10. d = [freeInCache |-> d.freeInCache, bins |-> d.bins]
    BY <2>1
  <2> QED
    BY <2>4, <2>5, <2>8, <2>9, <2>10 DEF Sound, d
<1> QED
  BY <1>1, <1>2

\* What is too much is collected, the oldest first, and what was just freed stays.
LEMMA ReleaseIsEnough ==
  ASSUME NEW c, Sound(c), NEW e \in Entries(c), e.age = 0,
         \A f \in Entries(c) : f # e => f.age >= 1
  PROVE  LET d == ReleaseFreeInCache(c)
         IN  /\ Sound(d) /\ d.freeInCache < MaxFreeSpace
             /\ Entries(d) \subseteq Entries(c) /\ e \in Entries(d)
             /\ \A f \in Entries(c) \ Entries(d), g \in Entries(d) : g.age < f.age
<1> DEFINE d == ReleaseFreeInCache(c)
           enough == {age \in Ages : RemoveCacheEntries(c, age).freeInCache < MaxFreeSpace}
           last == Max(enough \cup {1})
<1>0. \A f \in Entries(c) : f \in Entry /\ f.age \in Nat /\ f.size \in 1..CacheMax
  BY FreeInCacheIsNumber, CacheFacts DEF Entry
<1>1. CASE c.freeInCache < MaxFreeSpace
  <2>1. d = c
    BY <1>1, CacheFacts, FreeInCacheIsNumber DEF ReleaseFreeInCache
  <2> QED
    BY <1>1, <2>1
<1>2. CASE ~(c.freeInCache < MaxFreeSpace)
  <2>1. d = RemoveCacheEntries(c, last)
    BY <1>2, CacheFacts, FreeInCacheIsNumber DEF ReleaseFreeInCache
  <2>2. last \in enough \cup {1} /\ last \in 1..StartAge
    <3>1. enough \cup {1} \in SUBSET (0..StartAge) /\ enough \cup {1} # {}
      BY CacheFacts DEF Ages
    <3>2. last \in enough \cup {1}
      BY <3>1, MaxOfNumbers, CacheFacts
    <3> QED
      BY <3>2, CacheFacts DEF Ages
  <2> HIDE DEF last, d
  <2>3. last \in Nat /\ last >= 1
    BY <2>2, CacheFacts
  <2>4. Sound(d) /\ Entries(d) = {f \in Entries(c) : f.age < last}
    BY <2>1, <2>3, RemovalIsExact
  <2>5. d.freeInCache < MaxFreeSpace
    <3>1. CASE last \in enough
      BY <2>1, <3>1
    <3>2. CASE last = 1
      <4>1. Entries(d) = {e}
        <5>1. \A f \in Entries(c) : f.age < 1 <=> f = e
          BY <1>0
        <5> QED
          BY <2>4, <3>2, <5>1
      <4>2. d.freeInCache = e.size
        BY <2>4, <4>1, <1>0, SizeOfOne DEF Sound
      <4> QED
        BY <4>2, <1>0, CacheFacts
    <3> QED
      BY <2>2, <3>1, <3>2
  <2>6. e \in Entries(d)
    BY <2>3, <2>4
  <2>7. \A f \in Entries(c) \ Entries(d), g \in Entries(d) : g.age < f.age
    BY <2>3, <2>4, <1>0
  <2> QED
    BY <2>4, <2>5, <2>6, <2>7 DEF d
<1> QED
  BY <1>1, <1>2

LEMMA RemoveAssertsHold ==
  ASSUME NEW c, Sound(c)
  PROVE  RemoveAsserts(c)
<1>1. BinsSound(c.bins) /\ Entries(c) = EntriesIn(c.bins)
  BY DEF Sound, Entries
<1>2. \A e \in Entries(c) : e.size \in Nat \ {0} /\ e.size <= Usable[e.blk]
  BY <1>1, EntriesFit
<1> QED
  BY <1>2, FreeInCacheIsNumber DEF RemoveAsserts

\* threadcache_malloc finds a block that is large enough, and takes just this one.
LEMMA MallocIsSound ==
  ASSUME NEW c, Sound(c), NEW size \in Nat, 16 <= size, size <= CacheMax,
         c.bins[FoundIn(c, size)] # <<>>
  PROVE  LET e == Served(c, size)
             d == AfterMalloc(c, size)
         IN  /\ Sound(d) /\ e \in Entries(c) /\ Entries(d) = Entries(c) \ {e}
             /\ d.freeInCache <= c.freeInCache
             /\ BestSize(size) <= Usable[e.blk] /\ MallocAsserts(c, size)
<1> DEFINE idx == BestBin(size)
           found == FoundIn(c, size)
           e == Served(c, size)
           d == AfterMalloc(c, size)
           bin == c.bins[found]
<1>1. /\ idx \in Bins /\ BestSize(size) = 2^(idx + 4) /\ BestSize(size) \in Nat
      /\ size <= BestSize(size) /\ BestSize(size) <= CacheMax
  BY BinOfRequest
<1>2. found \in Bins /\ (found = idx \/ (found = idx + 1 /\ idx < CacheMaxBins))
  <2>1. found = idx \/ (found = idx + 1 /\ idx < CacheMaxBins)
    BY DEF FoundIn
  <2> HIDE DEF idx, found
  <2> QED
    BY <1>1, <2>1, CacheFacts DEF Bins
<1>3. e = Head(bin) /\ bin # <<>>
  BY DEF Served
<1>4. d = [freeInCache |-> c.freeInCache - e.size, bins |-> [c.bins EXCEPT ![found] = Tail(bin)]]
  <2>1. c = [freeInCache |-> c.freeInCache, bins |-> c.bins]
    BY DEF Sound
  <2> DEFINE fic == c.freeInCache
             bs == c.bins
  <2>2. d = [c EXCEPT !.bins[found] = Tail(@), !.freeInCache = @ - e.size]
    BY DEF AfterMalloc
  <2> HIDE DEF found, e, d
  <2> QED
    BY <2>1, <2>2
<1> HIDE DEF idx, found, e, d
<1>5. BinSound(found, bin)
  BY <1>2 DEF Sound, BinsSound
<1>6. /\ BinSound(found, Tail(bin)) /\ e \in ToSet(bin)
      /\ ToSet(Tail(bin)) = ToSet(bin) \ {e}
  BY <1>2, <1>3, <1>5, TailOfBin
<1>7. /\ ToSet(bin) \in SUBSET Entry /\ Distinct(ToSet(bin))
      /\ e.size = 2^(found + 4) /\ e.size <= Usable[e.blk] /\ Fits(e.blk)
  BY <1>2, <1>5, <1>6, EntriesOfBin
<1>8. e \in Entries(c) /\ e \in Entry /\ e.size \in Nat \ {0} /\ c.freeInCache >= e.size
      /\ SizeOf(Entries(c) \ {e}) = c.freeInCache - e.size
  <2>1. e \in Entries(c)
    BY <1>2, <1>6, EntriesOfBins DEF Entries
  <2>2. Entries(c) \in SUBSET Entry /\ Distinct(Entries(c)) /\ c.freeInCache = SizeOf(Entries(c))
    BY FreeInCacheIsNumber DEF Sound
  <2>3. /\ SizeOf(Entries(c)) >= e.size /\ e.size \in Nat \ {0}
        /\ SizeOf(Entries(c) \ {e}) = SizeOf(Entries(c)) - e.size
    BY <2>1, <2>2, SizeOfSome
  <2> QED
    BY <2>1, <2>2, <2>3
<1> DEFINE new == [c.bins EXCEPT ![found] = Tail(bin)]
<1>9. BinsSound(new) /\ EntriesIn(new) = Entries(c) \ {e}
  <2>1. BinsSound(c.bins) /\ Entries(c) = EntriesIn(c.bins)
    BY DEF Sound, Entries
  <2>2. Distinct(EntriesIn(c.bins)) /\ ToSet(bin) \subseteq EntriesIn(c.bins)
    BY <1>2, <2>1, FreeInCacheIsNumber, EntriesOfBins
  <2>3. Blks(ToSet(Tail(bin))) \cap Blks(EntriesIn(c.bins) \ ToSet(bin)) = {}
    BY <1>6, <2>2 DEF Distinct, Blks
  <2>4. /\ BinsSound(new)
        /\ EntriesIn(new) = (EntriesIn(c.bins) \ ToSet(bin)) \cup ToSet(Tail(bin))
    <3> DEFINE bins == c.bins
               tail == Tail(bin)
    <3>1. /\ BinsSound(bins) /\ found \in Bins /\ BinSound(found, tail)
          /\ Blks(ToSet(tail)) \cap Blks(EntriesIn(bins) \ ToSet(bins[found])) = {}
      BY <1>2, <1>6, <2>1, <2>3
    <3> HIDE DEF bins, tail
    <3>2. /\ BinsSound([bins EXCEPT ![found] = tail])
          /\ EntriesIn([bins EXCEPT ![found] = tail])
               = (EntriesIn(bins) \ ToSet(bins[found])) \cup ToSet(tail)
      BY <3>1, ReplaceBin
    <3> QED
      BY <3>2 DEF bins, tail
  <2> HIDE DEF new
  <2> QED
    BY <1>6, <2>1, <2>2, <2>4
<1> HIDE DEF new
<1>10. d = [freeInCache |-> c.freeInCache - e.size, bins |-> new]
  BY <1>4 DEF new
<1>11. Entries(d) = Entries(c) \ {e} /\ d.freeInCache = c.freeInCache - e.size /\ d.bins = new
  BY <1>9, <1>10 DEF Entries
<1>12. Sound(d)
  BY <1>8, <1>9, <1>10, <1>11 DEF Sound
<1>13. BestSize(size) <= e.size
  <2>1. CASE found = idx
    BY <1>1, <1>7, <1>8, <2>1
  <2>2. CASE found # idx
    <3>1. idx + 4 \in 0..WordBits + 5 /\ found + 4 \in 0..WordBits + 5 /\ idx + 4 < found + 4
      BY <1>1, <1>2, <2>2, CacheFacts DEF Bins
    <3>2. 2^(idx + 4) < 2^(found + 4)
      BY <3>1, PowersGrow
    <3> QED
      BY <1>1, <1>7, <1>8, <3>2
  <2> QED
    BY <2>1, <2>2
<1>14. Usable[e.blk] \in Nat
  <2>1. e.blk \in Blocks
    BY <1>8 DEF Entry
  <2> QED
    BY <2>1, ThreadCacheAssumption
<1>15. BestSize(size) <= Usable[e.blk]
  BY <1>1, <1>7, <1>8, <1>13, <1>14
<1>16. MallocAsserts(c, size)
  BY <1>1, <1>7, <1>8, <1>13 DEF MallocAsserts, e, idx
<1>17. d.freeInCache <= c.freeInCache
  BY <1>8, <1>11, FreeInCacheIsNumber
<1> QED
  BY <1>8, <1>11, <1>12, <1>15, <1>16, <1>17 DEF e, d

\* threadcache_free keeps the block in the bin of its size, collects what is too much,
\* and what it gives back was freed before all that it keeps.
LEMMA FreeIsSound ==
  ASSUME NEW c, Sound(c), NEW b \in Blocks, Fits(b), b \notin Blks(Entries(c))
  PROVE  LET d == AfterFree(c, b)
         IN  /\ Sound(d) /\ d.freeInCache < MaxFreeSpace
             /\ Blks(Entries(d)) \subseteq Blks(Entries(c)) \cup {b}
             /\ FreeAsserts(c, b)
             /\ \A e \in Entries(c), f \in Entries(d) :
                  e.blk \notin Blks(Entries(d)) => f.age <= Min({e.age + 1, StartAge})
<1> DEFINE d == AfterFree(c, b)
           idx == FreeBin(Usable[b])
           new == [blk |-> b, size |-> 2^(idx + 4), age |-> 0]
           older == [k \in Bins |-> Older(c.bins[k])]
           bins == [older EXCEPT ![idx] = PutIn(older[idx], new)]
           full == [freeInCache |-> c.freeInCache + new.size, bins |-> bins]
<1>1. d = ReleaseFreeInCache(full)
  BY DEF AfterFree
<1>2. /\ idx \in Bins /\ 2^(idx + 4) \in 1..CacheMax /\ 2^(idx + 4) <= Usable[b]
      /\ Usable[b] \in Nat
  <2>1. Usable[b] \in Nat /\ 24 <= Usable[b] /\ Usable[b] < 2 * CacheMax
    BY CacheFacts, ThreadCacheAssumption DEF Fits, BlkSize, ChunkOverhead
  <2> HIDE DEF idx
  <2>2. idx \in Bins /\ 2^(idx + 4) <= Usable[b]
    BY <2>1, BinOfSize DEF FreeBin, idx
  <2> QED
    BY <2>1, <2>2, CacheFacts
<1> HIDE DEF idx, d
<1>3. /\ new \in Entry /\ new.blk = b /\ new.size = 2^(idx + 4) /\ new.age = 0
      /\ new.size \in 1..CacheMax
  BY <1>2, CacheFacts DEF Entry
<1> HIDE DEF new
<1>4. /\ BinsSound(older) /\ EntriesIn(older) = {Aged(e) : e \in Entries(c)}
      /\ Blks(EntriesIn(older)) = Blks(Entries(c))
      /\ SizeOf(EntriesIn(older)) = c.freeInCache
  BY OlderBins DEF Sound, Entries
<1>5. DOMAIN older = Bins
  OBVIOUS
<1> HIDE DEF older
<1> DEFINE bin == older[idx]
           put == PutIn(bin, new)
<1>6. BinSound(idx, bin) /\ ToSet(bin) \subseteq EntriesIn(older)
  BY <1>2, <1>4, EntriesOfBins DEF BinsSound
<1>7. b \notin Blks(EntriesIn(older)) /\ b \notin Blks(ToSet(bin))
  BY <1>4, <1>6 DEF Blks
<1>8. BinSound(idx, put) /\ ToSet(put) = ToSet(bin) \cup {new}
  <2> HIDE DEF bin
  <2> QED
    BY <1>2, <1>3, <1>6, <1>7, PutInBin
<1>9. BinsSound(bins) /\ EntriesIn(bins) = EntriesIn(older) \cup {new}
  <2>1. Distinct(EntriesIn(older))
    BY <1>4, EntriesAreDistinct
  <2>2. Blks(ToSet(put)) \cap Blks(EntriesIn(older) \ ToSet(bin)) = {}
    <3> HIDE DEF bin, put
    <3> QED
      BY <1>3, <1>6, <1>7, <1>8, <2>1 DEF Distinct, Blks
  <2>3. BinsSound(older) /\ idx \in Bins /\ BinSound(idx, put)
        /\ Blks(ToSet(put)) \cap Blks(EntriesIn(older) \ ToSet(older[idx])) = {}
    BY <1>2, <1>4, <1>8, <2>2
  <2> HIDE DEF put
  <2>4. /\ BinsSound([older EXCEPT ![idx] = put])
        /\ EntriesIn([older EXCEPT ![idx] = put])
             = (EntriesIn(older) \ ToSet(older[idx])) \cup ToSet(put)
    BY <2>3, ReplaceBin
  <2>5. bins = [older EXCEPT ![idx] = put]
    BY DEF put
  <2> HIDE DEF bins
  <2> QED
    BY <1>6, <1>8, <2>4, <2>5
<1>10. full.bins = bins /\ Entries(full) = EntriesIn(older) \cup {new}
  BY <1>9 DEF Entries
<1>11. Sound(full)
  <2>1. SizeOf(Entries(full)) = c.freeInCache + new.size
    <3>1. Entries(full) \in SUBSET Entry /\ Distinct(Entries(full)) /\ new \in Entries(full)
      BY <1>9, <1>10, EntriesAreDistinct
    <3>2. SizeOf(Entries(full) \ {new}) = SizeOf(Entries(full)) - new.size
      BY <3>1, SizeOfSome
    <3>3. Entries(full) \ {new} = EntriesIn(older)
      <4>1. new \notin EntriesIn(older)
        BY <1>3, <1>7 DEF Blks
      <4> QED
        BY <4>1, <1>10
    <3>4. SizeOf(Entries(full)) \in Nat /\ new.size \in Nat
      BY <3>1, <1>3, BytesFinite, CacheFacts
    <3>5. SizeOf(EntriesIn(older)) = SizeOf(Entries(full)) - new.size
      BY <3>2, <3>3
    <3> HIDE DEF full
    <3> QED
      BY <1>4, <3>4, <3>5
  <2>2. /\ full = [freeInCache |-> full.freeInCache, bins |-> full.bins]
        /\ full.freeInCache = c.freeInCache + new.size /\ full.bins = bins
    OBVIOUS
  <2> HIDE DEF full, bins
  <2> QED
    BY <1>9, <2>1, <2>2 DEF Sound
<1> HIDE DEF full
<1>12. \A e \in Entries(c) : e \in Entry
  BY FreeInCacheIsNumber
<1>13. new \in Entries(full) /\ \A f \in Entries(full) : f # new => f.age >= 1
  BY <1>4, <1>10, <1>12, AgedEntry
<1>14. /\ Sound(d) /\ d.freeInCache < MaxFreeSpace
       /\ Entries(d) \subseteq Entries(full) /\ new \in Entries(d)
       /\ \A f \in Entries(full) \ Entries(d), g \in Entries(d) : g.age < f.age
  BY <1>1, <1>3, <1>11, <1>13, ReleaseIsEnough
<1>15. Blks(Entries(d)) \subseteq Blks(Entries(c)) \cup {b}
  BY <1>3, <1>4, <1>10, <1>14 DEF Blks
<1>16. FreeAsserts(c, b)
  <2>1. RemoveAsserts(d)
    BY <1>14, RemoveAssertsHold
  <2>2. ASSUME c.bins[idx] # <<>>
        PROVE  Head(c.bins[idx]).size = 2^(idx + 4) /\ Head(c.bins[idx]).blk # b
    <3>1. BinSound(idx, c.bins[idx])
      BY <1>2 DEF Sound, BinsSound
    <3>2. Head(c.bins[idx]) \in ToSet(c.bins[idx])
      BY <1>2, <2>2, <3>1, TailOfBin
    <3>3. Head(c.bins[idx]) \in Entries(c)
      BY <1>2, <3>2, EntriesOfBins DEF Entries
    <3> QED
      BY <1>2, <3>1, <3>2, <3>3, EntriesOfBin DEF Blks
  <2> QED
    BY <1>2, <2>1, <2>2 DEF FreeAsserts, d, idx
<1>17. ASSUME NEW e \in Entries(c), NEW f \in Entries(d), e.blk \notin Blks(Entries(d))
       PROVE  f.age <= Min({e.age + 1, StartAge})
  <2>1. Aged(e) \in Entries(full) /\ Aged(e).blk = e.blk
    BY <1>4, <1>10, <1>12, AgedEntry
  <2>2. Aged(e) \notin Entries(d)
    BY <1>17, <2>1 DEF Blks
  <2>3. f.age < Aged(e).age
    BY <1>14, <2>1, <2>2
  <2>4. Aged(e).age = Min({e.age + 1, StartAge})
    <3>1. e.age \in Nat /\ StartAge \in Nat
      BY <1>12, CacheFacts DEF Entry
    <3>2. e.age + 1 \in Nat
      BY <3>1
    <3>3. Min({e.age + 1, StartAge}) = IF e.age + 1 <= StartAge THEN e.age + 1 ELSE StartAge
      BY <3>1, <3>2, MinOfTwo
    <3> QED
      BY <1>12, <3>3, AgedEntry
  <2>5. f.age \in Nat /\ Aged(e).age \in Nat
    <3>1. f \in Entry /\ Aged(e) \in Entry
      BY <1>12, <1>14, FreeInCacheIsNumber, AgedEntry
    <3> QED
      BY <3>1, CacheFacts DEF Entry
  <2> QED
    BY <2>3, <2>4, <2>5
<1> QED
  BY <1>14, <1>15, <1>16, <1>17 DEF d

-----------------------------------------------------------------------------
(* The inductive invariant.  What the properties leave out: the caches are *)
(* as sound as the routines above need them, a block that is held could go *)
(* into a cache, and no two caches have one block.                         *)

GoodCache(c) == c # NoCache => Sound(c) /\ c.freeInCache < MaxFreeSpace
BlksOf(c) == IF c = NoCache THEN {} ELSE Blks(Entries(c))

HeldGood(h) ==
  /\ DOMAIN h \subseteq Blocks
  /\ \A b \in DOMAIN h : h[b] \in Nat /\ h[b] <= Usable[b] /\ BlkSize <= Usable[b]

Good(h, cs) ==
  /\ HeldGood(h)
  /\ DOMAIN cs = Threads /\ cs = [t \in Threads |-> cs[t]]
  /\ \A t \in Threads : GoodCache(cs[t]) /\ BlksOf(cs[t]) \cap DOMAIN h = {}
  /\ \A t, u \in Threads : t # u => BlksOf(cs[t]) \cap BlksOf(cs[u]) = {}

IInv == Good(held, caches) /\ asserted = TRUE /\ intact = TRUE

-----------------------------------------------------------------------------
(* How the program's blocks and the caches may change. *)

\* The program gets a block that nobody has.
LEMMA GiveIsGood ==
  ASSUME NEW h, NEW cs, Good(h, cs), NEW b \in Blocks, NEW size \in Nat, size <= Usable[b],
         BlkSize <= Usable[b], \A t \in Threads : b \notin BlksOf(cs[t])
  PROVE  Good(With(h, b, size), cs)
<1> DEFINE new == With(h, b, size)
<1>1. /\ DOMAIN new = DOMAIN h \cup {b} /\ new[b] = size
      /\ \A c \in DOMAIN h : c # b => new[c] = h[c]
  BY DEF With
<1> HIDE DEF new
<1>2. HeldGood(new)
  BY <1>1 DEF HeldGood, Good
<1>3. \A t \in Threads : GoodCache(cs[t]) /\ BlksOf(cs[t]) \cap DOMAIN new = {}
  BY <1>1 DEF Good
<1>4. Good(new, cs)
  BY <1>2, <1>3 DEF Good
<1> QED
  BY <1>4 DEF new

\* The program gives a block away.
LEMMA TakeIsGood ==
  ASSUME NEW h, NEW cs, Good(h, cs), NEW b
  PROVE  Good([c \in DOMAIN h \ {b} |-> h[c]], cs)
<1> DEFINE new == [c \in DOMAIN h \ {b} |-> h[c]]
<1>1. DOMAIN new = DOMAIN h \ {b} /\ \A c \in DOMAIN new : new[c] = h[c]
  OBVIOUS
<1> HIDE DEF new
<1>2. HeldGood(new)
  BY <1>1 DEF HeldGood, Good
<1>3. \A t \in Threads : GoodCache(cs[t]) /\ BlksOf(cs[t]) \cap DOMAIN new = {}
  BY <1>1 DEF Good
<1>4. Good(new, cs)
  BY <1>2, <1>3 DEF Good
<1> QED
  BY <1>4 DEF new

\* One thread's cache changes and gets no block that somebody has.
LEMMA CacheIsGood ==
  ASSUME NEW h, NEW cs, Good(h, cs), NEW t \in Threads, NEW c, GoodCache(c),
         BlksOf(c) \cap DOMAIN h = {},
         \A u \in Threads : u # t => BlksOf(c) \cap BlksOf(cs[u]) = {}
  PROVE  Good(h, [cs EXCEPT ![t] = c])
<1> DEFINE new == [cs EXCEPT ![t] = c]
<1>1. /\ DOMAIN new = Threads /\ new = [u \in Threads |-> new[u]]
      /\ new[t] = c /\ \A u \in Threads : u # t => new[u] = cs[u]
  BY DEF Good
<1> HIDE DEF new
<1>2. \A u \in Threads : GoodCache(new[u]) /\ BlksOf(new[u]) \cap DOMAIN h = {}
  BY <1>1 DEF Good
<1>3. \A u, v \in Threads : u # v => BlksOf(new[u]) \cap BlksOf(new[v]) = {}
  <2> SUFFICES ASSUME NEW u \in Threads, NEW v \in Threads, u # v
               PROVE  BlksOf(new[u]) \cap BlksOf(new[v]) = {}
    OBVIOUS
  <2>1. CASE u = t
    BY <1>1, <2>1
  <2>2. CASE v = t
    BY <1>1, <2>2
  <2>3. CASE u # t /\ v # t
    BY <1>1, <2>3 DEF Good
  <2> QED
    BY <2>1, <2>2, <2>3
<1>4. Good(h, new)
  BY <1>1, <1>2, <1>3 DEF Good
<1> QED
  BY <1>4 DEF new

LEMMA FreshIsNobodys ==
  ASSUME IInv, NEW b \in Fresh
  PROVE  b \in Blocks /\ b \notin Held /\ \A t \in Threads : b \notin BlksOf(caches[t])
<1>1. \A t \in Threads : caches[t] # NoCache => Blks(Entries(caches[t])) \subseteq Cached
  BY DEF Cached, Caches, Blks
<1> QED
  BY <1>1 DEF Fresh, BlksOf

\* What OldestGoFirst says of one cache, when a call leaves d of c and the program has
\* the blocks h
InAgeOrder(c, d, h) ==
  d # NoCache =>
    \A e \in Entries(c), f \in Entries(d) :
      e.blk \notin Blks(Entries(d)) \cup h => f.age <= Min({e.age + 1, StartAge})

OldestStep == \A t \in Threads : InAgeOrder(caches[t], caches'[t], DOMAIN held')

LEMMA SameInOrder ==
  ASSUME NEW c, NEW h
  PROVE  InAgeOrder(c, c, h)
  BY DEF InAgeOrder, Blks

LEMMA OneInOrder ==
  ASSUME IInv, NEW t \in Threads, NEW d, caches' = [caches EXCEPT ![t] = d],
         InAgeOrder(caches[t], d, DOMAIN held')
  PROVE  OldestStep
<1>1. caches'[t] = d /\ \A u \in Threads : u # t => caches'[u] = caches[u]
  BY DEF IInv, Good
<1> QED
  BY <1>1, SameInOrder DEF OldestStep

-----------------------------------------------------------------------------
(* Every call keeps the invariant and the order. *)

LEMMA AllocCacheStep ==
  ASSUME IInv, NEW t \in Threads, AllocCache(t)
  PROVE  IInv' /\ OldestStep
<1>1. GoodCache(NewCache) /\ BlksOf(NewCache) = {}
  <2>1. NewCache.freeInCache = 0
    BY DEF NewCache
  <2> QED
    BY <2>1, NewCacheIsSound, CacheFacts DEF GoodCache, BlksOf, Blks
<1>2. caches' = [caches EXCEPT ![t] = NewCache] /\ UNCHANGED <<held, asserted, intact>>
  BY DEF AllocCache
<1>3. Good(held, [caches EXCEPT ![t] = NewCache])
  BY <1>1, CacheIsGood DEF IInv
<1>4. OldestStep
  BY <1>2, NewCacheIsSound, OneInOrder DEF InAgeOrder
<1> QED
  BY <1>2, <1>3, <1>4 DEF IInv

LEMMA DropCacheStep ==
  ASSUME IInv, NEW t \in Threads, DropCache(t)
  PROVE  IInv' /\ OldestStep
<1> DEFINE c == caches[t]
<1>1. Sound(c)
  BY DEF DropCache, IInv, Good, GoodCache
<1>2. caches' = [caches EXCEPT ![t] = NoCache] /\ UNCHANGED <<held, intact>>
  BY DEF DropCache
<1>3. RemoveCacheEntries(c, 0).freeInCache = 0
  <2> DEFINE d == RemoveCacheEntries(c, 0)
  <2>1. Sound(d) /\ Entries(d) = {e \in Entries(c) : e.age < 0}
    BY <1>1, RemovalIsExact
  <2>2. \A e \in Entries(c) : e.age \in Nat
    BY <1>1, FreeInCacheIsNumber, CacheFacts DEF Entry
  <2>3. Entries(d) = {}
    BY <2>1, <2>2
  <2> QED
    BY <2>1, <2>3, SizeOfNone DEF Sound
<1>4. asserted' = TRUE
  BY <1>1, <1>3, RemoveAssertsHold DEF DropCache, IInv
<1>5. Good(held, [caches EXCEPT ![t] = NoCache])
  BY CacheIsGood DEF IInv, GoodCache, BlksOf
<1>6. OldestStep
  BY <1>2, OneInOrder DEF InAgeOrder
<1> QED
  BY <1>2, <1>4, <1>5, <1>6 DEF IInv

\* A block that a cache serves is nobody's afterwards, and large enough.
LEMMA ServeIsGood ==
  ASSUME IInv, NEW t \in Threads, NEW size \in Nat, BlkSize <= size, Serves(t, size)
  PROVE  LET c == caches[t]
             e == Served(c, size)
             d == AfterMalloc(c, size)
             cs == [caches EXCEPT ![t] = d]
         IN  /\ size <= CacheMax /\ c # NoCache
             /\ Sound(d) /\ d.freeInCache < MaxFreeSpace /\ Good(held, cs)
             /\ e \in Entries(c) /\ Entries(d) = Entries(c) \ {e} /\ e.blk \notin Blks(Entries(d))
             /\ e.blk \in Blocks \ Held /\ \A u \in Threads : e.blk \notin BlksOf(cs[u])
             /\ BestSize(size) <= Usable[e.blk] /\ BlkSize <= Usable[e.blk]
             /\ MallocAsserts(c, size)
<1> DEFINE c == caches[t]
           e == Served(c, size)
           d == AfterMalloc(c, size)
           cs == [caches EXCEPT ![t] = d]
<1>1. c # NoCache /\ size <= CacheMax /\ 16 <= size /\ c.bins[FoundIn(c, size)] # <<>>
  BY DEF Serves, BlkSize
<1>2. Good(held, caches) /\ Sound(c) /\ c.freeInCache < MaxFreeSpace
  BY <1>1 DEF IInv, Good, GoodCache
<1>3. /\ Sound(d) /\ e \in Entries(c) /\ Entries(d) = Entries(c) \ {e}
      /\ d.freeInCache <= c.freeInCache
      /\ BestSize(size) <= Usable[e.blk] /\ MallocAsserts(c, size)
  <2> HIDE DEF c
  <2> QED
    BY <1>1, <1>2, MallocIsSound
<1> HIDE DEF e, d
<1>4. d.freeInCache < MaxFreeSpace
  BY <1>2, <1>3, CacheFacts, FreeInCacheIsNumber
<1>5. e.blk \notin Blks(Entries(d)) /\ Blks(Entries(d)) \subseteq Blks(Entries(c))
      /\ e.blk \in Blks(Entries(c))
  <2>1. Distinct(Entries(c))
    BY <1>2, FreeInCacheIsNumber
  <2> QED
    BY <1>3, <2>1 DEF Distinct, Blks
<1>6. BlksOf(c) = Blks(Entries(c)) /\ BlksOf(d) = Blks(Entries(d)) /\ GoodCache(d)
  BY <1>1, <1>3, <1>4, FreeInCacheIsNumber DEF BlksOf, GoodCache
<1>7. Good(held, cs)
  <2>1. BlksOf(d) \cap DOMAIN held = {}
    BY <1>2, <1>5, <1>6 DEF Good
  <2>2. \A u \in Threads : u # t => BlksOf(d) \cap BlksOf(caches[u]) = {}
    BY <1>2, <1>5, <1>6 DEF Good
  <2> QED
    BY <1>2, <1>6, <2>1, <2>2, CacheIsGood
<1>8. e.blk \in Blocks /\ BlkSize <= Usable[e.blk]
  <2>1. BinsSound(c.bins) /\ e \in EntriesIn(c.bins)
    BY <1>2, <1>3 DEF Sound, Entries
  <2>2. e.blk \in Blocks /\ Fits(e.blk)
    BY <2>1, EntriesFit
  <2> QED
    BY <2>2, CacheFacts DEF Fits, BlkSize, ChunkOverhead
<1>9. e.blk \notin Held
  BY <1>2, <1>5, <1>6 DEF Good, Held
<1>10. \A u \in Threads : e.blk \notin BlksOf(cs[u])
  <2>1. cs[t] = d /\ \A u \in Threads : u # t => cs[u] = caches[u]
    BY <1>2 DEF Good
  <2>2. \A u \in Threads : u # t => e.blk \notin BlksOf(caches[u])
    BY <1>2, <1>5, <1>6 DEF Good
  <2> QED
    BY <1>5, <1>6, <2>1, <2>2
<1> QED
  BY <1>1, <1>3, <1>4, <1>5, <1>7, <1>8, <1>9, <1>10 DEF e, d

\* An allocation whose request is as much as the program asked for
LEMMA AllocateStep ==
  ASSUME IInv, NEW t \in Threads, NEW size \in Nat, BlkSize <= size,
         NEW asked \in Nat, asked <= size, NEW writes \in Nat, writes <= AsksFor(t, size),
         Allocate(t, size, asked, writes)
  PROVE  IInv' /\ OldestStep
<1> DEFINE c == caches[t]
           e == Served(c, size)
           d == AfterMalloc(c, size)
           cs == [caches EXCEPT ![t] = d]
<1>1. CASE Serves(t, size)
  <2>1. /\ size <= CacheMax /\ c # NoCache /\ Good(held, cs)
        /\ Entries(d) = Entries(c) \ {e}
        /\ e.blk \in Blocks /\ \A u \in Threads : e.blk \notin BlksOf(cs[u])
        /\ BestSize(size) <= Usable[e.blk] /\ BlkSize <= Usable[e.blk] /\ MallocAsserts(c, size)
    BY <1>1, ServeIsGood
  <2>2. /\ held' = With(held, e.blk, asked) /\ intact' = (intact /\ writes <= Usable[e.blk])
        /\ asserted' = (asserted /\ MallocAsserts(c, size)) /\ caches' = cs
    BY <1>1 DEF Allocate, Gives
  <2> HIDE DEF cs, d, e
  <2>3. /\ size <= BestSize(size) /\ BestSize(size) \in Nat /\ AsksFor(t, size) = BestSize(size)
        /\ Usable[e.blk] \in Nat
    BY <2>1, BinOfRequest, ThreadCacheAssumption DEF AsksFor, BlkSize
  <2>4. Good(With(held, e.blk, asked), cs)
    BY <2>1, <2>3, GiveIsGood
  <2>5. InAgeOrder(c, d, DOMAIN held')
    <3>1. e.blk \in DOMAIN held'
      BY <2>2 DEF With
    <3> QED
      BY <2>1, <3>1 DEF InAgeOrder, Blks
  <2>6. OldestStep
    BY <2>2, <2>5, OneInOrder DEF cs
  <2>7. writes <= Usable[e.blk]
    BY <2>1, <2>3
  <2> QED
    BY <2>1, <2>2, <2>4, <2>6, <2>7 DEF IInv
<1>2. ASSUME NEW b \in Fresh, Usable[b] >= AsksFor(t, size), Gives(b, asked),
             UNCHANGED <<caches, asserted, intact>>
      PROVE  IInv' /\ OldestStep
  <2>1. AsksFor(t, size) \in Nat /\ size <= AsksFor(t, size)
    BY BinOfRequest DEF AsksFor, BlkSize
  <2>2. b \in Blocks /\ \A u \in Threads : b \notin BlksOf(caches[u])
    BY FreshIsNobodys
  <2>3. Usable[b] \in Nat /\ asked <= Usable[b] /\ BlkSize <= Usable[b]
    BY <1>2, <2>1, <2>2, ThreadCacheAssumption DEF BlkSize
  <2>4. Good(With(held, b, asked), caches)
    BY <2>2, <2>3, GiveIsGood DEF IInv
  <2> QED
    BY <1>2, <2>4, SameInOrder DEF Gives, IInv, OldestStep
<1>3. CASE UNCHANGED vars
  BY <1>3, SameInOrder DEF vars, IInv, OldestStep
<1> QED
  BY <1>1, <1>2, <1>3 DEF Allocate

LEMMA AtLeastIs ==
  ASSUME NEW size \in Nat
  PROVE  AtLeast(size) \in Nat /\ size <= AtLeast(size) /\ BlkSize <= AtLeast(size)
<1>1. Max({size, 24}) = IF size >= 24 THEN size ELSE 24
  BY MaxOfTwo
<1> QED
  BY <1>1 DEF AtLeast, BlkSize

LEMMA AsksForMore ==
  ASSUME NEW t \in Threads, NEW size \in Nat, BlkSize <= size
  PROVE  AsksFor(t, size) \in Nat /\ size <= AsksFor(t, size)
  BY BinOfRequest DEF AsksFor, BlkSize

LEMMA MallocStep ==
  ASSUME IInv, NEW t \in Threads, NEW size \in Nat, nedpmalloc(t, size)
  PROVE  IInv' /\ OldestStep
<1>1. AtLeast(size) \in Nat /\ size <= AtLeast(size) /\ BlkSize <= AtLeast(size)
  BY AtLeastIs
<1>2. 0 <= AsksFor(t, AtLeast(size))
  BY <1>1, AsksForMore
<1>3. Allocate(t, AtLeast(size), size, 0)
  BY DEF nedpmalloc
<1> QED
  BY <1>1, <1>2, <1>3, AllocateStep

LEMMA CallocStep ==
  ASSUME IInv, NEW t \in Threads, NEW no \in Nat, NEW size \in Nat, no * size < 2^WordBits,
         nedpcalloc(t, no, size)
  PROVE  IInv' /\ OldestStep
<1> DEFINE product == no * size
           rsize == AtLeast(product)
<1>1. product \in Nat /\ product < 2^WordBits
  OBVIOUS
<1>2. 2^WordBits \in Nat \ {0}
  BY CacheFacts, PowerIsNumber
<1>3. Allocate(t, AtLeast(product % 2^WordBits), product, AsksFor(t, AtLeast(product % 2^WordBits)))
  BY DEF nedpcalloc
<1> HIDE DEF product
<1>4. product % 2^WordBits = product
  BY <1>1, <1>2
<1>5. Allocate(t, rsize, product, AsksFor(t, rsize))
  BY <1>3, <1>4
<1>6. rsize \in Nat /\ product <= rsize /\ BlkSize <= rsize
  BY <1>1, AtLeastIs
<1> HIDE DEF rsize
<1>7. AsksFor(t, rsize) \in Nat /\ AsksFor(t, rsize) <= AsksFor(t, rsize)
  BY <1>6, AsksForMore
<1> QED
  BY <1>1, <1>5, <1>6, <1>7, AllocateStep

LEMMA MemalignStep ==
  ASSUME IInv, NEW t \in Threads, NEW size \in Nat, nedpmemalign(t, size)
  PROVE  IInv' /\ OldestStep
<1>1. PICK b \in Fresh : Usable[b] >= AtLeast(size) /\ Gives(b, size)
  BY DEF nedpmemalign
<1>2. UNCHANGED <<caches, asserted, intact>>
  BY DEF nedpmemalign
<1>3. b \in Blocks /\ \A u \in Threads : b \notin BlksOf(caches[u])
  BY FreshIsNobodys
<1>4. Usable[b] \in Nat /\ size <= Usable[b] /\ BlkSize <= Usable[b]
  BY <1>1, <1>3, AtLeastIs, ThreadCacheAssumption DEF BlkSize
<1>5. Good(With(held, b, size), caches)
  BY <1>3, <1>4, GiveIsGood DEF IInv
<1> QED
  BY <1>1, <1>2, <1>5, SameInOrder DEF Gives, IInv, OldestStep

LEMMA HeldFits ==
  ASSUME IInv, NEW b \in Held
  PROVE  /\ b \in Blocks /\ Usable[b] \in Nat /\ BlkSize <= Usable[b] /\ held[b] <= Usable[b]
         /\ held[b] \in Nat /\ \A t \in Threads : b \notin BlksOf(caches[t])
         /\ Cacheable(b) => Fits(b)
<1>1. /\ b \in Blocks /\ BlkSize <= Usable[b] /\ held[b] <= Usable[b] /\ held[b] \in Nat
      /\ \A t \in Threads : b \notin BlksOf(caches[t])
  BY DEF IInv, Good, HeldGood, Held
<1>2. Usable[b] \in Nat
  BY <1>1, ThreadCacheAssumption
<1> QED
  BY <1>1, <1>2, CacheFacts DEF Cacheable, Fits, BlkSize, ChunkOverhead

LEMMA FreeStep ==
  ASSUME IInv, NEW t \in Threads, NEW mem \in Held, nedpfree(t, mem)
  PROVE  IInv' /\ OldestStep
<1> DEFINE c == caches[t]
           d == AfterFree(c, mem)
           h == [b \in DOMAIN held \ {mem} |-> held[b]]
<1>1. Good(held, caches) /\ mem \in Blocks /\ \A u \in Threads : mem \notin BlksOf(caches[u])
  BY HeldFits DEF IInv
<1>2. held' = h /\ DOMAIN h = DOMAIN held \ {mem} /\ UNCHANGED intact
  BY DEF nedpfree, Takes, Held
<1>3. Good(h, caches)
  BY <1>1, TakeIsGood
<1>4. CASE c # NoCache /\ Cacheable(mem)
  <2>1. caches' = [caches EXCEPT ![t] = d] /\ asserted' = (asserted /\ FreeAsserts(c, mem))
    BY <1>4 DEF nedpfree
  <2>2. Sound(c) /\ mem \notin Blks(Entries(c)) /\ Fits(mem)
    BY <1>1, <1>4, HeldFits DEF Good, GoodCache, BlksOf
  <2>3. /\ Sound(d) /\ d.freeInCache < MaxFreeSpace
        /\ Blks(Entries(d)) \subseteq Blks(Entries(c)) \cup {mem}
        /\ FreeAsserts(c, mem)
        /\ \A e \in Entries(c), f \in Entries(d) :
             e.blk \notin Blks(Entries(d)) => f.age <= Min({e.age + 1, StartAge})
    <3> HIDE DEF c
    <3> QED
      BY <1>1, <2>2, FreeIsSound
  <2> HIDE DEF d
  <2>4. GoodCache(d) /\ BlksOf(d) \subseteq BlksOf(c) \cup {mem}
    BY <1>4, <2>3 DEF GoodCache, BlksOf
  <2>5. Good(h, [caches EXCEPT ![t] = d])
    <3>1. BlksOf(d) \cap DOMAIN h = {}
      BY <1>1, <1>2, <2>4 DEF Good
    <3>2. \A u \in Threads : u # t => BlksOf(d) \cap BlksOf(caches[u]) = {}
      BY <1>1, <2>4 DEF Good
    <3> HIDE DEF h
    <3> QED
      BY <1>3, <2>4, <3>1, <3>2, CacheIsGood
  <2>6. InAgeOrder(c, d, DOMAIN held')
    BY <2>3 DEF InAgeOrder
  <2>7. OldestStep
    BY <2>1, <2>6, OneInOrder
  <2> HIDE DEF h
  <2> QED
    BY <1>2, <2>1, <2>3, <2>5, <2>7 DEF IInv
<1>5. CASE ~(c # NoCache /\ Cacheable(mem))
  <2>1. UNCHANGED <<caches, asserted>>
    BY <1>5 DEF nedpfree
  <2> HIDE DEF h
  <2> QED
    BY <1>2, <1>3, <2>1, SameInOrder DEF IInv, OldestStep
<1> QED
  BY <1>4, <1>5

\* nedprealloc copies all that is in use, and no more than either block has.
LEMMA CopyIsRight ==
  ASSUME IInv, NEW mem \in Held, NEW b \in Blocks, NEW req \in Nat, NEW size \in Nat,
         req <= size, size <= Usable[b]
  PROVE  Copies(CopySize(Usable[mem], size), mem, b, req)
<1>1. Usable[mem] \in Nat /\ held[mem] \in Nat /\ held[mem] <= Usable[mem] /\ Usable[b] \in Nat
  BY HeldFits, ThreadCacheAssumption
<1>2. CopySize(Usable[mem], size) = IF Usable[mem] <= size THEN Usable[mem] ELSE size
  BY <1>1, MinOfTwo DEF CopySize
<1>3. Min({held[mem], req}) = IF held[mem] <= req THEN held[mem] ELSE req
  BY <1>1, MinOfTwo
<1> QED
  BY <1>1, <1>2, <1>3 DEF Copies

LEMMA ReallocStep ==
  ASSUME IInv, NEW t \in Threads, NEW mem \in Held, NEW req \in Nat, nedprealloc(t, mem, req)
  PROVE  IInv' /\ OldestStep
<1> DEFINE size == AtLeast(req)
           h == [b \in DOMAIN held \ {mem} |-> held[b]]
<1>1. size \in Nat /\ req <= size /\ BlkSize <= size
  BY AtLeastIs
<1>2. /\ Good(held, caches) /\ mem \in Blocks /\ mem \in DOMAIN held
      /\ \A u \in Threads : mem \notin BlksOf(caches[u])
  BY HeldFits DEF IInv, Held
<1>3. h = Takes(mem) /\ DOMAIN h = DOMAIN held \ {mem}
  BY DEF Takes, Held
<1>4. CASE Serves(t, size)
  <2> DEFINE c == caches[t]
             e == Served(c, size)
             c1 == AfterMalloc(c, size)
             cs == [caches EXCEPT ![t] = c1]
             now == With(h, e.blk, req)
             cached == Usable[mem] <= CacheMax
             d == AfterFree(c1, mem)
  <2>1. /\ size <= CacheMax /\ c # NoCache
        /\ Sound(c1) /\ c1.freeInCache < MaxFreeSpace /\ Good(held, cs)
        /\ e \in Entries(c) /\ Entries(c1) = Entries(c) \ {e}
        /\ e.blk \in Blocks \ Held /\ \A u \in Threads : e.blk \notin BlksOf(cs[u])
        /\ BestSize(size) <= Usable[e.blk] /\ BlkSize <= Usable[e.blk]
        /\ MallocAsserts(c, size)
    <3> HIDE DEF size
    <3> QED
      BY <1>1, <1>4, ServeIsGood
  <2>2. /\ held' = With(Takes(mem), e.blk, req)
        /\ intact' = (intact /\ Copies(CopySize(Usable[mem], BestSize(size)), mem, e.blk, req))
        /\ caches' = [caches EXCEPT ![t] = IF cached THEN d ELSE c1]
        /\ asserted' = (asserted /\ MallocAsserts(c, size) /\ (cached => FreeAsserts(c1, mem)))
    BY <1>4 DEF nedprealloc
  <2> HIDE DEF size, h, c, e, c1
  <2>3. size <= BestSize(size) /\ BestSize(size) \in Nat /\ Usable[e.blk] \in Nat
    BY <1>1, <2>1, BinOfRequest, ThreadCacheAssumption DEF BlkSize
  <2>4. intact' = TRUE
    <3>1. Copies(CopySize(Usable[mem], BestSize(size)), mem, e.blk, req)
      BY <1>1, <2>1, <2>3, CopyIsRight
    <3> QED
      BY <2>2, <3>1 DEF IInv
  <2>5. Good(now, cs) /\ held' = now
    <3>1. Good(h, cs)
      BY <2>1, TakeIsGood DEF h
    <3>2. req <= Usable[e.blk]
      BY <1>1, <2>1, <2>3
    <3>3. Good(now, cs)
      BY <2>1, <3>1, <3>2, GiveIsGood
    <3> QED
      BY <1>3, <2>2, <3>3
  <2>6. e.blk \in DOMAIN held' /\ DOMAIN now = (DOMAIN held \ {mem}) \cup {e.blk}
    BY <1>3, <2>5 DEF With
  <2>7. cs[t] = c1 /\ \A u \in Threads : u # t => cs[u] = caches[u]
    BY <1>2 DEF Good
  <2>8. CASE cached
    <3>1. mem \notin Blks(Entries(c1)) /\ Fits(mem)
      <4>1. mem \notin Blks(Entries(c))
        BY <1>2, <2>1 DEF BlksOf, c
      <4>2. Cacheable(mem)
        BY <2>8, HeldFits, CacheFacts DEF Cacheable, ChunkOverhead
      <4> QED
        BY <2>1, <4>1, <4>2, HeldFits DEF Blks
    <3>2. /\ Sound(d) /\ d.freeInCache < MaxFreeSpace
          /\ Blks(Entries(d)) \subseteq Blks(Entries(c1)) \cup {mem}
          /\ FreeAsserts(c1, mem)
          /\ \A f \in Entries(c1), g \in Entries(d) :
               f.blk \notin Blks(Entries(d)) => g.age <= Min({f.age + 1, StartAge})
      BY <1>2, <2>1, <3>1, FreeIsSound
    <3> HIDE DEF d, now, cs
    <3>3. GoodCache(d) /\ BlksOf(d) \subseteq Blks(Entries(c1)) \cup {mem}
          /\ BlksOf(c1) = Blks(Entries(c1))
      BY <2>1, <3>2, FreeInCacheIsNumber DEF GoodCache, BlksOf
    <3>4. Good(now, [cs EXCEPT ![t] = d])
      <4>1. mem \notin DOMAIN now
        BY <1>2, <2>1, <2>6 DEF Held
      <4>2. BlksOf(d) \cap DOMAIN now = {}
        BY <2>5, <2>7, <3>3, <4>1 DEF Good
      <4>3. \A u \in Threads : u # t => BlksOf(d) \cap BlksOf(cs[u]) = {}
        BY <1>2, <2>5, <2>7, <3>3 DEF Good
      <4> QED
        BY <2>5, <3>3, <4>2, <4>3, CacheIsGood
    <3>5. [cs EXCEPT ![t] = d] = caches' /\ caches' = [caches EXCEPT ![t] = d]
      BY <2>2, <2>8 DEF cs
    <3>6. OldestStep
      <4>1. InAgeOrder(c, d, DOMAIN held')
        BY <2>1, <2>6, <3>2 DEF InAgeOrder
      <4> QED
        BY <3>5, <4>1, OneInOrder DEF c
    <3>7. asserted' = TRUE
      BY <2>1, <2>2, <2>8, <3>2 DEF IInv
    <3> QED
      BY <2>4, <2>5, <3>4, <3>5, <3>6, <3>7 DEF IInv
  <2>9. CASE ~cached
    <3>1. caches' = cs /\ asserted' = TRUE
      BY <2>1, <2>2, <2>9 DEF IInv
    <3>2. OldestStep
      <4>1. InAgeOrder(c, c1, DOMAIN held')
        BY <2>1, <2>6 DEF InAgeOrder, Blks
      <4> QED
        BY <3>1, <4>1, OneInOrder DEF c
    <3> HIDE DEF now, cs
    <3> QED
      BY <2>4, <2>5, <3>1, <3>2 DEF IInv
  <2> QED
    BY <2>8, <2>9
<1>5. ASSUME NEW b \in Fresh \cup {mem}, Usable[b] >= AsksFor(t, size),
             held' = With(Takes(mem), b, req), UNCHANGED <<caches, asserted, intact>>
      PROVE  IInv' /\ OldestStep
  <2> HIDE DEF size, h
  <2>1. b \in Blocks /\ \A u \in Threads : b \notin BlksOf(caches[u])
    BY <1>2, FreshIsNobodys
  <2>2. Usable[b] \in Nat /\ req <= Usable[b] /\ BlkSize <= Usable[b]
    BY <1>1, <1>5, <2>1, AsksForMore, ThreadCacheAssumption DEF BlkSize
  <2>3. Good(h, caches)
    BY <1>2, TakeIsGood DEF h
  <2>4. Good(With(h, b, req), caches)
    BY <2>1, <2>2, <2>3, GiveIsGood
  <2> QED
    BY <1>3, <1>5, <2>4, SameInOrder DEF IInv, OldestStep
<1>6. CASE UNCHANGED vars
  BY <1>6, SameInOrder DEF vars, IInv, OldestStep
<1> QED
  BY <1>4, <1>5, <1>6 DEF nedprealloc

-----------------------------------------------------------------------------
(* The theorems. *)

LEMMA InitGood == Init => IInv
<1> SUFFICES ASSUME Init PROVE IInv
  OBVIOUS
<1>1. held = <<>> /\ caches = [t \in Threads |-> NoCache] /\ asserted = TRUE /\ intact = TRUE
  BY DEF Init
<1>2. DOMAIN held = {}
  BY <1>1
<1>3. /\ DOMAIN caches = Threads /\ caches = [t \in Threads |-> caches[t]]
      /\ \A t \in Threads : caches[t] = NoCache
  BY <1>1
<1>4. \A t \in Threads : GoodCache(caches[t]) /\ BlksOf(caches[t]) = {}
  BY <1>3 DEF GoodCache, BlksOf
<1> QED
  BY <1>1, <1>2, <1>3, <1>4 DEF IInv, Good, HeldGood

LEMMA StepGood ==
  ASSUME ProductsFit, IInv, Next
  PROVE  IInv' /\ OldestStep
<1>1. \A size \in Requests : size \in Nat
  BY ThreadCacheAssumption
<1>2. PICK t \in Threads :
        \/ AllocCache(t) \/ DropCache(t)
        \/ \E size \in Requests :
             \/ nedpmalloc(t, size) \/ nedpmemalign(t, size)
             \/ \E no \in Counts : nedpcalloc(t, no, size)
             \/ \E mem \in Held : nedprealloc(t, mem, size)
        \/ \E mem \in Held : nedpfree(t, mem)
  BY DEF Next
<1>3. CASE AllocCache(t)
  BY <1>3, AllocCacheStep
<1>4. CASE DropCache(t)
  BY <1>4, DropCacheStep
<1>5. ASSUME NEW size \in Requests, nedpmalloc(t, size) PROVE IInv' /\ OldestStep
  BY <1>1, <1>5, MallocStep
<1>6. ASSUME NEW size \in Requests, nedpmemalign(t, size) PROVE IInv' /\ OldestStep
  BY <1>1, <1>6, MemalignStep
<1>7. ASSUME NEW size \in Requests, NEW no \in Counts, nedpcalloc(t, no, size)
      PROVE  IInv' /\ OldestStep
  <2>1. no \in Nat /\ size \in Nat /\ no * size < 2^WordBits
    BY ThreadCacheAssumption DEF ProductsFit
  <2> QED
    BY <1>7, <2>1, CallocStep
<1>8. ASSUME NEW size \in Requests, NEW mem \in Held, nedprealloc(t, mem, size)
      PROVE  IInv' /\ OldestStep
  BY <1>1, <1>8, ReallocStep
<1>9. ASSUME NEW mem \in Held, nedpfree(t, mem) PROVE IInv' /\ OldestStep
  BY <1>9, FreeStep
<1> QED
  BY <1>2, <1>3, <1>4, <1>5, <1>6, <1>7, <1>8, <1>9

LEMMA StutterGood ==
  ASSUME IInv, UNCHANGED vars
  PROVE  IInv'
  BY DEF vars, IInv

\* The invariant holds of every run whose callers' products do not wrap around.
LEMMA Invariant == ProductsFit => (Spec => []IInv)
<1> SUFFICES ASSUME ProductsFit PROVE Spec => []IInv
  OBVIOUS
<1>1. IInv /\ [Next]_vars => IInv'
  BY StepGood, StutterGood
<1> QED
  BY <1>1, InitGood, PTL DEF Spec

LEMMA SoundCaches == IInv => CachesSound
<1> SUFFICES ASSUME IInv PROVE CachesSound
  OBVIOUS
<1>1. Good(held, caches)
  BY DEF IInv
<1>2. ASSUME NEW t \in Caches
      PROVE  /\ t \in Threads /\ Sound(caches[t]) /\ caches[t].freeInCache < MaxFreeSpace
             /\ BlksOf(caches[t]) = Blks(Entries(caches[t]))
  BY <1>1, <1>2 DEF Caches, Good, GoodCache, BlksOf
<1>3. ASSUME NEW t \in Caches, NEW k \in Bins PROVE BinSound(k, Bin(t, k))
  BY <1>2, <1>3 DEF Sound, BinsSound, Bin
<1>4. ASSUME NEW t \in Caches, NEW k \in Bins, NEW i \in DOMAIN Bin(t, k)
      PROVE  /\ Bin(t, k)[i] \in ToSet(Bin(t, k)) /\ Bin(t, k)[i] \in Entries(caches[t])
             /\ Bin(t, k)[i].blk \in Blks(Entries(caches[t]))
  <2>1. Bin(t, k)[i] \in ToSet(Bin(t, k))
    BY DEF ToSet
  <2>2. Bin(t, k)[i] \in Entries(caches[t])
    BY <2>1, EntriesOfBins DEF Entries, Bin
  <2> QED
    BY <2>1, <2>2 DEF Blks
<1>5. TypeOK
  <2>1. ASSUME NEW t \in Caches
        PROVE  /\ caches[t].freeInCache \in Nat /\ DOMAIN caches[t].bins = Bins
               /\ Entries(caches[t]) \subseteq
                    [blk : Blocks, size : {2^(k + 4) : k \in Bins}, age : 0..StartAge]
    <3>1. Sound(caches[t])
      BY <1>2
    <3>2. caches[t].freeInCache \in Nat /\ Entries(caches[t]) \in SUBSET Entry
      BY <3>1, FreeInCacheIsNumber
    <3>3. DOMAIN caches[t].bins = Bins
      BY <3>1 DEF Sound, BinsSound
    <3>4. ASSUME NEW e \in Entries(caches[t])
          PROVE  e \in [blk : Blocks, size : {2^(k + 4) : k \in Bins}, age : 0..StartAge]
      <4>1. PICK k \in Bins : e \in ToSet(caches[t].bins[k])
        BY EntriesOfBins DEF Entries
      <4>2. BinSound(k, caches[t].bins[k])
        BY <3>1 DEF Sound, BinsSound
      <4>3. e.size = 2^(k + 4)
        BY <4>1, <4>2, EntriesOfBin
      <4>4. e = [blk |-> e.blk, size |-> e.size, age |-> e.age]
            /\ e.blk \in Blocks /\ e.age \in 0..StartAge
        BY <3>2 DEF Entry
      <4> QED
        BY <4>3, <4>4
    <3> QED
      BY <3>2, <3>3, <3>4
  <2>2. Held \subseteq Blocks /\ \A b \in Held : held[b] \in Nat
    BY <1>1 DEF Good, HeldGood, Held
  <2> QED
    BY <2>1, <2>2 DEF TypeOK, IInv
<1>6. OnePlace
  <2>1. Held \cap Cached = {}
    <3>1. SUFFICES ASSUME NEW b \in Held, b \in Cached PROVE FALSE
      OBVIOUS
    <3>2. PICK t \in Caches : b \in Blks(Entries(caches[t]))
      BY <3>1 DEF Cached, Blks
    <3> QED
      BY <1>1, <1>2, <3>2 DEF Good, Held
  <2>2. ASSUME NEW t \in Caches, NEW u \in Caches, NEW k \in Bins, NEW l \in Bins,
               NEW i \in DOMAIN Bin(t, k), NEW j \in DOMAIN Bin(u, l),
               Bin(t, k)[i].blk = Bin(u, l)[j].blk
        PROVE  t = u /\ k = l /\ i = j
    <3>1. t = u
      BY <1>1, <1>2, <1>4, <2>2 DEF Good
    <3>2. k = l
      <4>1. /\ Bin(t, k)[i].blk \in Blks(ToSet(Bin(t, k)))
            /\ Bin(u, l)[j].blk \in Blks(ToSet(Bin(t, l)))
        BY <1>4, <3>1 DEF Blks
      <4> QED
        BY <1>2, <2>2, <4>1 DEF Sound, BinsSound, Bin
    <3>3. i = j
      BY <1>3, <2>2, <3>1, <3>2 DEF BinSound
    <3> QED
      BY <3>1, <3>2, <3>3
  <2> QED
    BY <2>1, <2>2 DEF OnePlace
<1>7. FreeInCacheExact
  BY <1>2 DEF FreeInCacheExact, Sound
<1>8. BinsInOrder
  BY <1>3 DEF BinsInOrder, BinSound
<1>9. CacheBounded
  BY <1>2 DEF CacheBounded
<1> QED
  BY <1>5, <1>6, <1>7, <1>8, <1>9 DEF CachesSound

\* Between two calls every cache of every thread is what its searches and its garbage
\* collection rely on: freeInCache is exact and below the bound, bins hold blocks of
\* their size in the order of age, and no block is in two places.
THEOREM CachesAreSound == ProductsFit => (Spec => []CachesSound)
  BY Invariant, SoundCaches, PTL

\* A block is long enough for what was asked, wherever it came from, and no copy or
\* clearing of nedprealloc and nedpcalloc loses or overruns anything.
THEOREM BlocksAlwaysServe == ProductsFit => (Spec => []BlocksServe)
<1>1. IInv => BlocksServe
  <2> SUFFICES ASSUME IInv PROVE BlocksServe
    OBVIOUS
  <2>1. \A b \in Held : Usable[b] >= held[b]
    BY HeldFits
  <2> QED
    BY <2>1 DEF BlocksServe, AskedFits, DataKept, IInv
<1> QED
  BY <1>1, Invariant, PTL

\* No assertion of the cache fails.
THEOREM AssertionsAlwaysHold == ProductsFit => (Spec => []AssertionsHold)
<1>1. IInv => AssertionsHold
  BY DEF IInv, AssertionsHold
<1> QED
  BY <1>1, Invariant, PTL

\* Of two blocks in a cache the one freed earlier is given back to its mspace first.
THEOREM OldestAlwaysGoFirst == ProductsFit => (Spec => OldestGoFirst)
<1> SUFFICES ASSUME ProductsFit PROVE Spec => OldestGoFirst
  OBVIOUS
<1> DEFINE Ordered ==
      \A t \in Caches :
        caches'[t] # NoCache =>
          LET left == Entries(caches'[t])
              gone == {e \in Entries(caches[t]) :
                         e.blk \notin {f.blk : f \in left} \cup DOMAIN held'}
          IN  \A e \in gone, f \in left : f.age <= Min({e.age + 1, StartAge})
<1>1. OldestStep => Ordered
  BY DEF OldestStep, InAgeOrder, Blks, Caches
<1>2. IInv /\ [Next]_vars => [Ordered]_vars
  BY <1>1, StepGood
<1>3. Spec => []IInv
  BY Invariant
<1>4. OldestGoFirst <=> [][Ordered]_vars
  BY DEF OldestGoFirst
<1> HIDE DEF Ordered
<1> QED
  BY <1>2, <1>3, <1>4, PTL DEF Spec
=============================================================================
