---------------------------- MODULE MspaceProofs ----------------------------
(***************************************************************************)
(* The bins of an mspace for any values of the constants.                  *)
(*                                                                         *)
(* What Arithmetic says of the bins comes first: of 2^k only what          *)
(* PowersUpTo states is used, and the rest follows from the division of    *)
(* numbers by products.  A word is known by its bits, so that the tricks   *)
(* of the bit maps become facts about sets of bits.                        *)
(***************************************************************************)
EXTENDS Mspace, Arithmetic, FiniteSetTheorems, WellFoundedInduction, TLAPS

-----------------------------------------------------------------------------
(* Sizes, as in MallocProofs. *)

\* The width of a size_t enters as one natural number.
LEMMA SizeTFacts ==
  /\ SizeT \in Nat /\ PageSize + 128 <= SizeT
  /\ {PageSize, Granularity, MStateSize, CallocMask} \subseteq Nat \ {0}
  /\ MAX_SIZE_T = SizeT - 1 /\ MAX_REQUEST = SizeT - 128
<1>1. SizeT \in Nat /\ PageSize + 128 <= SizeT
  BY SizesAssumption DEF SizeT
<1>2. {PageSize, Granularity, MStateSize, CallocMask} \subseteq Nat \ {0}
  BY SizesAssumption
<1> QED
  BY <1>1, <1>2 DEF MAX_SIZE_T, MAX_REQUEST, MIN_CHUNK_SIZE, SIZE_T_SIZE

\* Without a wrap the result is the next multiple of the unit.
LEMMA RoundUpExact ==
  ASSUME NEW s \in Nat, NEW unit \in Nat \ {0}, s + unit - 1 < SizeT
  PROVE  /\ RoundUp(s, unit) \in Nat /\ RoundUp(s, unit) % unit = 0
         /\ s <= RoundUp(s, unit) /\ RoundUp(s, unit) < s + unit
<1> DEFINE w == s + unit - 1
           r == w % unit
<1>1. SizeT \in Nat /\ w \in Nat /\ w < SizeT
  BY SizeTFacts
<1>2. w % SizeT = w
  BY <1>1
<1>3. r \in 0..unit - 1
  BY <1>1
<1>4. RoundUp(s, unit) = w - r
  BY <1>2 DEF RoundUp
<1>5. w - r = unit * (w \div unit) /\ w \div unit \in Int
  BY <1>1
<1>6. \A a \in Int : (unit * a) % unit = 0
  OBVIOUS
<1> QED
  BY <1>1, <1>3, <1>4, <1>5, <1>6

\* A request below MAX_REQUEST becomes an aligned chunk that holds it, its header and
\* its footer.
LEMMA ChunkOfRequest ==
  ASSUME NEW bytes \in Nat, bytes < MAX_REQUEST
  PROVE  /\ request2size(bytes) \in Nat /\ request2size(bytes) % MALLOC_ALIGNMENT = 0
         /\ MIN_CHUNK_SIZE <= request2size(bytes)
         /\ bytes + CHUNK_OVERHEAD <= request2size(bytes)
         /\ request2size(bytes) < bytes + CHUNK_OVERHEAD + MIN_CHUNK_SIZE
         /\ request2size(bytes) < MAX_SIZE_T
<1>1. SizeT \in Nat /\ bytes + 23 < SizeT
  BY SizeTFacts
<1>2. /\ pad_request(bytes) \in Nat /\ pad_request(bytes) % 8 = 0
      /\ bytes + 16 <= pad_request(bytes) /\ pad_request(bytes) < bytes + 24
  BY <1>1, RoundUpExact DEF pad_request, CHUNK_OVERHEAD, MALLOC_ALIGNMENT, SIZE_T_SIZE
<1>3. CASE bytes < MIN_REQUEST
  BY <1>3, SizeTFacts
     DEF request2size, MIN_REQUEST, MIN_CHUNK_SIZE, CHUNK_OVERHEAD, MALLOC_ALIGNMENT, SIZE_T_SIZE
<1>4. CASE ~(bytes < MIN_REQUEST)
  <2>1. pad_request(bytes) = 8 * (pad_request(bytes) \div 8)
    BY <1>2
  <2>2. pad_request(bytes) >= 32
    BY <1>2, <1>4, <2>1 DEF MIN_REQUEST, MIN_CHUNK_SIZE, CHUNK_OVERHEAD, SIZE_T_SIZE
  <2> QED
    BY <1>2, <1>4, <2>2, SizeTFacts
       DEF request2size, MIN_CHUNK_SIZE, CHUNK_OVERHEAD, MALLOC_ALIGNMENT, SIZE_T_SIZE
<1> QED
  BY <1>3, <1>4

\* A nonempty set of numbers has a least one.
LEMMA LeastNumber ==
  ASSUME NEW T \in SUBSET Nat, T # {}
  PROVE  \E least \in T : \A v \in T : least <= v
<1> DEFINE R == OpToRel(<, Nat)
<1>1. IsWellFoundedOn(R, Nat)
  BY NatLessThanWellFounded
<1> HIDE DEF R
<1>2. PICK least \in T : \A v \in T : ~(<<v, least>> \in R)
  BY <1>1, WFMin
<1>3. \A v, k \in Nat : <<v, k>> \in R <=> v < k
  BY DEF R, OpToRel
<1>4. ASSUME NEW v \in T PROVE least <= v
  <2>1. ~(<<v, least>> \in R) /\ v \in Nat /\ least \in Nat
    BY <1>2
  <2>2. ~(v < least)
    BY <1>3, <2>1
  <2> QED
    BY <2>1, <2>2
<1> QED
  BY <1>4

-----------------------------------------------------------------------------
(* Division and powers of two. *)

LEMMA ProductsApart ==
  ASSUME NEW a \in Int, NEW b \in Int, NEW d \in Nat, a < b
  PROVE  a * d + d <= b * d
<1> DEFINE c == b - a - 1
<1>1. c \in Nat /\ b = a + 1 + c
  OBVIOUS
<1> HIDE DEF c
<1>2. c * d \in Nat
  BY <1>1
<1>3. (a + 1 + c) * d = a * d + d + c * d
  BY <1>1
<1> QED
  BY <1>1, <1>2, <1>3

\* A number that is written as a multiple and a rest has no other quotient.
LEMMA QuotientIs ==
  ASSUME NEW d \in Nat \ {0}, NEW q \in Int, NEW r \in 0..d - 1
  PROVE  (q * d + r) \div d = q /\ (q * d + r) % d = r
<1> DEFINE a == q * d + r
           p == a \div d
           t == a % d
<1>1. a \in Int
  OBVIOUS
<1>2. p \in Int /\ t \in 0..d - 1 /\ a = d * p + t
  <2> HIDE DEF a
  <2> QED
    BY <1>1
<1> HIDE DEF p, t
<1>3. d * p = p * d /\ q * d \in Int /\ p * d \in Int
  BY <1>2
<1>4. ~(p < q)
  <2>1. SUFFICES ASSUME p < q PROVE FALSE
    OBVIOUS
  <2>2. p * d + d <= q * d
    BY <1>2, <2>1, ProductsApart
  <2> QED
    BY <1>2, <1>3, <2>2
<1>5. ~(q < p)
  <2>1. SUFFICES ASSUME q < p PROVE FALSE
    OBVIOUS
  <2>2. q * d + d <= p * d
    BY <1>2, <2>1, ProductsApart
  <2> QED
    BY <1>2, <1>3, <2>2
<1>6. p = q
  BY <1>2, <1>4, <1>5
<1>7. t = r
  BY <1>2, <1>3, <1>6
<1> QED
  BY <1>6, <1>7 DEF p, t

\* The quotient and the rest of a number
LEMMA Divided ==
  ASSUME NEW a \in Nat, NEW d \in Nat \ {0}
  PROVE  a \div d \in Nat /\ a % d \in 0..d - 1 /\ a = (a \div d) * d + (a % d)
<1>1. a \div d \in Int /\ a % d \in 0..d - 1 /\ a = d * (a \div d) + (a % d)
  OBVIOUS
<1>2. \A q \in Int : q < 0 => d * q <= -d
  <2>1. SUFFICES ASSUME NEW q \in Int, q < 0 PROVE d * q <= -d
    OBVIOUS
  <2>2. q * d + d <= 0 * d
    BY <2>1, ProductsApart
  <2> QED
    BY <2>2
<1>3. d * (a \div d) = (a \div d) * d
  BY <1>1
<1>4. ~(a \div d < 0)
  <2> DEFINE q == a \div d
             r == a % d
  <2>1. q \in Int /\ r \in 0..d - 1 /\ a = d * q + r
    BY <1>1
  <2> HIDE DEF q, r
  <2>2. SUFFICES ASSUME q < 0 PROVE FALSE
    BY DEF q
  <2>3. d * q <= -d /\ d * q \in Int
    BY <1>2, <2>1, <2>2
  <2> QED
    BY <2>1, <2>3
<1> QED
  BY <1>1, <1>3, <1>4

LEMMA DividedTwice ==
  ASSUME NEW a \in Nat, NEW p \in Nat \ {0}, NEW q \in Nat \ {0}
  PROVE  p * q \in Nat \ {0} /\ (a \div p) \div q = a \div (p * q)
<1> DEFINE b == a \div p
           r == a % p
           c == b \div q
           t == b % q
<1>1. b \in Nat /\ r \in 0..p - 1 /\ a = b * p + r
  BY Divided
<1>2. c \in Nat /\ t \in 0..q - 1 /\ b = c * q + t
  <2> HIDE DEF b
  <2> QED
    BY <1>1, Divided
<1>3. p * q \in Nat \ {0}
  OBVIOUS
<1> HIDE DEF b, r, c, t
<1>4. a = c * (p * q) + (t * p + r)
  BY <1>1, <1>2
<1>5. t * p + r \in 0..p * q - 1
  <2>1. t * p + p <= q * p
    BY <1>2, ProductsApart
  <2>2. t * p \in Nat /\ q * p = p * q
    BY <1>2
  <2> QED
    BY <1>1, <1>3, <2>1, <2>2
<1>6. a \div (p * q) = c
  BY <1>2, <1>3, <1>4, <1>5, QuotientIs
<1> QED
  BY <1>3, <1>6 DEF b, c

LEMMA DivisionGrows ==
  ASSUME NEW a \in Nat, NEW b \in Nat, NEW d \in Nat \ {0}, a <= b
  PROVE  a \div d <= b \div d
<1> DEFINE p == a \div d
           q == b \div d
<1>1. p \in Nat /\ q \in Nat /\ a % d \in 0..d - 1 /\ b % d \in 0..d - 1
  BY Divided
<1>2. a = p * d + (a % d) /\ b = q * d + (b % d)
  BY Divided
<1> HIDE DEF p, q
<1>3. SUFFICES ASSUME q < p PROVE FALSE
  BY <1>1 DEF p, q
<1>4. q * d + d <= p * d
  BY <1>1, <1>3, ProductsApart
<1>5. q * d \in Nat /\ p * d \in Nat
  BY <1>1
<1> QED
  BY <1>1, <1>2, <1>4, <1>5

LEMMA PowerIsNumber ==
  ASSUME NEW b \in Nat, PowersUpTo(b), NEW k \in 0..b + 1
  PROVE  2^k \in Nat \ {0}
<1>1. CASE k <= b
  BY <1>1 DEF PowersUpTo
<1>2. CASE k = b + 1
  <2>1. 2^(b + 1) = 2 * 2^b /\ 2^b \in Nat \ {0}
    BY DEF PowersUpTo
  <2> QED
    BY <1>2, <2>1
<1> QED
  BY <1>1, <1>2

LEMMA PowersAdd ==
  ASSUME NEW b \in Nat, PowersUpTo(b), NEW i \in Nat, NEW j \in Nat, i + j <= b + 1
  PROVE  2^(i + j) = 2^i * 2^j
<1> DEFINE T == {v \in 0..j : 2^(i + v) # 2^i * 2^v}
<1>1. SUFFICES ASSUME T # {} PROVE FALSE
  OBVIOUS
<1>2. PICK v \in T : \A k \in T : v <= k
  <2>1. T \in SUBSET Nat
    OBVIOUS
  <2> HIDE DEF T
  <2> QED
    BY <1>1, <2>1, LeastNumber
<1>3. 2^i \in Nat /\ 2^0 = 1
  BY PowerIsNumber DEF PowersUpTo
<1>4. v # 0
  <2>1. SUFFICES ASSUME v = 0 PROVE FALSE
    OBVIOUS
  <2>2. i + v = i /\ 2^i * 1 = 2^i
    BY <1>3, <2>1
  <2>3. 2^(i + v) = 2^i * 2^v
    BY <1>3, <2>1, <2>2
  <2> QED
    BY <1>2, <2>3
<1>5. v - 1 \in 0..j /\ v - 1 \notin T
  <2>1. v \in Nat /\ v <= j /\ ~(v <= v - 1)
    BY <1>2
  <2> QED
    BY <1>2, <1>4, <2>1
<1>6. 2^(i + (v - 1)) = 2^i * 2^(v - 1)
  BY <1>5
<1>7. 2^(v - 1) \in Nat /\ 2^v = 2 * 2^(v - 1)
  <2>1. v - 1 \in 0..b /\ (v - 1) + 1 = v
    BY <1>2, <1>4
  <2>2. 2^((v - 1) + 1) = 2 * 2^(v - 1) /\ 2^(v - 1) \in Nat
    BY <2>1 DEF PowersUpTo
  <2> QED
    BY <2>1, <2>2
<1>8. 2^(i + v) = 2 * 2^(i + (v - 1))
  <2>1. i + (v - 1) \in 0..b /\ (i + (v - 1)) + 1 = i + v
    BY <1>2, <1>4
  <2>2. 2^((i + (v - 1)) + 1) = 2 * 2^(i + (v - 1))
    BY <2>1 DEF PowersUpTo
  <2> QED
    BY <2>1, <2>2
<1>9. 2^(i + v) = 2^i * 2^v
  <2>1. \A x, y \in Nat : 2 * (x * y) = x * (2 * y)
    OBVIOUS
  <2> QED
    BY <1>3, <1>6, <1>7, <1>8, <2>1
<1> QED
  BY <1>2, <1>9

LEMMA PowersGrow ==
  ASSUME NEW b \in Nat, PowersUpTo(b), NEW i \in 0..b + 1, NEW j \in 0..b + 1, i < j
  PROVE  2 * 2^i <= 2^j
<1>1. 2^(i + (j - i)) = 2^i * 2^(j - i)
  BY PowersAdd
<1>2. i + (j - i) = j
  OBVIOUS
<1>3. 2^(j - i) = 2 * 2^(j - i - 1) /\ 2^(j - i - 1) \in Nat \ {0}
  <2>1. j - i - 1 \in 0..b /\ (j - i - 1) + 1 = j - i
    OBVIOUS
  <2>2. 2^((j - i - 1) + 1) = 2 * 2^(j - i - 1) /\ 2^(j - i - 1) \in Nat \ {0}
    BY <2>1 DEF PowersUpTo
  <2> QED
    BY <2>1, <2>2
<1>4. 2^i \in Nat
  BY PowerIsNumber
<1>5. \A x, y \in Nat : y # 0 => x * (2 * y) >= 2 * x
  OBVIOUS
<1>6. 2^i * (2 * 2^(j - i - 1)) >= 2 * 2^i
  BY <1>3, <1>4, <1>5
<1> QED
  BY <1>1, <1>2, <1>3, <1>6

-----------------------------------------------------------------------------
(* The tree bins. *)

\* The exponents that occur
LEMMA TreePowers ==
  /\ TREEBIN_SHIFT \in Nat \ {0} /\ IntBits \in Nat \ {0} /\ NTREEBINS \in Nat \ {0}
  /\ \A k \in 0..TREEBIN_SHIFT + IntBits + 1 : 2^k \in Nat \ {0}
  /\ \A k \in 0..TREEBIN_SHIFT + NTREEBINS + 1 : 2^k \in Nat \ {0}
  /\ 2^0 = 1
<1>1. TREEBIN_SHIFT \in Nat \ {0} /\ IntBits \in Nat \ {0} /\ NTREEBINS \in Nat \ {0}
  BY BinsAssumption
<1>2. PowersUpTo(TREEBIN_SHIFT + IntBits) /\ PowersUpTo(TREEBIN_SHIFT + NTREEBINS)
  BY ArithmeticAssumption
<1>3. TREEBIN_SHIFT + IntBits \in Nat /\ TREEBIN_SHIFT + NTREEBINS \in Nat
  BY <1>1
<1>4. 2^0 = 1
  BY <1>2 DEF PowersUpTo
<1> QED
  BY <1>1, <1>2, <1>3, <1>4, PowerIsNumber

\* A number lies between two neighbouring powers.
LEMMA HighestPower ==
  ASSUME NEW b \in Nat, PowersUpTo(b), NEW x \in Nat \ {0}, x < 2^b
  PROVE  \E k \in 0..b - 1 : 2^k <= x /\ x < 2^(k + 1)
<1>1. 2^0 = 1 /\ \A k \in 0..b + 1 : 2^k \in Nat \ {0}
  BY PowerIsNumber DEF PowersUpTo
<1> DEFINE T == {k \in 0..b : x < 2^k}
<1>2. PICK v \in T : \A k \in T : v <= k
  <2>1. T \in SUBSET Nat /\ b \in T
    OBVIOUS
  <2> HIDE DEF T
  <2> QED
    BY <2>1, LeastNumber
<1>3. v \in 0..b /\ x < 2^v /\ v # 0
  <2>1. v \in 0..b /\ x < 2^v
    BY <1>2
  <2>2. ~(x < 2^0)
    BY <1>1
  <2> QED
    BY <2>1, <2>2
<1>4. v - 1 \in 0..b - 1 /\ ~(x < 2^(v - 1)) /\ (v - 1) + 1 = v
  <2>1. v - 1 \in 0..b /\ ~(v <= v - 1)
    BY <1>3
  <2> QED
    BY <1>2, <1>3, <2>1
<1>5. 2^(v - 1) <= x /\ x < 2^((v - 1) + 1)
  BY <1>1, <1>3, <1>4
<1> QED
  BY <1>4, <1>5

\* The highest bit of a number that an unsigned int holds
LEMMA HighestBitOf ==
  ASSUME NEW x \in Nat \ {0}, x < 2^IntBits
  PROVE  HighestBit(x) \in 0..IntBits - 1 /\ 2^HighestBit(x) <= x /\ x < 2^(HighestBit(x) + 1)
<1>1. /\ IntBits \in Nat /\ PowersUpTo(IntBits)
      /\ 2^0 = 1 /\ \A k \in 0..IntBits + 1 : 2^k \in Nat \ {0}
  <2>1. TREEBIN_SHIFT + IntBits \in Nat /\ IntBits \in Nat /\ IntBits <= TREEBIN_SHIFT + IntBits
    BY BinsAssumption
  <2>2. PowersUpTo(IntBits)
    BY <2>1, ArithmeticAssumption DEF PowersUpTo
  <2> QED
    BY <2>1, <2>2, TreePowers
<1> DEFINE IsHighest(k) == 2^k <= x /\ x < 2^(k + 1)
<1>2. PICK k \in 0..IntBits - 1 : IsHighest(k)
  BY <1>1, HighestPower
<1>3. HighestBit(x) \in 0..IntBits /\ IsHighest(HighestBit(x))
  <2>1. HighestBit(x) = CHOOSE j \in 0..IntBits : IsHighest(j)
    BY DEF HighestBit
  <2>2. k \in 0..IntBits
    BY <1>1
  <2> HIDE DEF IsHighest
  <2> QED
    BY <1>2, <2>1, <2>2
<1>4. HighestBit(x) # IntBits
  <2>1. SUFFICES ASSUME HighestBit(x) = IntBits PROVE FALSE
    OBVIOUS
  <2>2. 2^IntBits <= x
    BY <1>3, <2>1
  <2> QED
    BY <1>1, <2>2
<1> QED
  BY <1>1, <1>3, <1>4

\* 2^(k + 1) and the bits of a number whose highest one is k
LEMMA PowerDoubles ==
  ASSUME NEW b \in Nat, PowersUpTo(b), NEW k \in 0..b + 1, k # 0
  PROVE  2^k = 2 * 2^(k - 1) /\ 2^(k - 1) \in Nat \ {0}
<1>1. k - 1 \in 0..b /\ (k - 1) + 1 = k
  OBVIOUS
<1>2. 2^((k - 1) + 1) = 2 * 2^(k - 1) /\ 2^(k - 1) \in Nat \ {0}
  BY <1>1 DEF PowersUpTo
<1> QED
  BY <1>1, <1>2

LEMMA BelowHighest ==
  ASSUME NEW b \in Nat, PowersUpTo(b), NEW k \in 1..b, NEW s \in Nat, 2^k <= s, s < 2^(k + 1)
  PROVE  /\ BitOf(s, k - 1) \in 0..1
         /\ 2^k + BitOf(s, k - 1) * 2^(k - 1) <= s
         /\ s < 2^k + BitOf(s, k - 1) * 2^(k - 1) + 2^(k - 1)
<1> DEFINE d == 2^(k - 1)
           q == s \div d
<1>1. 2^k = 2 * d /\ d \in Nat \ {0}
  BY PowerDoubles
<1>2. 2^(k + 1) = 2 * 2^k
  BY DEF PowersUpTo
<1> HIDE DEF d
<1>3. q \in Nat /\ s = q * d + (s % d) /\ s % d \in 0..d - 1
  BY <1>1, Divided
<1> HIDE DEF q
<1>4. ~(q < 2)
  <2>1. SUFFICES ASSUME q < 2 PROVE FALSE
    OBVIOUS
  <2>2. q * d + d <= 2 * d
    BY <1>1, <1>3, <2>1, ProductsApart
  <2>3. q * d \in Nat
    BY <1>1, <1>3
  <2> QED
    BY <1>1, <1>3, <2>2, <2>3
<1>5. ~(3 < q)
  <2>1. SUFFICES ASSUME 3 < q PROVE FALSE
    OBVIOUS
  <2>2. 3 * d + d <= q * d
    BY <1>1, <1>3, <2>1, ProductsApart
  <2> QED
    BY <1>1, <1>2, <1>3, <2>2
<1>6. BitOf(s, k - 1) = q % 2
  BY DEF BitOf, q, d
<1>7. CASE q = 2
  BY <1>1, <1>3, <1>6, <1>7 DEF d
<1>8. CASE q = 3
  BY <1>1, <1>3, <1>6, <1>8 DEF d
<1> QED
  BY <1>3, <1>4, <1>5, <1>7, <1>8

\* The range of a bin ends where that of the next begins.
LEMMA MinsizeIs ==
  ASSUME NEW j \in Nat, NEW k \in Nat, NEW b \in 0..1, j = 2 * k + b,
         NEW p \in Nat, p = k + TREEBIN_SHIFT, NEW o \in Nat, o = k + TREEBIN_SHIFT - 1
  PROVE  minsize_for_tree_index(j) = 2^p + b * 2^o
<1>1. TREEBIN_SHIFT \in Nat
  BY BinsAssumption
<1>2. j \div 2 = k /\ j % 2 = b
  OBVIOUS
<1>3. minsize_for_tree_index(j)
        = 2^(j \div 2 + TREEBIN_SHIFT) + (j % 2) * 2^(j \div 2 + TREEBIN_SHIFT - 1)
  BY DEF minsize_for_tree_index
<1>4. j \div 2 + TREEBIN_SHIFT = p /\ j \div 2 + TREEBIN_SHIFT - 1 = o
  BY <1>1, <1>2
<1> QED
  BY <1>2, <1>3, <1>4, Zenon

LEMMA MinsizeOf ==
  ASSUME NEW k \in 0..NTREEBINS, NEW b \in 0..1, NEW i, i = 2 * k + b,
         NEW p \in Nat, p = k + TREEBIN_SHIFT, NEW o \in Nat, o = p - 1
  PROVE  /\ minsize_for_tree_index(i) = 2^p + b * 2^o
         /\ minsize_for_tree_index(i + 1) = minsize_for_tree_index(i) + 2^o
         /\ 2^p = 2 * 2^o /\ 2^o \in Nat \ {0}
<1>1. k \in Nat /\ i \in Nat /\ NTREEBINS \in Nat /\ TREEBIN_SHIFT \in Nat \ {0}
  BY BinsAssumption
<1>2. PowersUpTo(TREEBIN_SHIFT + NTREEBINS) /\ TREEBIN_SHIFT + NTREEBINS \in Nat
  BY <1>1, ArithmeticAssumption
<1>3. /\ p \in 0..TREEBIN_SHIFT + NTREEBINS /\ o \in 0..TREEBIN_SHIFT + NTREEBINS
      /\ p = o + 1 /\ p + 1 \in Nat /\ o = k + TREEBIN_SHIFT - 1
  BY <1>1
<1>4. 2^(o + 1) = 2 * 2^o /\ 2^o \in Nat \ {0} /\ 2^(p + 1) = 2 * 2^p
  BY <1>2, <1>3 DEF PowersUpTo
<1>5. 2^p = 2 * 2^o
  BY <1>3, <1>4, Zenon
<1>6. minsize_for_tree_index(i) = 2^p + b * 2^o
  BY <1>1, <1>3, MinsizeIs
<1>7. CASE b = 0
  <2>1. minsize_for_tree_index(i + 1) = 2^p + 1 * 2^o
    <3>1. i + 1 \in Nat /\ i + 1 = 2 * k + 1 /\ 1 \in 0..1
      BY <1>1, <1>7
    <3> QED
      BY <1>1, <1>3, <3>1, MinsizeIs
  <2> QED
    BY <1>4, <1>5, <1>6, <1>7, <2>1
<1>8. CASE b = 1
  <2>1. minsize_for_tree_index(i + 1) = 2^(p + 1) + 0 * 2^p
    <3>1. /\ i + 1 \in Nat /\ i + 1 = 2 * (k + 1) + 0 /\ 0 \in 0..1 /\ k + 1 \in Nat
          /\ p + 1 = (k + 1) + TREEBIN_SHIFT /\ p = (k + 1) + TREEBIN_SHIFT - 1
      BY <1>1, <1>8
    <3> QED
      BY <1>1, <1>3, <3>1, MinsizeIs
  <2> QED
    BY <1>4, <1>5, <1>6, <1>8, <2>1
<1> QED
  BY <1>4, <1>5, <1>6, <1>7, <1>8

LEMMA EvenBin ==
  ASSUME NEW k \in 0..NTREEBINS, NEW p \in Nat \ {0}, p = k + TREEBIN_SHIFT
  PROVE  minsize_for_tree_index(2 * k) = 2^p
<1>1. PICK o \in Nat, b \in 0..1, i \in Nat : o = p - 1 /\ b = 0 /\ i = 2 * k + b /\ i = 2 * k
  OBVIOUS
<1>2. minsize_for_tree_index(i) = 2^p + b * 2^o /\ 2^p = 2 * 2^o /\ 2^o \in Nat
  BY <1>1, MinsizeOf
<1> QED
  BY <1>1, <1>2

\* A large size as the macro sees it: its highest bit and the one below
LEMMA ShiftedSize ==
  ASSUME NEW s \in Nat, MIN_LARGE_SIZE <= s, s < 2^(TREEBIN_SHIFT + IntBits),
         NEW X, X = s \div 2^TREEBIN_SHIFT, NEW K, K = HighestBit(X)
  PROVE  /\ X \in Nat \ {0} /\ X < 2^IntBits
         /\ K \in 0..IntBits - 1 /\ 2^K <= X /\ X < 2^(K + 1)
         /\ 2^(K + TREEBIN_SHIFT) <= s /\ s < 2^(K + TREEBIN_SHIFT + 1)
         /\ \A h \in 0..NTREEBINS : 2^h <= X => 2^(h + TREEBIN_SHIFT) <= s
<1> DEFINE d == 2^TREEBIN_SHIFT
           t == TREEBIN_SHIFT
<1>1. /\ t \in Nat \ {0} /\ IntBits \in Nat \ {0} /\ NTREEBINS \in Nat \ {0}
      /\ PowersUpTo(t + IntBits) /\ PowersUpTo(t + NTREEBINS)
  BY BinsAssumption, ArithmeticAssumption
<1>2. d \in Nat \ {0} /\ 2^IntBits \in Nat
  BY <1>1, PowerIsNumber
<1>3. \A k \in 0..IntBits : 2^(k + t) = 2^k * d /\ 2^k \in Nat \ {0}
  <2> SUFFICES ASSUME NEW k \in 0..IntBits PROVE 2^(k + t) = 2^k * d /\ 2^k \in Nat \ {0}
    OBVIOUS
  <2>1. k + t <= t + IntBits + 1 /\ k \in Nat /\ k \in 0..t + IntBits + 1 /\ t + IntBits \in Nat
    BY <1>1
  <2> QED
    BY <1>1, <2>1, PowersAdd, PowerIsNumber
<1>4. X \in Nat /\ s % d \in 0..d - 1 /\ s = X * d + (s % d)
  BY <1>2, Divided
<1>5. X # 0
  <2>1. SUFFICES ASSUME X = 0 PROVE FALSE
    OBVIOUS
  <2>2. s < d
    BY <1>2, <1>4, <2>1
  <2> QED
    BY <1>2, <2>2 DEF MIN_LARGE_SIZE
<1> HIDE DEF d
<1>6. X < 2^IntBits
  <2>1. SUFFICES ASSUME 2^IntBits <= X PROVE FALSE
    BY <1>2, <1>4
  <2>2. 2^IntBits * d <= X * d
    <3>1. CASE 2^IntBits = X
      BY <1>2, <3>1
    <3>2. CASE 2^IntBits < X
      <4>1. 2^IntBits * d + d <= X * d
        BY <1>2, <1>4, <3>2, ProductsApart
      <4>2. 2^IntBits * d \in Nat /\ X * d \in Nat
        BY <1>2, <1>4
      <4> QED
        BY <1>2, <4>1, <4>2
    <3> QED
      BY <1>2, <1>4, <2>1, <3>1, <3>2
  <2>3. 2^(t + IntBits) = 2^IntBits * d
    <3>1. IntBits \in 0..IntBits /\ IntBits + t = t + IntBits
      BY <1>1
    <3>2. 2^(IntBits + t) = 2^IntBits * d
      BY <1>3, <3>1
    <3> QED
      BY <3>1, <3>2
  <2>4. X * d \in Nat /\ 2^IntBits * d \in Nat
    BY <1>2, <1>4
  <2> QED
    BY <1>2, <1>4, <2>2, <2>3, <2>4
<1>7. K \in 0..IntBits - 1 /\ 2^K <= X /\ X < 2^(K + 1)
  BY <1>4, <1>5, <1>6, HighestBitOf
<1>8. ASSUME NEW p \in Nat, p <= X
      PROVE  p * d <= s
  <2>1. CASE p = X
    <3>1. X * d \in Nat
      BY <1>2, <1>4
    <3> QED
      BY <1>2, <1>4, <2>1, <3>1
  <2>2. CASE p < X
    <3>1. p * d + d <= X * d
      BY <1>2, <1>4, <2>2, ProductsApart
    <3>2. p * d \in Nat /\ X * d \in Nat
      BY <1>2, <1>4
    <3> QED
      BY <1>2, <1>4, <3>1, <3>2
  <2> QED
    BY <1>4, <1>8, <2>1, <2>2
<1>9. 2^(K + t) <= s
  <2>1. 2^(K + t) = 2^K * d /\ 2^K \in Nat
    BY <1>1, <1>3, <1>7
  <2> QED
    BY <1>7, <1>8, <2>1
<1>10. s < 2^(K + t + 1)
  <2>1. K + 1 \in 0..IntBits /\ (K + 1) + t = K + t + 1
    BY <1>1, <1>7
  <2>2. 2^((K + 1) + t) = 2^(K + 1) * d /\ 2^(K + 1) \in Nat
    BY <1>3, <2>1
  <2>3. X * d + d <= 2^(K + 1) * d
    BY <1>2, <1>4, <1>7, <2>2, ProductsApart
  <2>4. X * d \in Nat /\ 2^(K + 1) * d \in Nat
    BY <1>2, <1>4, <2>2
  <2>5. s < 2^(K + 1) * d
    BY <1>2, <1>4, <2>3, <2>4
  <2> QED
    BY <2>1, <2>2, <2>5
<1>11. ASSUME NEW h \in 0..NTREEBINS, 2^h <= X
       PROVE  2^(h + t) <= s
  <2>1. h + t <= t + NTREEBINS + 1 /\ h \in Nat /\ h \in 0..t + NTREEBINS + 1 /\ t + NTREEBINS \in Nat
    BY <1>1
  <2>2. 2^(h + t) = 2^h * 2^t /\ 2^h \in Nat
    BY <1>1, <2>1, PowersAdd, PowerIsNumber
  <2>3. 2^h * d <= s
    BY <1>8, <1>11, <2>2
  <2> QED
    BY <2>2, <2>3 DEF d
<1> QED
  BY <1>4, <1>5, <1>6, <1>7, <1>9, <1>10, <1>11

\* compute_tree_index against minsize_for_tree_index, for the sizes that an unsigned
\* int holds after the shift
LEMMA IndexOfSize ==
  ASSUME NEW s \in Nat, MIN_LARGE_SIZE <= s, s < 2^(TREEBIN_SHIFT + IntBits),
         NEW i, i = TreeIndex(s)
  PROVE  /\ i \in 0..NTREEBINS - 1 /\ minsize_for_tree_index(i) <= s
         /\ i # NTREEBINS - 1 => s < minsize_for_tree_index(i + 1)
<1> DEFINE X == s \div 2^TREEBIN_SHIFT
           K == HighestBit(X)
           h == NTREEBINS \div 2
           t == TREEBIN_SHIFT
           bit == BitOf(s, K + t - 1)
<1>1. /\ t \in Nat \ {0} /\ IntBits \in Nat \ {0} /\ NTREEBINS \in Nat \ {0}
      /\ PowersUpTo(t + IntBits) /\ PowersUpTo(t + NTREEBINS)
  BY BinsAssumption, ArithmeticAssumption
<1>2. h \in Nat /\ (NTREEBINS = 2 * h \/ NTREEBINS = 2 * h + 1) /\ h \in 0..NTREEBINS
  BY <1>1
<1>3. 2^h \in Nat \ {0} /\ 2^IntBits \in Nat
  BY <1>1, <1>2, PowerIsNumber
<1>4. /\ X \in Nat \ {0} /\ X < 2^IntBits
      /\ K \in 0..IntBits - 1 /\ 2^K <= X /\ X < 2^(K + 1)
      /\ 2^(K + t) <= s /\ s < 2^(K + t + 1)
      /\ \A g \in 0..NTREEBINS : 2^g <= X => 2^(g + t) <= s
  BY ShiftedSize
<1>5. X % 2^IntBits = X
  BY <1>3, <1>4
<1>6. i = IF X > 2^h - 1 THEN NTREEBINS - 1 ELSE 2 * K + bit
  <2>1. i = LET Y == X % 2^IntBits
                L == HighestBit(Y)
            IN  IF Y = 0 THEN 0 ELSE IF Y > 2^h - 1 THEN NTREEBINS - 1
                ELSE 2 * L + BitOf(s, L + t - 1)
    BY DEF TreeIndex
  <2> HIDE DEF X, h
  <2> QED
    BY <1>4, <1>5, <2>1
<1> HIDE DEF X, K, h
<1>7. CASE X > 2^h - 1
  <2>1. 2^h <= X
    BY <1>3, <1>4, <1>7
  <2>2. 2^(h + t) <= s
    BY <1>2, <1>4, <2>1
  <2>3. i = NTREEBINS - 1 /\ i \in 0..NTREEBINS - 1
    BY <1>1, <1>6, <1>7
  <2>9. PICK p \in Nat \ {0} : p = h + t
    BY <1>1, <1>2
  <2>4. PICK o \in Nat : p = h + t /\ o = p - 1
    BY <2>9
  <2>5. 2^p <= s
    BY <2>2, <2>4, Zenon
  <2>6. CASE NTREEBINS = 2 * h + 1
    <3>1. i = 2 * h
      BY <1>2, <2>3, <2>6
    <3>2. minsize_for_tree_index(i) = 2^p
      BY <1>2, <2>4, <3>1, EvenBin
    <3> QED
      BY <2>3, <2>5, <3>2
  <2>7. CASE NTREEBINS = 2 * h
    <3>1. h - 1 \in 0..NTREEBINS /\ i = 2 * (h - 1) + 1 /\ 1 \in 0..1
      BY <1>1, <1>2, <2>3, <2>7
    <3>2. PICK q \in Nat : q = o - 1
      BY <1>1, <1>2, <2>4, <3>1
    <3>3. o = (h - 1) + t
      BY <1>1, <1>2, <2>4
    <3>4. minsize_for_tree_index(i) = 2^o + 1 * 2^q /\ 2^o = 2 * 2^q /\ 2^q \in Nat
      BY <2>4, <3>1, <3>2, <3>3, MinsizeOf
    <3>5. 2^p = 2 * 2^o
      BY <1>2, <2>4, MinsizeOf
    <3> QED
      BY <2>3, <2>5, <3>4, <3>5
  <2> QED
    BY <1>2, <2>6, <2>7
<1>8. CASE ~(X > 2^h - 1)
  <2>1. K < h
    <3>1. SUFFICES ASSUME h <= K PROVE FALSE
      BY <1>2, <1>4
    <3>2. 2^h <= 2^K
      <4>1. CASE h = K
        BY <1>3, <4>1
      <4>2. CASE h < K
        <5>1. K \in 0..t + IntBits + 1 /\ h \in 0..t + IntBits + 1 /\ t + IntBits \in Nat
          BY <1>1, <1>2, <1>4, <4>2
        <5>2. 2 * 2^h <= 2^K
          BY <1>1, <4>2, <5>1, PowersGrow
        <5>3. 2^K \in Nat
          BY <1>1, <5>1, PowerIsNumber
        <5> QED
          BY <1>3, <5>2, <5>3
      <4> QED
        BY <1>2, <1>4, <3>1, <4>1, <4>2
    <3>3. 2^K \in Nat
      BY <1>1, <1>4, PowerIsNumber
    <3> QED
      BY <1>3, <1>4, <1>8, <3>2, <3>3
  <2>2. K + t \in 1..t + IntBits /\ K \in 0..NTREEBINS
    BY <1>1, <1>2, <1>4, <2>1
  <2>3. /\ bit \in 0..1 /\ 2^(K + t) + bit * 2^(K + t - 1) <= s
        /\ s < 2^(K + t) + bit * 2^(K + t - 1) + 2^(K + t - 1)
    BY <1>1, <1>4, <2>2, BelowHighest
  <2> HIDE DEF bit
  <2>4. i = 2 * K + bit
    BY <1>6, <1>8
  <2>10. PICK p \in Nat \ {0} : p = K + t
    BY <1>1, <2>2
  <2>5. PICK o \in Nat : p = K + t /\ o = p - 1
    BY <2>10
  <2>7. K + t - 1 = o
    BY <1>1, <2>2, <2>5
  <2>8. 2^p + bit * 2^o <= s /\ s < 2^p + bit * 2^o + 2^o
    BY <2>3, <2>5, <2>7, Zenon
  <2>9. /\ minsize_for_tree_index(i) = 2^p + bit * 2^o
        /\ minsize_for_tree_index(i + 1) = minsize_for_tree_index(i) + 2^o
    BY <2>2, <2>3, <2>4, <2>5, MinsizeOf
  <2>6. i \in 0..NTREEBINS - 1
    BY <1>1, <1>2, <1>4, <2>1, <2>3, <2>4
  <2> QED
    BY <2>6, <2>8, <2>9
<1> QED
  BY <1>7, <1>8

\* The bits that are common to a bin
LEMMA BinOfBits ==
  ASSUME NEW i \in 0..NTREEBINS - 1, i # NTREEBINS - 1, NEW e, e = TopBit(i) + 1
  PROVE  /\ 2^e \in Nat \ {0}
         /\ minsize_for_tree_index(i) = (2 + (i % 2)) * 2^e
         /\ minsize_for_tree_index(i + 1) = minsize_for_tree_index(i) + 2^e
<1>1. TREEBIN_SHIFT \in Nat \ {0} /\ NTREEBINS \in Nat \ {0}
  BY BinsAssumption
<1>2. PICK k \in 0..NTREEBINS, b \in 0..1 : k = i \div 2 /\ b = i % 2 /\ i = 2 * k + b
  <2>1. i \div 2 \in 0..NTREEBINS /\ i % 2 \in 0..1 /\ i = 2 * (i \div 2) + (i % 2)
    BY <1>1
  <2> QED
    BY <2>1
<1>3. PICK p \in Nat : p = k + TREEBIN_SHIFT
  BY <1>1
<1>4. e = p - 1 /\ e \in Nat
  BY <1>1, <1>2, <1>3 DEF TopBit
<1>8. i = 2 * k + b
  BY <1>2
<1>5. /\ minsize_for_tree_index(i) = 2^p + b * 2^e /\ 2^p = 2 * 2^e /\ 2^e \in Nat \ {0}
      /\ minsize_for_tree_index(i + 1) = minsize_for_tree_index(i) + 2^e
  <2> DEFINE Bounds(y) == /\ minsize_for_tree_index(i) = 2^p + b * 2^y /\ 2^p = 2 * 2^y /\ 2^y \in Nat \ {0}
                         /\ minsize_for_tree_index(i + 1) = minsize_for_tree_index(i) + 2^y
  <2>1. \A y \in Nat : y = p - 1 => Bounds(y)
    <3> SUFFICES ASSUME NEW y \in Nat, y = p - 1 PROVE Bounds(y)
      OBVIOUS
    <3> QED
      BY <1>3, <1>8, MinsizeOf
  <2> QED
    BY <1>4, <2>1
<1> DEFINE d == 2^e
<1> HIDE DEF d
<1>6. d \in Nat \ {0} => 2 * d + b * d = (2 + b) * d
  OBVIOUS
<1>7. minsize_for_tree_index(i) = (2 + b) * 2^e
  BY <1>5, <1>6 DEF d
<1> QED
  BY <1>2, <1>5, <1>7

\* All sizes of a bin but the last agree above the bit of its root.
LEMMA BinsShareBits ==
  ASSUME NEW s \in Nat, MIN_LARGE_SIZE <= s, s < 2^(TREEBIN_SHIFT + IntBits),
         NEW i, i = TreeIndex(s), i # NTREEBINS - 1
  PROVE  /\ s \div 2^(TopBit(i) + 1) = 2 + (i % 2)
         /\ minsize_for_tree_index(i) \div 2^(TopBit(i) + 1) = 2 + (i % 2)
         /\ 2^(TopBit(i) + 1) = minsize_for_tree_index(i + 1) - minsize_for_tree_index(i)
<1> DEFINE d == 2^(TopBit(i) + 1)
           q == 2 + (i % 2)
<1>1. /\ i \in 0..NTREEBINS - 1 /\ minsize_for_tree_index(i) <= s
      /\ s < minsize_for_tree_index(i + 1)
  BY IndexOfSize
<1>2. q \in Int /\ q \in Nat
  BY <1>1
<1> HIDE DEF q
<1>3. /\ d \in Nat \ {0} /\ minsize_for_tree_index(i) = q * d
      /\ minsize_for_tree_index(i + 1) = minsize_for_tree_index(i) + d
  BY <1>1, BinOfBits DEF q
<1> HIDE DEF d
<1>4. q * d \in Nat
  BY <1>2, <1>3
<1>5. s - q * d \in 0..d - 1 /\ s = q * d + (s - q * d)
  BY <1>1, <1>3, <1>4
<1>6. s \div d = q
  <2> DEFINE r == s - q * d
  <2>1. r \in 0..d - 1 /\ s = q * d + r
    BY <1>5
  <2> HIDE DEF r
  <2>2. (q * d + r) \div d = q
    BY <1>2, <1>3, <2>1, QuotientIs, Zenon
  <2> QED
    BY <2>1, <2>2, Zenon
<1>7. (q * d) \div d = q
  <2>1. 0 \in 0..d - 1 /\ q * d + 0 = q * d
    BY <1>3, <1>4
  <2>2. (q * d + 0) \div d = q
    BY <1>2, <1>3, <2>1, QuotientIs
  <2> QED
    BY <2>1, <2>2
<1> QED
  BY <1>3, <1>4, <1>6, <1>7 DEF d, q

-----------------------------------------------------------------------------
(* The small bins. *)

\* What is a multiple of MALLOC_ALIGNMENT is one of the step between two small bins.
LEMMA AlignedIsStepped ==
  ASSUME NEW a \in Nat, a % MALLOC_ALIGNMENT = 0, NEW d \in Nat \ {0}, MALLOC_ALIGNMENT % d = 0
  PROVE  (a \div d) * d = a
<1> DEFINE p == a \div 8
           q == 8 \div d
<1>1. p \in Nat /\ a = p * 8 + (a % 8)
  BY Divided
<1>2. q \in Nat /\ 8 = q * d + (8 % d)
  BY Divided
<1>3. a % 8 = 0 /\ 8 % d = 0
  BY DEF MALLOC_ALIGNMENT, SIZE_T_SIZE
<1> HIDE DEF p, q
<1>4. a = p * 8 /\ 8 = q * d /\ q * d \in Nat
  BY <1>1, <1>2, <1>3
<1>5. a = (p * q) * d /\ p * q \in Nat
  <2>1. p * (q * d) = (p * q) * d /\ p * q \in Nat
    BY <1>1, <1>2
  <2> QED
    BY <1>4, <2>1
<1> DEFINE c == p * q
<1>6. c \in Int /\ 0 \in 0..d - 1 /\ c * d + 0 = a
  BY <1>5
<1> HIDE DEF c
<1>7. (c * d + 0) \div d = c
  BY <1>6, QuotientIs
<1>8. a \div d = c /\ c * d = a
  BY <1>6, <1>7
<1> QED
  BY <1>8

\* is_small compares with MIN_LARGE_SIZE.
LEMMA SmallIsBelow ==
  ASSUME NEW s \in Nat
  PROVE  is_small(s) <=> s < MIN_LARGE_SIZE
<1> DEFINE d == 2^SMALLBIN_SHIFT
           q == s \div d
<1>1. d \in Nat \ {0} /\ NSMALLBINS \in Nat \ {0} /\ MIN_LARGE_SIZE = NSMALLBINS * d
  BY BinsAssumption DEF MIN_LARGE_SIZE
<1>2. is_small(s) <=> q < NSMALLBINS
  BY DEF is_small
<1> HIDE DEF d
<1>3. q \in Nat /\ s % d \in 0..d - 1 /\ s = q * d + (s % d)
  BY <1>1, Divided
<1> HIDE DEF q
<1>4. CASE q < NSMALLBINS
  <2>1. q * d + d <= NSMALLBINS * d
    BY <1>1, <1>3, <1>4, ProductsApart
  <2>2. q * d \in Nat /\ NSMALLBINS * d \in Nat
    BY <1>1, <1>3
  <2> QED
    BY <1>1, <1>2, <1>3, <1>4, <2>1, <2>2
<1>5. CASE NSMALLBINS <= q
  <2>1. NSMALLBINS * d <= q * d
    <3>1. CASE q = NSMALLBINS
      BY <1>1, <1>3, <3>1
    <3>2. CASE NSMALLBINS < q
      <4>1. NSMALLBINS * d + d <= q * d
        BY <1>1, <1>3, <3>2, ProductsApart
      <4>2. q * d \in Nat /\ NSMALLBINS * d \in Nat
        BY <1>1, <1>3
      <4> QED
        BY <1>1, <4>1, <4>2
    <3> QED
      BY <1>1, <1>3, <1>5, <3>1, <3>2
  <2>2. q * d \in Nat /\ NSMALLBINS * d \in Nat
    BY <1>1, <1>3
  <2>3. ~(q < NSMALLBINS)
    BY <1>1, <1>3, <1>5
  <2> QED
    BY <1>1, <1>2, <1>3, <2>1, <2>2, <2>3
<1> QED
  BY <1>1, <1>3, <1>4, <1>5

\* The chunk of a request is tighter than request2size's bound as a whole: it exceeds
\* the request by its header and less than the alignment, unless it is minimal.
LEMMA ChunkIsTight ==
  ASSUME NEW bytes \in Nat, bytes < MAX_REQUEST
  PROVE  request2size(bytes) = MIN_CHUNK_SIZE \/ request2size(bytes) < bytes + 24
<1>1. SizeT \in Nat /\ bytes + 23 < SizeT
  BY SizeTFacts
<1>2. pad_request(bytes) < bytes + 24
  BY <1>1, RoundUpExact DEF pad_request, CHUNK_OVERHEAD, MALLOC_ALIGNMENT, SIZE_T_SIZE
<1> QED
  BY <1>2 DEF request2size

LEMMA SmallOrLargeHolds == topic = "sizes" /\ n \in 0..MAX_SIZE_T => SmallOrLarge
<1> SUFFICES ASSUME n \in 0..MAX_SIZE_T, n < MAX_REQUEST
             PROVE  /\ n <= MAX_SMALL_REQUEST <=> is_small(Chunk)
                    /\ is_small(Chunk) => small_index2size(small_index(Chunk)) = Chunk
  BY DEF SmallOrLarge
<1> DEFINE M == MIN_LARGE_SIZE
           c == Chunk
<1>1. n \in Nat
  BY SizeTFacts
<1>2. /\ c \in Nat /\ c % 8 = 0 /\ 32 <= c /\ n + 16 <= c
      /\ c = 32 \/ c < n + 24
  BY <1>1, ChunkOfRequest, ChunkIsTight
     DEF Chunk, MALLOC_ALIGNMENT, CHUNK_OVERHEAD, MIN_CHUNK_SIZE, SIZE_T_SIZE
<1>3. M \in Nat /\ M > 32 /\ M % 8 = 0
  BY BinsAssumption, ArithmeticAssumption
     DEF MIN_LARGE_SIZE, MIN_CHUNK_SIZE, MALLOC_ALIGNMENT, SIZE_T_SIZE
<1>4. is_small(c) <=> c < M
  BY <1>2, SmallIsBelow
<1>5. MAX_SMALL_REQUEST = M - 24
  BY <1>3 DEF MAX_SMALL_REQUEST, MALLOC_ALIGNMENT, CHUNK_OVERHEAD, SIZE_T_SIZE
<1>6. c = 8 * (c \div 8) /\ M = 8 * (M \div 8) /\ c \div 8 \in Int /\ M \div 8 \in Int
  BY <1>2, <1>3
<1>7. n <= MAX_SMALL_REQUEST <=> is_small(c)
  <2> HIDE DEF M, c
  <2> QED
    BY <1>1, <1>2, <1>3, <1>4, <1>5, <1>6
<1>8. small_index2size(small_index(c)) = c
  <2> HIDE DEF c
  <2>1. 2^SMALLBIN_SHIFT \in Nat \ {0} /\ MALLOC_ALIGNMENT % 2^SMALLBIN_SHIFT = 0
    BY BinsAssumption, ArithmeticAssumption
  <2>2. c % MALLOC_ALIGNMENT = 0
    BY <1>2 DEF MALLOC_ALIGNMENT, SIZE_T_SIZE
  <2> QED
    BY <1>2, <2>1, <2>2, AlignedIsStepped DEF small_index2size, small_index
<1> QED
  BY <1>7, <1>8

-----------------------------------------------------------------------------
(* Words and their bits. *)

LEMMA WidthPowers ==
  /\ Width \in Nat \ {0} /\ PowersUpTo(Width) /\ Word = 2^Width /\ Word \in Nat \ {0}
  /\ 2^0 = 1 /\ \A k \in 0..Width : 2^k \in Nat \ {0} /\ 2^(k + 1) = 2 * 2^k
<1>1. Width \in Nat \ {0} /\ PowersUpTo(Width)
  BY BinmapAssumption, ArithmeticAssumption
<1> QED
  BY <1>1 DEF Word, PowersUpTo

\* A power is an even multiple of every lower one.
LEMMA EvenMultiple ==
  ASSUME NEW i \in 0..Width, NEW j \in 0..Width, i < j
  PROVE  \E c \in Nat \ {0} : 2^j = (2 * c) * 2^i
<1>1. Width \in Nat /\ PowersUpTo(Width)
  BY WidthPowers
<1>2. PICK f \in Nat : i + (f + 1) = j
  <2>1. j - i - 1 \in Nat /\ i + ((j - i - 1) + 1) = j
    BY <1>1
  <2> QED
    BY <2>1
<1>3. f + 1 \in Nat /\ i \in Nat /\ i + (f + 1) <= Width + 1 /\ f \in 0..Width
  BY <1>1, <1>2
<1>4. 2^(i + (f + 1)) = 2^i * 2^(f + 1)
  BY <1>1, <1>3, PowersAdd
<1>5. 2^(f + 1) = 2 * 2^f /\ 2^f \in Nat \ {0} /\ 2^i \in Nat
  BY <1>3, WidthPowers
<1>6. 2^j = 2^i * 2^(f + 1)
  BY <1>2, <1>4, Zenon
<1> DEFINE c == 2^f
           a == 2^i
<1>7. a * (2 * c) = (2 * c) * a
  BY <1>5
<1> QED
  BY <1>5, <1>6, <1>7

LEMMA BitIs ==
  ASSUME NEW i \in 0..Width, NEW q \in Int, NEW r \in 0..2^i - 1, NEW x, x = q * 2^i + r
  PROVE  IsMarked(x, i) <=> q % 2 = 1
<1> DEFINE d == 2^i
<1>1. d \in Nat \ {0} /\ r \in 0..d - 1 /\ x = q * d + r
  BY WidthPowers
<1>2. IsMarked(x, i) <=> (x \div d) % 2 = 1
  BY DEF IsMarked
<1> HIDE DEF d
<1>3. (q * d + r) \div d = q
  BY <1>1, QuotientIs
<1> QED
  BY <1>1, <1>2, <1>3

\* A multiple of 2^l has no bits below l.
LEMMA NoBitsBelow ==
  ASSUME NEW l \in 0..Width, NEW c \in Int, NEW x, x = c * 2^l, NEW j \in 0..l - 1
  PROVE  ~IsMarked(x, j)
<1>1. j \in 0..Width /\ j < l /\ Width \in Nat
  BY WidthPowers
<1>2. PICK e \in Nat \ {0} : 2^l = (2 * e) * 2^j
  BY <1>1, EvenMultiple
<1>3. 2^j \in Nat \ {0} /\ 2^l \in Nat
  BY <1>1, WidthPowers
<1> DEFINE d == 2^j
           q == c * (2 * e)
<1>4. d \in Nat \ {0} /\ x = c * ((2 * e) * d)
  BY <1>2, <1>3
<1> HIDE DEF d
<1>5. x = q * d + 0 /\ q \in Int /\ q = 2 * (c * e) /\ c * e \in Int /\ 0 \in 0..d - 1
  BY <1>4
<1>6. q % 2 = 0
  <2> HIDE DEF q
  <2> DEFINE v == c * e
  <2>1. v \in Int /\ q = 2 * v
    BY <1>5
  <2> HIDE DEF v
  <2> QED
    BY <2>1
<1> HIDE DEF q
<1>7. IsMarked(x, j) <=> q % 2 = 1
  BY <1>1, <1>5, BitIs DEF d
<1> QED
  BY <1>6, <1>7

\* And what has no bits below l is a multiple of 2^l.
LEMMA MultipleOf ==
  ASSUME NEW x \in Nat, NEW l \in 0..Width, \A j \in 0..l - 1 : ~IsMarked(x, j)
  PROVE  x % 2^l = 0 /\ x = (x \div 2^l) * 2^l /\ x \div 2^l \in Nat
<1>1. Width \in Nat /\ 2^0 = 1 /\ \A k \in 0..Width : 2^k \in Nat \ {0} /\ 2^(k + 1) = 2 * 2^k
  BY WidthPowers
<1> DEFINE T == {v \in 0..l : x % 2^v # 0}
<1>2. ASSUME T # {} PROVE FALSE
  <2>1. PICK v \in T : \A k \in T : v <= k
    <3>1. T \in SUBSET Nat
      BY <1>1
    <3> HIDE DEF T
    <3> QED
      BY <1>2, <3>1, LeastNumber
  <2>2. v \in 0..l /\ x % 2^v # 0
    BY <2>1
  <2>3. v # 0
    <3>1. x % 1 = 0
      OBVIOUS
    <3>2. x % 2^0 = 0
      BY <1>1, <3>1, Zenon
    <3> QED
      BY <2>2, <3>2
  <2>4. PICK k \in 0..l - 1 : v = k + 1 /\ k \notin T
    <3>1. v - 1 \in 0..l - 1 /\ v = (v - 1) + 1 /\ ~(v <= v - 1)
      BY <1>1, <2>2, <2>3
    <3>2. v - 1 \notin T
      BY <2>1, <3>1
    <3> QED
      BY <3>1, <3>2
  <2>5. k \in 0..Width /\ k \in 0..l /\ k \in Nat
    BY <1>1
  <2>6. x % 2^k = 0 /\ ~IsMarked(x, k) /\ 2^k \in Nat \ {0}
    BY <1>1, <2>4, <2>5
  <2>7. 2^v = 2 * 2^k
    <3>1. 2^(k + 1) = 2 * 2^k
      BY <1>1, <2>5
    <3> QED
      BY <2>4, <3>1, Zenon
  <2> DEFINE d == 2^k
             q == x \div d
  <2>8. (q % 2 = 1) <=> IsMarked(x, k)
    BY DEF IsMarked
  <2>9. d \in Nat \ {0} /\ x % d = 0 /\ 2^v = 2 * d
    BY <2>6, <2>7
  <2> HIDE DEF d
  <2>10. q \in Nat /\ x = q * d + (x % d)
    BY <2>9, Divided
  <2> HIDE DEF q
  <2>11. PICK h \in Nat : q = 2 * h
    <3>1. q % 2 # 1 /\ q % 2 \in 0..1 /\ q = 2 * (q \div 2) + (q % 2) /\ q \div 2 \in Nat
      BY <2>6, <2>8, <2>10
    <3>2. q = 2 * (q \div 2)
      BY <3>1
    <3> QED
      BY <3>1, <3>2
  <2>12. x = h * (2 * d) + 0
    BY <2>9, <2>10, <2>11
  <2> DEFINE dd == 2 * d
  <2>13. dd \in Nat \ {0} /\ 0 \in 0..dd - 1 /\ h \in Int /\ x = h * dd + 0 /\ 2^v = dd
    BY <2>9, <2>12
  <2> HIDE DEF dd
  <2>14. (h * dd + 0) % dd = 0
    BY <2>13, QuotientIs
  <2>15. x % 2^v = 0
    BY <2>13, <2>14
  <2> QED
    BY <2>2, <2>15
<1>3. x % 2^l = 0
  <2>1. l \in 0..l
    BY <1>1
  <2> QED
    BY <1>2, <2>1
<1> DEFINE d == 2^l
<1>4. d \in Nat \ {0} /\ x % d = 0
  BY <1>1, <1>3
<1> HIDE DEF d
<1>5. x \div d \in Nat /\ x = (x \div d) * d + (x % d)
  BY <1>4, Divided
<1> DEFINE q == x \div d
<1>6. q \in Nat /\ x = q * d
  <2>1. q * d \in Nat
    BY <1>4, <1>5
  <2> QED
    BY <1>4, <1>5, <2>1
<1> QED
  BY <1>3, <1>6 DEF d

LEMMA SomeBit ==
  ASSUME NEW x \in 1..Word - 1
  PROVE  Marked(x) # {}
<1>1. /\ Width \in Nat \ {0} /\ PowersUpTo(Width) /\ Word = 2^Width
      /\ \A k \in 0..Width : 2^k \in Nat \ {0} /\ 2^(k + 1) = 2 * 2^k
  BY WidthPowers
<1>2. PICK k \in 0..Width - 1 : 2^k <= x /\ x < 2^(k + 1)
  <2>1. x \in Nat \ {0} /\ x < 2^Width
    BY <1>1
  <2> QED
    BY <1>1, <2>1, HighestPower
<1>3. k \in 0..Width /\ 2^k \in Nat \ {0} /\ x < 2 * 2^k
  BY <1>1, <1>2
<1> DEFINE d == 2^k
           r == x - d
<1>4. x = 1 * d + r /\ r \in 0..d - 1 /\ 1 \in Int
  BY <1>1, <1>2, <1>3
<1> HIDE DEF r
<1>5. IsMarked(x, k) <=> 1 % 2 = 1
  BY <1>3, <1>4, BitIs, Zenon
<1>6. IsMarked(x, k)
  BY <1>5
<1> QED
  BY <1>2, <1>6 DEF Marked

\* A number below 2^i has no bit i.
LEMMA NoHighBit ==
  ASSUME NEW i \in 0..Width, NEW x \in Nat, x < 2^i
  PROVE  ~IsMarked(x, i)
<1>1. 2^i \in Nat \ {0}
  BY WidthPowers
<1>2. x \in 0..2^i - 1 /\ x = 0 * 2^i + x /\ 0 \in Int /\ 0 % 2 # 1
  BY <1>1
<1> QED
  BY <1>2, BitIs

\* Every set of bits is that of a word: the least width w for which one is missing
\* would be one more than a width for which none is.
LEMMA EveryWord ==
  ASSUME NEW S \in SUBSET (0..Width - 1)
  PROVE  \E x \in 0..Word - 1 : Marked(x) = S
<1>1. /\ Width \in Nat \ {0} /\ Word = 2^Width /\ 2^0 = 1
      /\ \A k \in 0..Width : 2^k \in Nat \ {0} /\ 2^(k + 1) = 2 * 2^k
  BY WidthPowers
<1> DEFINE Fits(w, A) == \E x \in 0..2^w - 1 : \A i \in 0..Width - 1 : IsMarked(x, i) <=> i \in A
           T == {w \in 0..Width : \E A \in SUBSET (0..w - 1) : ~Fits(w, A)}
<1>2. ASSUME T # {} PROVE FALSE
  <2>1. PICK w \in T : \A v \in T : w <= v
    <3>1. T \in SUBSET Nat
      BY <1>1
    <3> HIDE DEF T
    <3> QED
      BY <1>2, <3>1, LeastNumber
  <2>2. w \in 0..Width
    BY <2>1
  <2>3. PICK A \in SUBSET (0..w - 1) : ~Fits(w, A)
    BY <2>1
  <2>4. w # 0
    <3>1. SUFFICES ASSUME w = 0 PROVE FALSE
      OBVIOUS
    <3>2. 0 \in 0..2^0 - 1 /\ A = {}
      BY <1>1, <2>3, <3>1
    <3>3. ASSUME NEW i \in 0..Width - 1 PROVE ~IsMarked(0, i)
      <4>1. i \in 0..Width /\ 0 \in Nat /\ 0 < 2^i
        BY <1>1
      <4> QED
        BY <4>1, NoHighBit
    <3>4. Fits(0, A)
      BY <3>2, <3>3
    <3> QED
      BY <2>3, <3>1, <3>4
  <2>5. PICK k \in 0..Width - 1 : w = k + 1 /\ k \notin T
    <3>1. w - 1 \in 0..Width - 1 /\ w = (w - 1) + 1 /\ ~(w <= w - 1)
      BY <1>1, <2>2, <2>4
    <3>2. w - 1 \notin T
      BY <2>1, <3>1
    <3> QED
      BY <3>1, <3>2
  <2>6. k \in 0..Width /\ k \in Nat /\ 2^k \in Nat \ {0} /\ 2^w = 2 * 2^k
    <3>1. k \in 0..Width /\ k \in Nat
      BY <1>1, <2>5
    <3>2. 2^(k + 1) = 2 * 2^k /\ 2^k \in Nat \ {0}
      BY <1>1, <3>1
    <3>3. 2^w = 2 * 2^k
      BY <2>5, <3>2, Zenon
    <3> QED
      BY <3>1, <3>2, <3>3
  <2> DEFINE d == 2^k
             L == A \ {k}
  <2>7. L \in SUBSET (0..k - 1)
    BY <2>3, <2>5, <2>6
  <2>8. Fits(k, L)
    BY <2>5, <2>6, <2>7
  <2>9. PICK y \in 0..d - 1 : \A i \in 0..Width - 1 : IsMarked(y, i) <=> i \in L
    BY <2>8
  <2>10. CASE k \notin A
    <3>1. L = A /\ y \in 0..2^w - 1
      BY <2>6, <2>10
    <3> QED
      BY <2>3, <2>9, <3>1
  <2>11. CASE k \in A
    <3> DEFINE x == 1 * d + y
    <3>1. x \in 0..2^w - 1 /\ x \in Nat /\ x < 2 * d
      BY <2>6
    <3>2. ASSUME NEW i \in 0..Width - 1 PROVE IsMarked(x, i) <=> i \in A
      <4>1. i \in 0..Width /\ 2^i \in Nat \ {0} /\ 2^(i + 1) = 2 * 2^i
        BY <1>1
      <4>2. CASE i = k
        <5>1. IsMarked(x, k) <=> 1 % 2 = 1
          <6> HIDE DEF x
          <6>1. x = 1 * 2^k + y /\ y \in 0..2^k - 1 /\ 1 \in Int
            BY DEF x
          <6> QED
            BY <2>6, <6>1, BitIs
        <5> QED
          BY <2>11, <4>2, <5>1
      <4>3. CASE k < i
        <5>1. 2 * d <= 2^i
          <6>1. i \in 0..Width + 1 /\ k \in 0..Width + 1
            BY <1>1, <2>6, <4>1
          <6> QED
            BY <1>1, <4>3, <6>1, WidthPowers, PowersGrow
        <5>2. x < 2^i
          BY <2>6, <3>1, <4>1, <5>1
        <5>3. ~IsMarked(x, i)
          <6> HIDE DEF x
          <6> QED
            BY <3>1, <4>1, <5>2, NoHighBit
        <5>4. i \notin A
          BY <2>3, <2>5, <2>6, <4>3
        <5> QED
          BY <5>3, <5>4
      <4>4. CASE i < k
        <5>1. PICK c \in Nat \ {0} : 2^k = (2 * c) * 2^i
          BY <2>6, <4>1, <4>4, EvenMultiple
        <5> DEFINE p == 2^i
                   q == y \div p
                   r == y % p
        <5>2. p \in Nat \ {0} /\ y \in Nat
          BY <2>6, <4>1
        <5>3. q \in Nat /\ r \in 0..p - 1 /\ y = q * p + r
          <6> HIDE DEF p
          <6> QED
            BY <5>2, Divided
        <5>4. (q % 2 = 1) <=> i \in L
          BY <2>9 DEF IsMarked
        <5> HIDE DEF q, r
        <5>5. x = (2 * c) * p + (q * p + r)
          BY <5>1, <5>3
        <5> DEFINE t == 2 * c + q
        <5>6. t \in Int /\ x = t * p + r /\ (t % 2 = 1 <=> q % 2 = 1)
          <6> HIDE DEF x, p
          <6> QED
            BY <5>2, <5>3, <5>5
        <5> HIDE DEF x, t
        <5>7. IsMarked(x, i) <=> t % 2 = 1
          BY <4>1, <5>3, <5>6, BitIs
        <5> QED
          BY <4>4, <5>4, <5>6, <5>7, <2>6, <4>1
      <4> QED
        BY <1>1, <2>6, <4>1, <4>2, <4>3, <4>4
    <3> HIDE DEF x
    <3>3. Fits(w, A)
      BY <3>1, <3>2
    <3> QED
      BY <2>3, <3>3
  <2> QED
    BY <2>10, <2>11
<1>3. Fits(Width, S)
  <2>1. Width \in 0..Width
    BY <1>1
  <2> QED
    BY <1>2, <2>1
<1>4. PICK x \in 0..2^Width - 1 : \A i \in 0..Width - 1 : IsMarked(x, i) <=> i \in S
  BY <1>3
<1>5. Marked(x) = S
  BY <1>4 DEF Marked
<1> QED
  BY <1>1, <1>4, <1>5

LEMMA WordOfBits ==
  ASSUME NEW S \in SUBSET (0..Width - 1)
  PROVE  WordOf(S) \in 0..Word - 1 /\ Marked(WordOf(S)) = S
BY EveryWord DEF WordOf

\* The bits of -y: the lowest one of y, and above it those that y does not have
LEMMA NegateBits ==
  ASSUME NEW y \in 1..Word - 1, NEW l \in 0..Width - 1, IsMarked(y, l),
         \A j \in 0..l - 1 : ~IsMarked(y, j), NEW i \in 0..Width - 1
  PROVE  IsMarked(Negate(y), i) <=> i = l \/ (l < i /\ ~IsMarked(y, i))
<1>1. /\ Width \in Nat \ {0} /\ Word = 2^Width /\ Word \in Nat \ {0}
      /\ l \in 0..Width /\ i \in 0..Width /\ 2^l \in Nat \ {0} /\ 2^i \in Nat \ {0}
  BY WidthPowers
<1>2. Negate(y) = Word - y
  <2>1. Word - y \in 0..Word - 1
    BY <1>1
  <2>2. (Word - y) % Word = Word - y
    BY <1>1, <2>1
  <2> QED
    BY <2>2 DEF Negate
<1> DEFINE d == 2^l
           q == y \div d
<1>3. y = q * d /\ q \in Nat /\ q % 2 = 1
  <2>1. y \in Nat
    BY <1>1
  <2>2. y = (y \div 2^l) * 2^l /\ y \div 2^l \in Nat
    BY <1>1, <2>1, MultipleOf
  <2> QED
    BY <2>2 DEF IsMarked
<1> HIDE DEF q
<1>4. PICK c \in Nat \ {0} : Word = (2 * c) * d
  <2>1. Width \in 0..Width /\ l < Width
    BY <1>1
  <2> QED
    BY <1>1, <2>1, EvenMultiple
<1>5. Negate(y) = (2 * c - q) * d /\ 2 * c - q \in Int
  <2> HIDE DEF d
  <2>1. d \in Nat
    BY <1>1 DEF d
  <2>2. (2 * c) * d - q * d = (2 * c - q) * d /\ 2 * c - q \in Int
    BY <1>3, <2>1
  <2> QED
    BY <1>2, <1>3, <1>4, <2>2
<1>6. CASE i < l
  <2>1. i \in 0..l - 1
    BY <1>1, <1>6
  <2>2. ~IsMarked(Negate(y), i)
    BY <1>1, <1>5, <2>1, NoBitsBelow
  <2> QED
    BY <1>1, <1>6, <2>2
<1>7. CASE i = l
  <2> DEFINE t == 2 * c - q
  <2>1. t \in Int /\ t % 2 = 1
    BY <1>3
  <2>2. Negate(y) = t * 2^l + 0 /\ 0 \in 0..2^l - 1
    BY <1>1, <1>5
  <2> HIDE DEF t
  <2>3. IsMarked(Negate(y), l) <=> t % 2 = 1
    BY <1>1, <2>1, <2>2, BitIs
  <2> QED
    BY <1>7, <2>1, <2>3
<1>8. CASE l < i
  <2> DEFINE p == 2^i
             a == y \div p
             r == y % p
  <2>1. p \in Nat \ {0} /\ y \in Nat
    BY <1>1
  <2>2. a \in Nat /\ r \in 0..p - 1 /\ y = a * p + r
    <3> HIDE DEF p
    <3> QED
      BY <2>1, Divided
  <2>3. IsMarked(y, i) <=> a % 2 = 1
    BY DEF IsMarked
  <2> HIDE DEF a, r
  <2>4. r # 0
    <3>1. SUFFICES ASSUME r = 0 PROVE FALSE
      OBVIOUS
    <3>2. y = a * 2^i /\ a \in Int
      <4> HIDE DEF p
      <4>1. a * p \in Nat
        BY <2>1, <2>2
      <4>2. y = a * p /\ a \in Int
        BY <2>2, <3>1, <4>1
      <4> QED
        BY <4>2 DEF p
    <3>3. l \in 0..i - 1
      BY <1>1, <1>8
    <3> QED
      BY <1>1, <3>2, <3>3, NoBitsBelow
  <2>5. PICK e \in Nat \ {0} : Word = (2 * e) * p
    <3>1. Width \in 0..Width /\ i < Width
      BY <1>1
    <3> QED
      BY <1>1, <3>1, EvenMultiple
  <2> DEFINE t == 2 * e - a - 1
             u == p - r
  <2>6. t \in Int /\ u \in 0..p - 1 /\ (t % 2 = 1 <=> a % 2 # 1)
    <3> HIDE DEF p
    <3>1. a % 2 = 1 \/ a % 2 = 0
      BY <2>2
    <3>2. t \in Int /\ u \in 0..p - 1
      BY <2>1, <2>2, <2>4
    <3>3. t % 2 = 1 <=> a % 2 # 1
      BY <2>2
    <3> QED
      BY <3>2, <3>3
  <2>7. Negate(y) = t * p + u
    <3> HIDE DEF p
    <3>1. (2 * e) * p - (a * p + r) = (2 * e - a - 1) * p + (p - r)
      BY <2>1, <2>2
    <3> QED
      BY <1>2, <2>2, <2>5, <3>1
  <2> HIDE DEF t, u
  <2>8. IsMarked(Negate(y), i) <=> t % 2 = 1
    BY <1>1, <2>6, <2>7, BitIs
  <2> QED
    BY <1>1, <1>8, <2>3, <2>6, <2>8
<1> QED
  BY <1>1, <1>6, <1>7, <1>8

\* The lowest of some bits
LEMMA LowestBit ==
  ASSUME NEW S \in SUBSET (0..Width - 1), S # {}
  PROVE  Min(S) \in S /\ \A j \in S : Min(S) <= j
<1>1. S \in SUBSET Nat
  BY WidthPowers
<1>2. \E l \in S : \A j \in S : l <= j
  BY <1>1, LeastNumber
<1> QED
  BY <1>2 DEF Min

\* What compute_bit2idx makes of the least bit of a word
LEMMA LeastBitIs ==
  ASSUME NEW y \in 0..Word - 1, Marked(y) # {}
  PROVE  compute_bit2idx(least_bit(y)) = Min(Marked(y))
<1>1. Width \in Nat \ {0} /\ Word \in Nat \ {0}
  BY WidthPowers
<1> DEFINE l == Min(Marked(y))
<1>2. l \in Marked(y) /\ \A j \in Marked(y) : l <= j
  <2>1. Marked(y) \in SUBSET (0..Width - 1)
    BY DEF Marked
  <2> QED
    BY <2>1, LowestBit
<1> HIDE DEF l
<1>3. l \in 0..Width - 1 /\ IsMarked(y, l) /\ \A j \in 0..l - 1 : ~IsMarked(y, j)
  <2>1. l \in 0..Width - 1 /\ IsMarked(y, l)
    BY <1>2 DEF Marked
  <2>2. ASSUME NEW j \in 0..l - 1, IsMarked(y, j) PROVE FALSE
    <3>1. j \in 0..Width - 1 /\ ~(l <= j)
      BY <1>1, <2>1
    <3>2. j \in Marked(y)
      BY <2>2, <3>1 DEF Marked
    <3> QED
      BY <1>2, <3>1, <3>2
  <2> QED
    BY <2>1, <2>2
<1>4. y \in 1..Word - 1
  <2>1. SUFFICES ASSUME y = 0 PROVE FALSE
    BY <1>1
  <2>2. l \in 0..Width /\ 2^l \in Nat \ {0}
    BY <1>1, <1>3, WidthPowers
  <2>3. ~IsMarked(0, l)
    <3>1. 0 \in Nat /\ 0 < 2^l
      BY <2>2
    <3> QED
      BY <2>2, <3>1, NoHighBit
  <2> QED
    BY <1>3, <2>1, <2>3
<1>5. Marked(y) \cap Marked(Negate(y)) = {l}
  <2>1. ASSUME NEW i \in 0..Width - 1
        PROVE  IsMarked(y, i) /\ IsMarked(Negate(y), i) <=> i = l
    <3>1. IsMarked(Negate(y), i) <=> i = l \/ (l < i /\ ~IsMarked(y, i))
      BY <1>3, <1>4, NegateBits
    <3> QED
      BY <1>3, <3>1
  <2> QED
    BY <1>3, <2>1 DEF Marked
<1> DEFINE z == least_bit(y)
<1>6. z \in 0..Word - 1 /\ Marked(z) = {l}
  <2>1. z = WordOf({l})
    BY <1>5 DEF least_bit, And
  <2>2. {l} \in SUBSET (0..Width - 1)
    BY <1>3
  <2> QED
    BY <2>1, <2>2, WordOfBits
<1> HIDE DEF z
<1>7. \A j \in 0..Width - 1 : IsMarked(z, j) <=> j = l
  BY <1>6 DEF Marked
<1>8. z % 2^l = 0
  <2>1. z \in Nat /\ l \in 0..Width
    BY <1>1, <1>3, <1>6
  <2>2. \A j \in 0..l - 1 : ~IsMarked(z, j)
    <3>1. \A j \in 0..l - 1 : j \in 0..Width - 1 /\ j # l
      BY <1>1, <1>3
    <3> QED
      BY <1>7, <3>1
  <2> QED
    BY <2>1, <2>2, MultipleOf
<1> DEFINE Found(j) == IsMarked(z, j) /\ z % 2^j = 0
<1>9. compute_bit2idx(z) = CHOOSE j \in 0..Width - 1 : Found(j)
  BY DEF compute_bit2idx
<1>10. Found(l) /\ l \in 0..Width - 1 /\ \A j \in 0..Width - 1 : Found(j) => j = l
  BY <1>3, <1>7, <1>8
<1> HIDE DEF Found
<1>11. compute_bit2idx(z) = l
  BY <1>9, <1>10
<1> QED
  BY <1>11 DEF z, l

\* left_bits of a bit: all the bits above it
LEMMA LeftBitsOf ==
  ASSUME NEW i \in 0..Width - 1
  PROVE  Marked(left_bits(idx2bit(i))) = {j \in 0..Width - 1 : j > i}
<1>1. /\ Width \in Nat \ {0} /\ Word = 2^Width /\ Word \in Nat \ {0} /\ 2^1 = 2
      /\ \A k \in 0..Width : 2^k \in Nat \ {0} /\ 2^(k + 1) = 2 * 2^k
  <2>1. 2^(0 + 1) = 2 * 2^0
    BY WidthPowers
  <2>2. 0 + 1 = 1 /\ 2 * 2^0 = 2
    BY WidthPowers
  <2>3. 2^1 = 2
    BY <2>1, <2>2, Zenon
  <2> QED
    BY <2>3, WidthPowers
<1> DEFINE s == ShiftLeft(idx2bit(i), 1)
           S == {j \in 0..Width - 1 : j > i}
<1>2. i \in 0..Width /\ 2^i \in Nat \ {0} /\ 2^(i + 1) = 2 * 2^i
  BY <1>1
<1>3. s = (2 * 2^i) % Word
  <2>1. s = (2^i * 2^1) % Word
    BY DEF ShiftLeft, idx2bit
  <2>2. 2^i * 2^1 = 2 * 2^i
    BY <1>1, <1>2
  <2> QED
    BY <2>1, <2>2
<1>4. S \in SUBSET (0..Width - 1)
  OBVIOUS
<1>5. Marked(s) \cup Marked(Negate(s)) = S
  <2>1. CASE i = Width - 1
    <3>1. 2^(i + 1) = Word
      BY <1>1, <2>1
    <3>2. s = 0
      BY <1>1, <1>2, <1>3, <3>1
    <3>3. Negate(s) = 0
      BY <1>1, <3>2 DEF Negate
    <3>4. Marked(0) = {}
      <4>1. ASSUME NEW j \in 0..Width - 1 PROVE ~IsMarked(0, j)
        <5>1. j \in 0..Width /\ 0 \in Nat /\ 0 < 2^j
          BY <1>1
        <5> QED
          BY <5>1, NoHighBit
      <4> QED
        BY <4>1 DEF Marked
    <3>5. S = {}
      BY <1>1, <2>1
    <3> HIDE DEF s, S
    <3> QED
      BY <3>2, <3>3, <3>4, <3>5
  <2>2. CASE i < Width - 1
    <3>1. PICK v \in 0..Width - 1 : v = i + 1
      BY <1>1, <2>2
    <3>2. v \in 0..Width /\ 2^v = 2 * 2^i /\ 2^v \in Nat \ {0}
      <4>1. v \in 0..Width
        BY <1>1
      <4>2. 2^v = 2 * 2^i
        BY <1>2, <3>1, Zenon
      <4> QED
        BY <1>1, <4>1, <4>2
    <3>3. 2 * 2^v <= Word
      <4>1. v \in 0..Width + 1 /\ Width \in 0..Width + 1 /\ v < Width /\ Width \in Nat
        BY <1>1
      <4> QED
        BY <1>1, <4>1, WidthPowers, PowersGrow
    <3>4. s = 2^v /\ s \in 1..Word - 1
      <4>1. 2^v \in 1..Word - 1
        BY <1>1, <3>2, <3>3
      <4>2. 2^v % Word = 2^v
        BY <1>1, <4>1
      <4> QED
        BY <1>3, <3>2, <4>1, <4>2
    <3> HIDE DEF s
    <3>5. ASSUME NEW j \in 0..Width - 1 PROVE IsMarked(s, j) <=> j = v
      <4>1. j \in 0..Width
        BY <1>1
      <4>2. CASE j = v
        <5>1. IsMarked(s, v) <=> 1 % 2 = 1
          <6>1. s = 1 * 2^v + 0 /\ 0 \in 0..2^v - 1 /\ 1 \in Int
            BY <3>2, <3>4
          <6> QED
            BY <3>2, <6>1, BitIs, Zenon
        <5> QED
          BY <4>2, <5>1
      <4>3. CASE j < v
        <5>1. j \in 0..v - 1 /\ s = 1 * 2^v /\ 1 \in Int
          BY <3>2, <3>4, <4>3
        <5>2. ~IsMarked(s, j)
          BY <3>2, <5>1, NoBitsBelow, Zenon
        <5> QED
          BY <4>3, <5>2
      <4>4. CASE v < j
        <5>1. 2 * 2^v <= 2^j
          <6>1. v \in 0..Width + 1 /\ j \in 0..Width + 1 /\ Width \in Nat
            BY <1>1, <3>2, <4>1
          <6> QED
            BY <4>4, <6>1, WidthPowers, PowersGrow
        <5>2. s \in Nat /\ s < 2^j
          BY <1>1, <3>2, <3>4, <4>1, <5>1
        <5> QED
          BY <4>1, <4>4, <5>2, NoHighBit
      <4> QED
        BY <1>1, <4>2, <4>3, <4>4
    <3>6. ASSUME NEW j \in 0..Width - 1 PROVE IsMarked(Negate(s), j) <=> v <= j
      <4>1. IsMarked(s, v) /\ \A k \in 0..v - 1 : ~IsMarked(s, k)
        <5>1. \A k \in 0..v - 1 : k \in 0..Width - 1 /\ k # v
          BY <1>1, <3>1
        <5> QED
          BY <3>5, <5>1
      <4>2. IsMarked(Negate(s), j) <=> j = v \/ (v < j /\ ~IsMarked(s, j))
        BY <3>4, <4>1, NegateBits
      <4> QED
        BY <1>1, <3>5, <4>2
    <3>7. \A j \in 0..Width - 1 : (j = v \/ v <= j) <=> j > i
      BY <1>1, <3>1
    <3> QED
      BY <3>5, <3>6, <3>7 DEF Marked
  <2> QED
    BY <1>1, <2>1, <2>2
<1>6. left_bits(idx2bit(i)) = WordOf(S)
  <2> HIDE DEF S
  <2> QED
    BY <1>5 DEF left_bits, Or
<1> HIDE DEF S
<1>7. Marked(left_bits(idx2bit(i))) = S
  BY <1>4, <1>6, WordOfBits
<1> QED
  BY <1>7 DEF S

-----------------------------------------------------------------------------
(* The searches of the bit maps. *)

\* The bits of a word that it shares with left_bits, and the lowest of them
LEMMA LeastAbove ==
  ASSUME NEW x \in 0..Word - 1, NEW i \in 0..Width - 1,
         NEW y, y = And(x, left_bits(idx2bit(i))) \/ y = And(left_bits(idx2bit(i)), x)
  PROVE  /\ y \in 0..Word - 1 /\ Marked(y) = {j \in Marked(x) : j > i}
         /\ y = 0 <=> Marked(y) = {}
         /\ Marked(y) # {} => compute_bit2idx(least_bit(y)) = Min(Marked(y))
<1> DEFINE S == {j \in Marked(x) : j > i}
<1>1. S \in SUBSET (0..Width - 1)
  BY DEF Marked
<1>2. y = WordOf(S)
  <2>1. /\ Marked(x) \cap Marked(left_bits(idx2bit(i))) = S
        /\ Marked(left_bits(idx2bit(i))) \cap Marked(x) = S
    BY LeftBitsOf DEF Marked
  <2> HIDE DEF S
  <2> QED
    BY <2>1 DEF And
<1> HIDE DEF S
<1>3. y \in 0..Word - 1 /\ Marked(y) = S
  BY <1>1, <1>2, WordOfBits
<1>4. Word \in Nat \ {0} /\ Width \in Nat \ {0} /\ \A j \in 0..Width : 2^j \in Nat \ {0}
  BY WidthPowers
<1>5. y = 0 <=> Marked(y) = {}
  <2>1. ASSUME y = 0, NEW j \in 0..Width - 1 PROVE ~IsMarked(y, j)
    <3>1. j \in 0..Width /\ y \in Nat /\ y < 2^j
      BY <1>4, <2>1
    <3> QED
      BY <3>1, NoHighBit
  <2>2. y = 0 => Marked(y) = {}
    BY <2>1 DEF Marked
  <2>3. y # 0 => Marked(y) # {}
    <3>1. y # 0 => y \in 1..Word - 1
      BY <1>3, <1>4
    <3> QED
      BY <3>1, SomeBit
  <2> QED
    BY <2>2, <2>3
<1>6. Marked(y) # {} => compute_bit2idx(least_bit(y)) = Min(Marked(y))
  BY <1>3, LeastBitIs
<1> QED
  BY <1>3, <1>5, <1>6 DEF S

\* LeastOf by what it is
LEMMA LeastOfIs ==
  ASSUME NEW S \in SUBSET (0..Width - 1), NEW l \in S, \A j \in S : l <= j
  PROVE  LeastOf(S) = l
<1>1. S # {} /\ S \in SUBSET Int
  BY WidthPowers
<1>2. Min(S) \in S /\ \A j \in S : Min(S) <= j
  BY <1>1, LowestBit
<1>3. Min(S) = l
  <2>1. Min(S) <= l /\ l <= Min(S) /\ Min(S) \in Int /\ l \in Int
    BY <1>1, <1>2
  <2> QED
    BY <2>1
<1> QED
  BY <1>1, <1>3 DEF LeastOf

LEMMA NextTreeBinHolds == n \in 0..Word - 1 => NextTreeBin
<1> SUFFICES ASSUME n \in 0..Word - 1, NEW i \in 0..Width - 1
             PROVE  TreeBinAfter(n, i) = LeastOf({j \in Marked(n) : j > i})
  BY DEF NextTreeBin
<1> DEFINE S == {j \in Marked(n) : j > i}
<1>4. PICK y : y = And(left_bits(idx2bit(i)), n)
  OBVIOUS
<1>1. /\ Marked(y) = S
      /\ y = 0 <=> S = {}
      /\ S # {} => compute_bit2idx(least_bit(y)) = Min(S)
  <2>1. /\ Marked(y) = S
        /\ y = 0 <=> Marked(y) = {}
        /\ Marked(y) # {} => compute_bit2idx(least_bit(y)) = Min(Marked(y))
    BY <1>4, LeastAbove
  <2> HIDE DEF S
  <2> QED
    BY <2>1
<1>2. TreeBinAfter(n, i) = IF y = 0 THEN NoBin ELSE compute_bit2idx(least_bit(y))
  BY <1>4 DEF TreeBinAfter
<1> HIDE DEF S
<1>3. TreeBinAfter(n, i) = LeastOf(S)
  BY <1>1, <1>2 DEF LeastOf
<1> QED
  BY <1>3 DEF S

\* The map x shifted to the right by i: its bits are those of the map from i on.
IsShifted(s, x, i) ==
  /\ s \in 0..Word - 1 /\ s * 2^i \in 0..Word - 1
  /\ \A j \in i..Width - 1 : IsMarked(s * 2^i, j) <=> IsMarked(x, j)
  /\ IsMarked(x, i) <=> s % 2 = 1
  /\ s % 4 = 2 => i + 1 \in 0..Width - 1 /\ IsMarked(x, i + 1)
  /\ s = 0 <=> \A j \in i..Width - 1 : ~IsMarked(x, j)

LEMMA ShiftedBits ==
  ASSUME NEW x \in 0..Word - 1, NEW i \in 0..Width - 1, NEW s, s = x \div 2^i
  PROVE  IsShifted(s, x, i)
<1>1. /\ Width \in Nat \ {0} /\ Word \in Nat \ {0} /\ Word = 2^Width /\ x \in Nat
      /\ \A k \in 0..Width : 2^k \in Nat \ {0} /\ 2^(k + 1) = 2 * 2^k
  BY WidthPowers
<1> DEFINE d == 2^i
           r == x % d
<1>2. i \in 0..Width /\ d \in Nat \ {0} /\ s = x \div d /\ i < Width
  BY <1>1
<1>3. s \in Nat /\ r \in 0..d - 1 /\ x = s * d + r
  <2> HIDE DEF d
  <2> QED
    BY <1>1, <1>2, Divided
<1> HIDE DEF r
<1>4. s * d \in 0..Word - 1 /\ s * d <= x /\ s <= s * d
  <2> HIDE DEF d
  <2>1. s * d \in Nat
    BY <1>2, <1>3
  <2>2. \A u, v \in Nat : v # 0 => u <= u * v
    OBVIOUS
  <2>3. s <= s * d
    BY <1>2, <1>3, <2>2
  <2> QED
    BY <1>1, <1>2, <1>3, <2>1, <2>3
<1>5. s \in 0..Word - 1
  <2> HIDE DEF d
  <2> QED
    BY <1>1, <1>3, <1>4
<1>6. IsMarked(x, i) <=> s % 2 = 1
  BY DEF IsMarked
<1>7. ASSUME NEW j \in i..Width - 1 PROVE IsMarked(s * 2^i, j) <=> IsMarked(x, j)
  <2>1. j \in 0..Width /\ 2^j \in Nat \ {0}
    BY <1>1
  <2>2. CASE j = i
    <3>1. s * 2^i = s * 2^i + 0 /\ 0 \in 0..2^i - 1 /\ s \in Int
      BY <1>2, <1>3, <1>4
    <3> DEFINE z == s * 2^i
    <3>2. z = s * 2^i + 0
      BY <3>1
    <3> HIDE DEF z
    <3>3. IsMarked(z, i) <=> s % 2 = 1
      BY <1>2, <3>1, <3>2, BitIs, Zenon
    <3> QED
      BY <1>6, <2>2, <3>3 DEF z
  <2>3. CASE i < j
    <3>1. PICK c \in Nat \ {0} : 2^j = (2 * c) * 2^i
      BY <1>2, <2>1, <2>3, EvenMultiple
    <3> DEFINE e == 2 * c
               q == s \div e
               t == s % e
    <3>2. e \in Nat \ {0} /\ 2^j = e * d
      BY <3>1
    <3> HIDE DEF e
    <3>3. q \in Nat /\ t \in 0..e - 1 /\ s = q * e + t
      BY <1>3, <3>2, Divided
    <3> HIDE DEF q, t
    <3>4. t * d \in Nat /\ t * d + d <= 2^j
      <4> HIDE DEF d
      <4>1. t * d + d <= e * d
        BY <1>2, <3>2, <3>3, ProductsApart
      <4> QED
        BY <1>2, <3>2, <3>3, <4>1
    <3>5. t * d \in 0..2^j - 1 /\ t * d + r \in 0..2^j - 1
      <4> DEFINE p == 2^j
                 w == t * d
      <4>1. p \in Nat /\ w \in Nat /\ w + d <= p /\ d \in Nat \ {0} /\ r \in 0..d - 1
        BY <1>2, <1>3, <2>1, <3>4
      <4> HIDE DEF p, w, d
      <4>2. w \in 0..p - 1 /\ w + r \in 0..p - 1
        BY <4>1
      <4> QED
        BY <4>2 DEF p, w
    <3>6. s * d = q * 2^j + t * d /\ x = q * 2^j + (t * d + r)
      <4> HIDE DEF d
      <4>1. (q * e + t) * d = q * (e * d) + t * d
        BY <1>2, <3>2, <3>3
      <4>2. s * d = q * 2^j + t * d
        BY <3>2, <3>3, <4>1
      <4>3. q * 2^j \in Nat /\ t * d \in Nat
        BY <1>2, <2>1, <3>3
      <4> QED
        BY <1>2, <1>3, <4>2, <4>3
    <3> DEFINE z == s * d
               v == t * d
               u == t * d + r
    <3>7. q \in Int /\ v \in 0..2^j - 1 /\ u \in 0..2^j - 1 /\ z = q * 2^j + v /\ x = q * 2^j + u
      BY <3>3, <3>5, <3>6
    <3> HIDE DEF z, u, v
    <3>8. IsMarked(z, j) <=> q % 2 = 1
      BY <2>1, <3>7, BitIs
    <3>9. IsMarked(x, j) <=> q % 2 = 1
      BY <2>1, <3>7, BitIs
    <3> QED
      BY <3>8, <3>9 DEF z
  <2> QED
    BY <1>1, <2>2, <2>3
<1>8. ASSUME s % 4 = 2 PROVE i + 1 \in 0..Width - 1 /\ IsMarked(x, i + 1)
  <2>1. PICK h \in Nat : s = 4 * h + 2
    <3>1. s = 4 * (s \div 4) + (s % 4) /\ s \div 4 \in Nat
      BY <1>3
    <3>2. s = 4 * (s \div 4) + 2
      BY <1>8, <3>1
    <3> QED
      BY <3>1, <3>2
  <2>2. i + 1 \in 0..Width /\ 2^(i + 1) = 2 * d
    BY <1>1, <1>2
  <2>3. x = (2 * h + 1) * (2 * d) + r /\ r \in 0..2 * d - 1
    <3> HIDE DEF d
    <3>1. (4 * h + 2) * d = (2 * h + 1) * (2 * d)
      BY <1>2, <2>1
    <3> QED
      BY <1>2, <1>3, <2>1, <3>1
  <2> DEFINE q == 2 * h + 1
  <2>4. q \in Int /\ q % 2 = 1 /\ q >= 1
    BY <2>1
  <2>5. x = q * 2^(i + 1) + r /\ r \in 0..2^(i + 1) - 1
    BY <2>2, <2>3
  <2> HIDE DEF q
  <2>6. IsMarked(x, i + 1)
    <3>1. IsMarked(x, i + 1) <=> q % 2 = 1
      BY <2>2, <2>4, <2>5, BitIs
    <3> QED
      BY <2>4, <3>1
  <2>7. i + 1 # Width
    <3>1. SUFFICES ASSUME i + 1 = Width PROVE FALSE
      OBVIOUS
    <3>2. IsMarked(x, Width)
      BY <2>6, <3>1, Zenon
    <3>3. Width \in 0..Width /\ x < 2^Width
      BY <1>1
    <3> QED
      BY <1>1, <3>2, <3>3, NoHighBit
  <2> QED
    BY <1>1, <2>2, <2>6, <2>7
<1>9. s = 0 <=> \A j \in i..Width - 1 : ~IsMarked(x, j)
  <2>1. ASSUME s = 0, NEW j \in i..Width - 1 PROVE ~IsMarked(x, j)
    <3>1. j \in 0..Width /\ 2^j \in Nat \ {0}
      BY <1>1
    <3>2. d <= 2^j
      <4>1. CASE j = i
        BY <1>2, <4>1
      <4>2. CASE i < j
        <5>1. i \in 0..Width + 1 /\ j \in 0..Width + 1 /\ Width \in Nat /\ PowersUpTo(Width)
          BY <1>1, <1>2, <3>1, WidthPowers
        <5>2. 2 * 2^i <= 2^j
          BY <4>2, <5>1, PowersGrow
        <5> QED
          BY <1>2, <3>1, <5>2
      <4> QED
        BY <1>1, <4>1, <4>2
    <3>3. x < 2^j
      <4> DEFINE p == 2^j
      <4>1. p \in Nat /\ d <= p /\ d \in Nat
        BY <1>2, <3>1, <3>2
      <4> HIDE DEF p, d
      <4>2. s * d = 0
        BY <2>1, <4>1
      <4>3. x < p
        BY <1>3, <4>1, <4>2
      <4> QED
        BY <4>3 DEF p
    <3> QED
      BY <1>1, <3>1, <3>3, NoHighBit
  <2>2. ASSUME s # 0 PROVE \E j \in i..Width - 1 : IsMarked(x, j)
    <3> DEFINE z == s * d
    <3>1. z \in 1..Word - 1
      <4> HIDE DEF d
      <4> QED
        BY <1>1, <1>3, <1>4, <2>2
    <3> HIDE DEF z
    <3>2. PICK j \in 0..Width - 1 : IsMarked(z, j)
      BY <3>1, SomeBit DEF Marked
    <3>3. ~(j < i)
      <4>1. SUFFICES ASSUME j < i PROVE FALSE
        OBVIOUS
      <4>2. j \in 0..i - 1 /\ z = s * 2^i /\ s \in Int
        BY <1>1, <1>3, <4>1 DEF z
      <4>3. ~IsMarked(z, j)
        BY <1>2, <4>2, NoBitsBelow
      <4> QED
        BY <3>2, <4>3
    <3>4. j \in i..Width - 1
      BY <1>1, <3>3
    <3>5. IsMarked(s * 2^i, j)
      BY <3>2 DEF z
    <3> QED
      BY <1>7, <3>4, <3>5
  <2> QED
    BY <2>1, <2>2
<1> QED
  BY <1>4, <1>5, <1>6, <1>7, <1>8, <1>9 DEF IsShifted

LEMMA FirstSmallBinHolds == n \in 0..Word - 1 => FirstSmallBin
<1> SUFFICES ASSUME n \in 0..Word - 1, NEW i \in 0..Width - 1
             PROVE  SmallBinFor(n, i) = LeastOf({j \in Marked(n) : j >= i})
  BY DEF FirstSmallBin
<1>11. PICK s : s = n \div 2^i
  OBVIOUS
<1> DEFINE w == s * 2^i
           S == {j \in Marked(n) : j >= i}
           y == And(ShiftLeft(s, i), left_bits(idx2bit(i)))
<1>1. Width \in Nat \ {0} /\ Word \in Nat \ {0}
  BY WidthPowers
<1>2. /\ s \in 0..Word - 1 /\ w \in 0..Word - 1
      /\ \A j \in i..Width - 1 : IsMarked(w, j) <=> IsMarked(n, j)
      /\ IsMarked(n, i) <=> s % 2 = 1
      /\ s % 4 = 2 => i + 1 \in 0..Width - 1 /\ IsMarked(n, i + 1)
      /\ s = 0 <=> \A j \in i..Width - 1 : ~IsMarked(n, j)
  <2>1. IsShifted(s, n, i)
    BY <1>11, ShiftedBits
  <2> QED
    BY <2>1 DEF IsShifted
<1>3. SmallBinFor(n, i) = IF s % 4 # 0 THEN i + (1 - (s % 2))
                          ELSE IF s = 0 THEN NoBin ELSE compute_bit2idx(least_bit(y))
  BY <1>11 DEF SmallBinFor
<1>4. ShiftLeft(s, i) = w
  <2>1. ShiftLeft(s, i) = w % Word
    BY DEF ShiftLeft
  <2> HIDE DEF w
  <2> QED
    BY <1>1, <1>2, <2>1
<1>5. y = And(w, left_bits(idx2bit(i)))
  BY <1>4
<1>6. S \in SUBSET (0..Width - 1) /\ \A j : j \in S <=> j \in i..Width - 1 /\ IsMarked(n, j)
  BY <1>1 DEF Marked
<1> HIDE DEF w, S, y
<1>7. CASE s % 2 = 1
  <2>1. s % 4 # 0 /\ i + (1 - (s % 2)) = i
    BY <1>2, <1>7
  <2>2. i \in S /\ \A j \in S : i <= j
    BY <1>1, <1>2, <1>6, <1>7
  <2>3. LeastOf(S) = i
    BY <1>6, <2>2, LeastOfIs
  <2> QED
    BY <1>3, <2>1, <2>3 DEF S
<1>8. CASE s % 4 = 2
  <2>1. s % 4 # 0 /\ s % 2 = 0
    BY <1>2, <1>8
  <2>2. i + 1 \in S /\ \A j \in S : i + 1 <= j
    <3>1. i + 1 \in i..Width - 1 /\ IsMarked(n, i + 1) /\ ~IsMarked(n, i)
      BY <1>1, <1>2, <1>8, <2>1
    <3>2. i + 1 \in S /\ i \notin S
      BY <1>6, <3>1
    <3>3. \A j \in S : j \in i..Width - 1 /\ j # i
      BY <1>6, <3>2
    <3> QED
      BY <1>1, <3>2, <3>3
  <2>3. LeastOf(S) = i + 1
    BY <1>6, <2>2, LeastOfIs
  <2>4. SmallBinFor(n, i) = i + 1
    BY <1>1, <1>3, <2>1
  <2> QED
    BY <2>3, <2>4 DEF S
<1>9. CASE s % 4 = 0
  <2>1. CASE s = 0
    <3>1. S = {}
      BY <1>2, <1>6, <2>1
    <3>2. SmallBinFor(n, i) = NoBin
      BY <1>3, <1>9, <2>1
    <3> QED
      BY <3>1, <3>2 DEF LeastOf, S
  <2>2. CASE s # 0
    <3>1. S # {}
      BY <1>2, <1>6, <2>2
    <3>2. s % 2 # 1
      BY <1>2, <1>9
    <3>3. i \notin S
      BY <1>2, <1>6, <3>2
    <3>4. {j \in Marked(w) : j > i} = S
      <4>1. ASSUME NEW j PROVE j \in Marked(w) /\ j > i <=> j \in S
        <5>1. ASSUME j \in Marked(w), j > i PROVE j \in S
          <6>1. j \in 0..Width - 1 /\ IsMarked(w, j)
            BY <5>1 DEF Marked
          <6>2. j \in i..Width - 1
            BY <1>1, <5>1, <6>1
          <6> QED
            BY <1>2, <1>6, <6>1, <6>2
        <5>2. ASSUME j \in S PROVE j \in Marked(w) /\ j > i
          <6>1. j \in i..Width - 1 /\ IsMarked(n, j) /\ j # i
            BY <1>6, <3>3, <5>2
          <6>2. j \in 0..Width - 1 /\ j > i /\ IsMarked(w, j)
            BY <1>1, <1>2, <6>1
          <6> QED
            BY <6>2 DEF Marked
        <5> QED
          BY <5>1, <5>2
      <4> QED
        BY <4>1
    <3>5. Marked(y) = S /\ compute_bit2idx(least_bit(y)) = Min(Marked(y))
      BY <1>2, <1>5, <3>1, <3>4, LeastAbove
    <3>6. SmallBinFor(n, i) = Min(S)
      BY <1>3, <1>9, <2>2, <3>5
    <3> QED
      BY <3>1, <3>6 DEF LeastOf, S
  <2> QED
    BY <2>1, <2>2
<1>10. s % 2 = 1 \/ s % 4 = 2 \/ s % 4 = 0
  BY <1>2
<1> QED
  BY <1>7, <1>8, <1>9, <1>10

-----------------------------------------------------------------------------

\* Index, range, trie bit and bit map of the bins (compute_tree_index,
\* minsize_for_tree_index, leftshift_for_tree_index, least_bit, left_bits) agree for
\* every map, and for every size that the unsigned int of compute_tree_index can hold.
THEOREM BinsAlwaysAgree ==
  /\ topic \in Topics /\ n \in Numbers(topic)
  /\ topic = "sizes" => n < 2^(TREEBIN_SHIFT + IntBits)
  => BinsAgree
<1> SUFFICES ASSUME topic \in Topics, n \in Numbers(topic),
                    topic = "sizes" => n < 2^(TREEBIN_SHIFT + IntBits)
             PROVE  BinsAgree
  OBVIOUS
<1>1. CASE topic = "sizes"
  <2>1. n \in 0..MAX_SIZE_T /\ n \in Nat /\ n < 2^(TREEBIN_SHIFT + IntBits)
    BY <1>1 DEF Numbers
  <2>2. TreeIndexExact
    BY <2>1, IndexOfSize DEF TreeIndexExact, LargeSize
  <2>3. TrieFollowsOrder
    <3> SUFFICES ASSUME n >= MIN_LARGE_SIZE, NEW i, i = TreeIndex(n), i # NTREEBINS - 1
                 PROVE  /\ n \div 2^(TopBit(i) + 1) = minsize_for_tree_index(i) \div 2^(TopBit(i) + 1)
                        /\ 2^(TopBit(i) + 1) = minsize_for_tree_index(i + 1) - minsize_for_tree_index(i)
      BY DEF TrieFollowsOrder, LargeSize
    <3>1. MIN_LARGE_SIZE <= n
      BY <2>1, BinsAssumption DEF MIN_LARGE_SIZE
    <3> QED
      BY <2>1, <3>1, BinsShareBits
  <2>4. SmallOrLarge
    BY <1>1, <2>1, SmallOrLargeHolds
  <2>5. FirstSmallBin /\ NextTreeBin
    BY <1>1 DEF FirstSmallBin, NextTreeBin
  <2> QED
    BY <2>2, <2>3, <2>4, <2>5 DEF BinsAgree
<1>2. CASE topic = "maps"
  <2>1. n \in 0..Word - 1
    BY <1>2 DEF Numbers
  <2>2. TreeIndexExact /\ TrieFollowsOrder /\ SmallOrLarge
    BY <1>2 DEF TreeIndexExact, TrieFollowsOrder, SmallOrLarge, LargeSize
  <2> QED
    BY <2>1, <2>2, FirstSmallBinHolds, NextTreeBinHolds DEF BinsAgree
<1> QED
  BY <1>1, <1>2 DEF Topics

-----------------------------------------------------------------------------
(* The order of the sizes of a tree bin, by the bits its trie goes by. *)

\* A size of a large chunk of bin i.
LargeIn(i, z) ==
  /\ z \in Nat /\ MIN_LARGE_SIZE <= z /\ z < 2^(TREEBIN_SHIFT + IntBits) /\ z < SizeT
  /\ TreeIndex(z) = i

\* The powers of the bits a trie goes by, and one more, are numbers.
LEMMA TrieBits ==
  ASSUME NEW i \in 0..NTREEBINS - 1, NEW h, h = TopBit(i) + 1
  PROVE  /\ h \in Nat
         /\ \A k \in 0..h : 2^k \in Nat \ {0}
         /\ \A k \in 0..h - 1 : 2^(k + 1) = 2 * 2^k
<1>1. /\ NTREEBINS \in Nat \ {0} /\ TREEBIN_SHIFT \in Nat \ {0} /\ WordBits \in Nat \ {0}
      /\ PowersUpTo(WordBits) /\ PowersUpTo(TREEBIN_SHIFT + NTREEBINS)
  BY BinsAssumption, SizesAssumption, ArithmeticAssumption
<1>2. PICK b \in Nat : PowersUpTo(b) /\ h \in Nat /\ h <= b /\ b \in {WordBits, TREEBIN_SHIFT + NTREEBINS}
  <2>1. CASE i = NTREEBINS - 1
    <3>1. h = WordBits
      BY <1>1, <2>1 DEF TopBit
    <3> QED
      BY <1>1, <3>1
  <2>2. CASE i # NTREEBINS - 1
    <3>1. TopBit(i) = i \div 2 + TREEBIN_SHIFT - 2
      BY <2>2 DEF TopBit
    <3>2. i \div 2 \in 0..NTREEBINS - 1
      BY <1>1
    <3>3. h \in Nat /\ h <= TREEBIN_SHIFT + NTREEBINS /\ TREEBIN_SHIFT + NTREEBINS \in Nat
      BY <1>1, <3>1, <3>2
    <3> QED
      BY <1>1, <3>3
  <2> QED
    BY <2>1, <2>2
<1>3. \A k \in 0..h : 2^k \in Nat \ {0}
  <2> SUFFICES ASSUME NEW k \in 0..h PROVE 2^k \in Nat \ {0}
    OBVIOUS
  <2>1. k \in 0..b
    BY <1>2
  <2> QED
    BY <1>2, <2>1 DEF PowersUpTo
<1>4. \A k \in 0..h - 1 : 2^(k + 1) = 2 * 2^k
  <2> SUFFICES ASSUME NEW k \in 0..h - 1 PROVE 2^(k + 1) = 2 * 2^k
    OBVIOUS
  <2>1. k \in 0..b
    BY <1>2
  <2> QED
    BY <1>2, <2>1 DEF PowersUpTo
<1> QED
  BY <1>2, <1>3, <1>4

\* The sizes of a bin agree in the bits above those its trie goes by.
LEMMA SameAbove ==
  ASSUME NEW i \in 0..NTREEBINS - 1, NEW a, NEW b, LargeIn(i, a), LargeIn(i, b),
         NEW h, h = TopBit(i) + 1
  PROVE  a \div 2^h = b \div 2^h
<1>1. CASE i # NTREEBINS - 1
  <2>1. a \div 2^(TopBit(i) + 1) = 2 + (i % 2)
    BY <1>1, BinsShareBits DEF LargeIn
  <2>2. b \div 2^(TopBit(i) + 1) = 2 + (i % 2)
    BY <1>1, BinsShareBits DEF LargeIn
  <2> QED
    BY <2>1, <2>2
<1>2. CASE i = NTREEBINS - 1
  <2>1. h = WordBits
    BY <1>2, SizesAssumption DEF TopBit
  <2>2. 2^h = SizeT /\ SizeT \in Nat \ {0}
    BY <2>1, SizeTFacts, SizesAssumption DEF SizeT
  <2>3. ASSUME NEW z \in Nat, z < SizeT PROVE z \div SizeT = 0
    <3>1. PICK d \in Nat \ {0} : d = SizeT
      BY <2>2
    <3>2. z \in 0..d - 1 /\ 0 * d + z = z /\ 0 \in Nat
      BY <2>3, <3>1
    <3>3. (0 * d + z) \div d = 0
      BY <3>2, QuotientIs
    <3> QED
      BY <3>1, <3>2, <3>3
  <2> QED
    BY <2>2, <2>3 DEF LargeIn
<1> QED
  BY <1>1, <1>2

\* A number with one more bit.
LEMMA OneBitMore ==
  ASSUME NEW z \in Nat, NEW k \in Nat, 2^k \in Nat \ {0}, 2^(k + 1) = 2 * 2^k
  PROVE  /\ z \div 2^k \in Nat /\ z \div 2^(k + 1) \in Nat /\ BitOf(z, k) \in 0..1
         /\ z \div 2^k = 2 * (z \div 2^(k + 1)) + BitOf(z, k)
<1>1. PICK p \in Nat \ {0} : p = 2^k
  OBVIOUS
<1>2. (z \div p) \div 2 = z \div (p * 2) /\ p * 2 \in Nat \ {0}
  <2>1. 2 \in Nat \ {0}
    OBVIOUS
  <2> QED
    <3>1. \A q \in Nat \ {0} : p * q \in Nat \ {0} /\ (z \div p) \div q = z \div (p * q)
      BY DividedTwice
    <3> QED
      BY <2>1, <3>1
<1>3. p * 2 = 2^(k + 1)
  BY <1>1
<1>4. z \div p \in Nat
  BY Divided
<1>5. /\ z \div p = ((z \div p) \div 2) * 2 + ((z \div p) % 2) /\ (z \div p) % 2 \in 0..1
      /\ (z \div p) \div 2 \in Nat
  <2>1. PICK y \in Nat : y = z \div p
    BY <1>4
  <2>2. y = (y \div 2) * 2 + (y % 2) /\ y % 2 \in 0..1 /\ y \div 2 \in Nat
    OBVIOUS
  <2> QED
    BY <2>1, <2>2
<1>6. BitOf(z, k) = (z \div p) % 2
  BY <1>1 DEF BitOf
<1> QED
  BY <1>1, <1>2, <1>3, <1>4, <1>5, <1>6

\* Numbers that agree from a bit on upward are the same, divided there.
LEMMA SameFrom ==
  ASSUME NEW a \in Nat, NEW b \in Nat, NEW h \in Nat, a \div 2^h = b \div 2^h,
         \A k \in 0..h : 2^k \in Nat \ {0}, \A k \in 0..h - 1 : 2^(k + 1) = 2 * 2^k,
         NEW p \in 0..h, \A e \in p..h - 1 : BitOf(a, e) = BitOf(b, e)
  PROVE  a \div 2^p = b \div 2^p
<1> DEFINE T == {u \in 0..h - p : a \div 2^(h - u) # b \div 2^(h - u)}
<1>1. ASSUME T # {} PROVE FALSE
  <2>1. PICK u \in T : \A v \in T : u <= v
    <3>1. T \in SUBSET Nat
      OBVIOUS
    <3> QED
      BY <1>1, <3>1, LeastNumber
  <2>2. u \in 0..h - p /\ a \div 2^(h - u) # b \div 2^(h - u)
    BY <2>1
  <2>3. u # 0
    BY <2>2
  <2>4. PICK k \in Nat : k = h - u
    BY <2>2
  <2>5. k \in 0..h - 1 /\ k \in p..h - 1 /\ k + 1 = h - (u - 1) /\ u - 1 \in 0..h - p /\ u - 1 < u
    BY <2>2, <2>3, <2>4
  <2>6. a \div 2^(h - (u - 1)) = b \div 2^(h - (u - 1))
    <3>1. PICK w \in Nat : w = u - 1 /\ w \in 0..h - p /\ ~(u <= w)
      BY <2>2, <2>5
    <3>2. w \notin T
      BY <2>1, <3>1
    <3>3. a \div 2^(h - w) = b \div 2^(h - w)
      BY <3>1, <3>2
    <3> QED
      BY <3>1, <3>3
  <2>7. a \div 2^(k + 1) = b \div 2^(k + 1)
    BY <2>5, <2>6
  <2>8. 2^k \in Nat \ {0} /\ 2^(k + 1) = 2 * 2^k /\ BitOf(a, k) = BitOf(b, k)
    BY <2>5
  <2>9. a \div 2^k = 2 * (a \div 2^(k + 1)) + BitOf(a, k)
    BY <2>8, OneBitMore
  <2>10. b \div 2^k = 2 * (b \div 2^(k + 1)) + BitOf(b, k)
    BY <2>8, OneBitMore
  <2> QED
    BY <2>2, <2>4, <2>7, <2>8, <2>9, <2>10
<1>2. h - p \in 0..h - p /\ h - (h - p) = p
  OBVIOUS
<1>3. ~(a \div 2^(h - (h - p)) # b \div 2^(h - (h - p)))
  BY <1>1, <1>2
<1> QED
  BY <1>2, <1>3

\* Two sizes of a bin that part at a node of its trie: the one that goes left is smaller.
LEMMA LeftIsSmaller ==
  ASSUME NEW i \in 0..NTREEBINS - 1, NEW a, NEW b, LargeIn(i, a), LargeIn(i, b), NEW d \in Nat,
         \A f \in 0..d - 1 : ChildFor(i, a, f) = ChildFor(i, b, f),
         ChildFor(i, a, d) # 2, ChildFor(i, b, d) # 1
  PROVE  a < b
<1>1. PICK h, t : h = TopBit(i) + 1 /\ t = TopBit(i)
  OBVIOUS
<1>2. /\ h \in Nat /\ t \in Int /\ h = t + 1
      /\ \A k \in 0..h : 2^k \in Nat \ {0}
      /\ \A k \in 0..h - 1 : 2^(k + 1) = 2 * 2^k
  <2>1. /\ h \in Nat
        /\ \A k \in 0..h : 2^k \in Nat \ {0}
        /\ \A k \in 0..h - 1 : 2^(k + 1) = 2 * 2^k
    BY <1>1, TrieBits
  <2>2. TopBit(i) \in Int
    BY BinsAssumption, SizesAssumption DEF TopBit
  <2> QED
    BY <1>1, <2>1, <2>2
<1>3. a \in Nat /\ b \in Nat
  BY DEF LargeIn
<1>4. a \div 2^h = b \div 2^h
  BY <1>1, SameAbove
<1>5. /\ \A f \in 0..d - 1 : 1 + BitOf(a, t - f) = 1 + BitOf(b, t - f)
      /\ BitOf(a, t - d) # 1 /\ BitOf(b, t - d) # 0
  <2>1. \A z, f : ChildFor(i, z, f) = 1 + BitOf(z, t - f)
    BY <1>1, Zenon DEF ChildFor
  <2>2. 1 + BitOf(a, t - d) # 2 /\ 1 + BitOf(b, t - d) # 1
    BY <2>1
  <2>3. \A f \in 0..d - 1 : 1 + BitOf(a, t - f) = 1 + BitOf(b, t - f)
    BY <2>1
  <2>4. 1 + 1 = 2 /\ 1 + 0 = 1
    OBVIOUS
  <2>5. BitOf(a, t - d) # 1 /\ BitOf(b, t - d) # 0
    BY <2>2, <2>4
  <2> QED
    BY <2>3, <2>5
<1>6. t - d >= 0
  <2>1. t - d < 0 => BitOf(b, t - d) = 0
    BY DEF BitOf
  <2> QED
    BY <1>2, <1>5, <2>1
<1>7. PICK p \in Nat : p = t - d
  BY <1>2, <1>6
<1>8. p + 1 \in 0..h /\ p \in 0..h - 1 /\ p \in 0..h
  BY <1>2, <1>7
<1>9. \A e \in p + 1..h - 1 : BitOf(a, e) = BitOf(b, e)
  <2> SUFFICES ASSUME NEW e \in p + 1..h - 1 PROVE BitOf(a, e) = BitOf(b, e)
    OBVIOUS
  <2>1. t - e \in 0..d - 1 /\ t - (t - e) = e /\ e \in 0..h - 1 /\ e \in Nat
    BY <1>2, <1>7
  <2>2. BitOf(a, e) \in 0..1 /\ BitOf(b, e) \in 0..1
    <3>1. 2^e \in Nat \ {0} /\ 2^(e + 1) = 2 * 2^e
      BY <1>2, <2>1
    <3> QED
      BY <1>3, <2>1, <3>1, OneBitMore
  <2>3. 1 + BitOf(a, t - (t - e)) = 1 + BitOf(b, t - (t - e))
    BY <1>5, <2>1
  <2> QED
    BY <2>1, <2>2, <2>3
<1>10. a \div 2^(p + 1) = b \div 2^(p + 1)
  BY <1>2, <1>3, <1>4, <1>8, <1>9, SameFrom
<1>11. 2^p \in Nat \ {0} /\ 2^(p + 1) = 2 * 2^p
  BY <1>2, <1>8
<1>12. /\ a \div 2^p = 2 * (a \div 2^(p + 1)) + BitOf(a, p) /\ BitOf(a, p) \in 0..1
       /\ a \div 2^(p + 1) \in Nat
  BY <1>3, <1>11, OneBitMore
<1>13. b \div 2^p = 2 * (b \div 2^(p + 1)) + BitOf(b, p) /\ BitOf(b, p) \in 0..1
  BY <1>3, <1>11, OneBitMore
<1>14. BitOf(a, p) = 0 /\ BitOf(b, p) = 1
  BY <1>5, <1>7, <1>12, <1>13
<1>15. a \div 2^p < b \div 2^p
  BY <1>10, <1>12, <1>13, <1>14
<1>16. ASSUME b <= a PROVE FALSE
  <2>1. b \div 2^p <= a \div 2^p
    BY <1>3, <1>11, <1>16, DivisionGrows
  <2> QED
    BY <1>3, <1>11, <1>12, <1>13, <1>14, <1>15, <2>1
<1> QED
  BY <1>3, <1>16

\* Sizes of a later bin are larger.
LEMMA LaterIsLarger ==
  ASSUME NEW i \in 0..NTREEBINS - 1, NEW j \in 0..NTREEBINS - 1, i < j,
         NEW a, NEW b, LargeIn(i, a), LargeIn(j, b)
  PROVE  a < b
<1>1. NTREEBINS \in Nat \ {0} /\ i # NTREEBINS - 1
  BY BinsAssumption
<1>2. a \in Nat /\ b \in Nat /\ a < minsize_for_tree_index(i + 1) /\ minsize_for_tree_index(j) <= b
  <2>1. a < minsize_for_tree_index(i + 1)
    BY <1>1, IndexOfSize DEF LargeIn
  <2>2. minsize_for_tree_index(j) <= b
    BY IndexOfSize DEF LargeIn
  <2> QED
    BY <2>1, <2>2 DEF LargeIn
<1> DEFINE T == {u \in 0..NTREEBINS - 1 : i < u /\ ~(minsize_for_tree_index(i + 1) <= minsize_for_tree_index(u))}
<1>3. \A u \in 0..NTREEBINS - 2 :
        /\ minsize_for_tree_index(u) \in Nat
        /\ minsize_for_tree_index(u + 1) \in Nat
        /\ minsize_for_tree_index(u) < minsize_for_tree_index(u + 1)
  <2> SUFFICES ASSUME NEW u \in 0..NTREEBINS - 2
               PROVE  /\ minsize_for_tree_index(u) \in Nat
                      /\ minsize_for_tree_index(u + 1) \in Nat
                      /\ minsize_for_tree_index(u) < minsize_for_tree_index(u + 1)
    OBVIOUS
  <2>1. u \in 0..NTREEBINS - 1 /\ u # NTREEBINS - 1
    BY <1>1
  <2>2. PICK e : e = TopBit(u) + 1
    OBVIOUS
  <2>3. /\ 2^e \in Nat \ {0} /\ minsize_for_tree_index(u) = (2 + (u % 2)) * 2^e
        /\ minsize_for_tree_index(u + 1) = minsize_for_tree_index(u) + 2^e
    BY <2>1, <2>2, BinOfBits
  <2>4. u % 2 \in 0..1
    BY <2>1
  <2>5. minsize_for_tree_index(u) \in Nat
    BY <2>3, <2>4
  <2> QED
    BY <2>3, <2>5
<1>4. ASSUME T # {} PROVE FALSE
  <2>1. PICK u \in T : \A v \in T : u <= v
    <3>1. T \in SUBSET Nat
      OBVIOUS
    <3> QED
      BY <1>4, <3>1, LeastNumber
  <2>2. u \in 0..NTREEBINS - 1 /\ i < u /\ ~(minsize_for_tree_index(i + 1) <= minsize_for_tree_index(u))
    BY <2>1
  <2>3. i \in 0..NTREEBINS - 2
    BY <1>1
  <2>4. u # i + 1
    BY <1>3, <2>2, <2>3
  <2>5. u - 1 \in 0..NTREEBINS - 2 /\ i < u - 1 /\ u - 1 < u /\ (u - 1) + 1 = u
    BY <1>1, <2>2, <2>4
  <2>6. minsize_for_tree_index(i + 1) <= minsize_for_tree_index(u - 1)
    <3>1. PICK w \in Nat : w = u - 1 /\ w \in 0..NTREEBINS - 1 /\ i < w /\ ~(u <= w)
      BY <1>1, <2>2, <2>5
    <3>2. w \notin T
      BY <2>1, <3>1
    <3> QED
      BY <3>1, <3>2
  <2>7. minsize_for_tree_index(u - 1) < minsize_for_tree_index(u) /\ minsize_for_tree_index(u - 1) \in Nat
        /\ minsize_for_tree_index(u) \in Nat
    BY <1>3, <2>5
  <2>8. minsize_for_tree_index(i + 1) \in Nat
    BY <1>3, <2>3
  <2> QED
    BY <2>2, <2>6, <2>7, <2>8
<1>5. minsize_for_tree_index(i + 1) <= minsize_for_tree_index(j)
  BY <1>4
<1>6. minsize_for_tree_index(j) \in Nat /\ minsize_for_tree_index(i + 1) \in Nat
  <2>1. i \in 0..NTREEBINS - 2 /\ j - 1 \in 0..NTREEBINS - 2 /\ (j - 1) + 1 = j
    BY <1>1
  <2> QED
    BY <1>3, <2>1
<1> QED
  BY <1>2, <1>5, <1>6

-----------------------------------------------------------------------------
(* Walks in the tries. *)

Depths == 0..WordBits

\* The walk from r that goes from x to G[d][x] at depth d.
WalkFrom(f, r, G) == f = [d \in Depths |-> IF d = 0 THEN r ELSE G[d - 1][f[d - 1]]]

\* A walk of as many steps as there are depths exists, wherever its steps lead.
LEMMA WalkExists ==
  ASSUME NEW X, NEW r \in X, NEW G \in [Depths -> [X -> X]]
  PROVE  \E f \in [Depths -> X] : WalkFrom(f, r, G)
<1>1. WordBits \in Nat
  BY SizesAssumption
<1> DEFINE Goes(w, f) == f[0] = r /\ \A d \in 0..w - 1 : f[d + 1] = G[d][f[d]]
           T == {w \in Depths : ~ \E f \in [0..w -> X] : Goes(w, f)}
<1>2. ASSUME T # {} PROVE FALSE
  <2>1. PICK w \in T : \A v \in T : w <= v
    <3>1. T \in SUBSET Nat
      BY DEF Depths
    <3> QED
      BY <1>2, <3>1, LeastNumber
  <2>2. w \in Nat /\ w \in Depths
    BY <2>1 DEF Depths
  <2>3. w # 0
    <3>1. PICK f : f = [d \in 0..0 |-> r]
      OBVIOUS
    <3>2. f \in [0..0 -> X] /\ f[0] = r /\ 0..0 - 1 = {}
      BY <3>1
    <3>3. Goes(0, f)
      BY <3>2
    <3> QED
      BY <2>1, <3>2, <3>3
  <2>4. PICK v \in Nat : v = w - 1 /\ v \in Depths /\ w = v + 1 /\ ~(w <= v)
    BY <1>1, <2>2, <2>3 DEF Depths
  <2>5. PICK f \in [0..v -> X] : Goes(v, f)
    BY <2>1, <2>4
  <2>6. PICK g : g = [d \in 0..w |-> IF d <= v THEN f[d] ELSE G[v][f[v]]]
    OBVIOUS
  <2>7. G[v][f[v]] \in X
    BY <2>4
  <2>8. g \in [0..w -> X]
    BY <2>4, <2>6, <2>7
  <2>9. Goes(w, g)
    <3>1. g[0] = r
      BY <2>4, <2>5, <2>6
    <3>2. ASSUME NEW d \in 0..w - 1 PROVE g[d + 1] = G[d][g[d]]
      <4>1. CASE d = v
        BY <2>4, <2>6, <4>1
      <4>2. CASE d # v
        <5>1. d \in 0..v - 1 /\ d + 1 <= v /\ d <= v /\ d + 1 \in 0..w /\ d \in 0..w
          BY <2>4, <4>2
        <5>2. g[d + 1] = f[d + 1] /\ g[d] = f[d]
          BY <2>6, <5>1
        <5> QED
          BY <2>5, <5>1, <5>2
      <4> QED
        BY <4>1, <4>2
    <3> QED
      BY <3>1, <3>2
  <2> QED
    BY <2>1, <2>8, <2>9
<1>3. PICK f \in [0..WordBits -> X] : Goes(WordBits, f)
  <2>1. WordBits \in Depths
    BY <1>1 DEF Depths
  <2> QED
    BY <1>2, <2>1
<1>4. ASSUME NEW d \in Depths PROVE f[d] = IF d = 0 THEN r ELSE G[d - 1][f[d - 1]]
  <2>1. CASE d = 0
    BY <1>3, <2>1
  <2>2. CASE d # 0
    <3>1. d - 1 \in 0..WordBits - 1 /\ (d - 1) + 1 = d
      BY <1>1, <2>2 DEF Depths
    <3> QED
      BY <1>3, <2>2, <3>1
  <2> QED
    BY <2>1, <2>2
<1>5. f = [d \in Depths |-> f[d]]
  BY DEF Depths
<1>6. f = [d \in Depths |-> IF d = 0 THEN r ELSE G[d - 1][f[d - 1]]]
  BY <1>4, <1>5
<1> QED
  BY <1>3, <1>6 DEF Depths, WalkFrom

\* The links of the tries lead to their nodes.
Linked(s) ==
  /\ \A i \in 0..NTREEBINS - 1 : s.treebins[i] \in DOMAIN s.tree \cup {Null}
  /\ \A t \in DOMAIN s.tree, e \in 1..2 : s.tree[t].child[e] \in DOMAIN s.tree \cup {Null}

\* The steps of a walk that stays in the trie, and what it meets.
Steps(s, at) ==
  /\ at \in [Depths -> DOMAIN s.tree \cup {Null}]
  /\ \A d \in 0..WordBits - 1 : at[d] = Null => at[d + 1] = Null

\* The bits of a size are zero or one.
LEMMA ChildIs ==
  ASSUME NEW i \in 0..NTREEBINS - 1, NEW z \in Nat, NEW d \in Nat
  PROVE  ChildFor(i, z, d) \in 1..2
<1>1. PICK h : h = TopBit(i) + 1
  OBVIOUS
<1>2. h \in Nat /\ (\A k \in 0..h : 2^k \in Nat \ {0}) /\ (\A k \in 0..h - 1 : 2^(k + 1) = 2 * 2^k)
  BY <1>1, TrieBits
<1>3. PICK e : e = TopBit(i) - d
  OBVIOUS
<1>4. TopBit(i) \in Int /\ h = TopBit(i) + 1
  BY <1>1, BinsAssumption, SizesAssumption DEF TopBit
<1>5. BitOf(z, e) \in 0..1
  <2>1. CASE e < 0
    BY <2>1 DEF BitOf
  <2>2. CASE ~(e < 0)
    <3>1. e \in 0..h - 1 /\ e \in Nat /\ e \in 0..h
      BY <1>2, <1>3, <1>4, <2>2
    <3>2. 2^e \in Nat \ {0} /\ 2^(e + 1) = 2 * 2^e
      BY <1>2, <3>1
    <3> QED
      BY <3>1, <3>2, OneBitMore
  <2> QED
    BY <2>1, <2>2
<1>6. ChildFor(i, z, d) = 1 + BitOf(z, e)
  BY <1>3, Zenon DEF ChildFor
<1> QED
  BY <1>5, <1>6

\* One step of a search.
Sought(s, i, z, t, d) ==
  IF t = Null \/ SizeOf(s, t) = z THEN Null ELSE s.tree[t].child[ChildFor(i, z, d)]

LEMMA SearchSteps ==
  ASSUME NEW s, Linked(s), NEW i \in 0..NTREEBINS - 1, NEW z \in Nat,
         NEW at, at = SearchAt(s, i, z)
  PROVE  /\ Steps(s, at) /\ at[0] = s.treebins[i]
         /\ \A d \in 0..WordBits - 1 : at[d + 1] = Sought(s, i, z, at[d], d)
<1> DEFINE X == DOMAIN s.tree \cup {Null}
           G == [d \in Depths |-> [t \in X |-> Sought(s, i, z, t, d)]]
           r == s.treebins[i]
<1>1. WordBits \in Nat
  BY SizesAssumption
<1>2. \A d \in Depths, t \in X : Sought(s, i, z, t, d) \in X
  <2> SUFFICES ASSUME NEW d \in Depths, NEW t \in X PROVE Sought(s, i, z, t, d) \in X
    OBVIOUS
  <2>1. ChildFor(i, z, d) \in 1..2
    BY <1>1, ChildIs DEF Depths
  <2>2. t # Null => s.tree[t].child[ChildFor(i, z, d)] \in X
    BY <2>1 DEF Linked
  <2> QED
    BY <2>2 DEF Sought
<1>3. G \in [Depths -> [X -> X]] /\ r \in X
  BY <1>2 DEF Linked
<1>4. PICK f \in [Depths -> X] : WalkFrom(f, r, G)
  <2> HIDE DEF X, G, r
  <2> QED
    BY <1>3, WalkExists
<1>5. \A d \in Depths : d # 0 => d - 1 \in Depths /\ f[d - 1] \in X
  BY <1>1 DEF Depths
<1>6. \A d \in Depths : d # 0 => G[d - 1][f[d - 1]] = Sought(s, i, z, f[d - 1], d - 1)
  BY <1>5
<1>7. f = [d \in Depths |-> IF d = 0 THEN r ELSE Sought(s, i, z, f[d - 1], d - 1)]
  <2> HIDE DEF G, X, r
  <2>1. \A d \in Depths : f[d] = IF d = 0 THEN r ELSE Sought(s, i, z, f[d - 1], d - 1)
    BY <1>4, <1>6 DEF WalkFrom
  <2> QED
    BY <1>4, <2>1
<1> DEFINE Is(g) == g = [d \in Depths |-> IF d = 0 THEN r ELSE Sought(s, i, z, g[d - 1], d - 1)]
<1>8. at = CHOOSE g : Is(g)
  BY DEF SearchAt, Sought, Depths
<1>9. Is(at)
  <2>1. Is(f)
    BY <1>7
  <2> HIDE DEF Is
  <2> QED
    BY <1>8, <2>1
<1>10. \A d \in Depths : at[d] = IF d = 0 THEN r ELSE Sought(s, i, z, at[d - 1], d - 1)
  BY <1>9
<1>11. at[0] = r
  BY <1>1, <1>10 DEF Depths
<1>12. \A d \in 0..WordBits - 1 : at[d + 1] = Sought(s, i, z, at[d], d)
  <2> SUFFICES ASSUME NEW d \in 0..WordBits - 1 PROVE at[d + 1] = Sought(s, i, z, at[d], d)
    OBVIOUS
  <2>1. d + 1 \in Depths /\ d + 1 # 0 /\ (d + 1) - 1 = d
    BY <1>1 DEF Depths
  <2> QED
    BY <1>10, <2>1
<1> DEFINE T == {d \in Depths : at[d] \notin X}
<1>13. ASSUME T # {} PROVE FALSE
  <2>1. PICK d \in T : \A v \in T : d <= v
    <3>1. T \in SUBSET Nat
      BY DEF Depths
    <3> QED
      BY <1>13, <3>1, LeastNumber
  <2>2. d # 0
    BY <1>3, <1>11, <2>1
  <2>3. PICK v \in Nat : v = d - 1 /\ v \in Depths /\ ~(d <= v) /\ v + 1 = d /\ v \in 0..WordBits - 1
    BY <1>1, <2>1, <2>2 DEF Depths
  <2>4. at[v] \in X
    BY <2>1, <2>3
  <2> QED
    BY <1>2, <1>12, <2>1, <2>3, <2>4
<1>14. at \in [Depths -> X]
  <2>1. at = [d \in Depths |-> at[d]]
    BY <1>9
  <2>2. \A d \in Depths : at[d] \in X
    BY <1>13
  <2> QED
    BY <2>1, <2>2
<1> QED
  BY <1>11, <1>12, <1>14 DEF Steps, Sought

\* One step of a descent.
Descended(s, side, t) ==
  IF t = Null THEN Null
  ELSE IF s.tree[t].child[side] # Null THEN s.tree[t].child[side] ELSE s.tree[t].child[3 - side]

LEMMA DescentSteps ==
  ASSUME NEW s, Linked(s), NEW r \in DOMAIN s.tree \cup {Null}, NEW side \in 1..2,
         NEW at, at = DescentAt(s, r, side)
  PROVE  /\ Steps(s, at) /\ at[0] = r
         /\ \A d \in 0..WordBits - 1 : at[d + 1] = Descended(s, side, at[d])
<1> DEFINE X == DOMAIN s.tree \cup {Null}
           G == [d \in Depths |-> [t \in X |-> Descended(s, side, t)]]
<1>1. WordBits \in Nat
  BY SizesAssumption
<1>2. \A t \in X : Descended(s, side, t) \in X
  <2>1. side \in 1..2 /\ 3 - side \in 1..2
    OBVIOUS
  <2> QED
    BY <2>1 DEF Linked, Descended
<1>3. G \in [Depths -> [X -> X]] /\ r \in X
  BY <1>2
<1>4. PICK f \in [Depths -> X] : WalkFrom(f, r, G)
  <2> HIDE DEF X, G
  <2> QED
    BY <1>3, WalkExists
<1>5. \A d \in Depths : d # 0 => d - 1 \in Depths /\ f[d - 1] \in X
  BY <1>1 DEF Depths
<1>6. \A d \in Depths : d # 0 => G[d - 1][f[d - 1]] = Descended(s, side, f[d - 1])
  BY <1>5
<1>7. f = [d \in Depths |-> IF d = 0 THEN r ELSE Descended(s, side, f[d - 1])]
  <2> HIDE DEF G, X
  <2>1. \A d \in Depths : f[d] = IF d = 0 THEN r ELSE Descended(s, side, f[d - 1])
    BY <1>4, <1>6 DEF WalkFrom
  <2> QED
    BY <1>4, <2>1
<1> DEFINE Is(g) == g = [d \in Depths |-> IF d = 0 THEN r ELSE Descended(s, side, g[d - 1])]
<1>8. at = CHOOSE g : Is(g)
  BY DEF DescentAt, Descended, Depths
<1>9. Is(at)
  <2>1. Is(f)
    BY <1>7
  <2> HIDE DEF Is
  <2> QED
    BY <1>8, <2>1
<1>10. \A d \in Depths : at[d] = IF d = 0 THEN r ELSE Descended(s, side, at[d - 1])
  BY <1>9
<1>11. at[0] = r
  BY <1>1, <1>10 DEF Depths
<1>12. \A d \in 0..WordBits - 1 : at[d + 1] = Descended(s, side, at[d])
  <2> SUFFICES ASSUME NEW d \in 0..WordBits - 1 PROVE at[d + 1] = Descended(s, side, at[d])
    OBVIOUS
  <2>1. d + 1 \in Depths /\ d + 1 # 0 /\ (d + 1) - 1 = d
    BY <1>1 DEF Depths
  <2> QED
    BY <1>10, <2>1
<1> DEFINE T == {d \in Depths : at[d] \notin X}
<1>13. ASSUME T # {} PROVE FALSE
  <2>1. PICK d \in T : \A v \in T : d <= v
    <3>1. T \in SUBSET Nat
      BY DEF Depths
    <3> QED
      BY <1>13, <3>1, LeastNumber
  <2>2. d # 0
    BY <1>3, <1>11, <2>1
  <2>3. PICK v \in Nat : v = d - 1 /\ v \in Depths /\ ~(d <= v) /\ v + 1 = d /\ v \in 0..WordBits - 1
    BY <1>1, <2>1, <2>2 DEF Depths
  <2>4. at[v] \in X
    BY <2>1, <2>3
  <2> QED
    BY <1>2, <1>12, <2>1, <2>3, <2>4
<1>14. at \in [Depths -> X]
  <2>1. at = [d \in Depths |-> at[d]]
    BY <1>9
  <2>2. \A d \in Depths : at[d] \in X
    BY <1>13
  <2> QED
    BY <2>1, <2>2
<1> QED
  BY <1>11, <1>12, <1>14 DEF Steps, Descended

\* What a walk passes, until it ends.
LEMMA PassedIs ==
  ASSUME NEW s, NEW at, Steps(s, at)
  PROVE  \E h \in 0..WordBits + 1 :
           /\ Passed(at) = [k \in 1..h |-> at[k - 1]]
           /\ \A d \in Depths : d < h <=> at[d] # Null
<1>1. WordBits \in Nat
  BY SizesAssumption
<1>2. at = [d \in Depths |-> at[d]] /\ DOMAIN at = Depths
  BY DEF Steps
<1> DEFINE End(h) == (h \in DOMAIN at => at[h] = Null) /\ \A d \in 0..h - 1 : at[d] # Null
           T == {h \in 0..WordBits + 1 : h \in Depths => at[h] = Null}
<1>3. PICK h \in T : \A v \in T : h <= v
  <2>1. WordBits + 1 \in T
    BY <1>1 DEF Depths
  <2>2. T \in SUBSET Nat
    BY <1>1
  <2> QED
    BY <2>1, <2>2, LeastNumber
<1>4. \A d \in 0..h - 1 : at[d] # Null
  <2> SUFFICES ASSUME NEW d \in 0..h - 1, at[d] = Null PROVE FALSE
    OBVIOUS
  <2>1. d \in T /\ ~(h <= d)
    BY <1>1, <1>3
  <2> QED
    BY <1>3, <2>1
<1>5. End(h) /\ h \in 0..WordBits + 1
  BY <1>2, <1>3, <1>4
<1>6. PICK g : g = CHOOSE v \in 0..WordBits + 1 : End(v)
  OBVIOUS
<1>7. g \in 0..WordBits + 1 /\ End(g)
  <2> HIDE DEF End
  <2> QED
    BY <1>5, <1>6
<1>8. Passed(at) = [k \in 1..g |-> at[k - 1]]
  BY <1>6 DEF Passed
<1>9. \A d \in 0..g - 1 : at[d] # Null
  BY <1>7
<1>10. \A d \in Depths : g <= d => at[d] = Null
  <2> DEFINE U == {d \in Depths : g <= d /\ at[d] # Null}
  <2>1. ASSUME U # {} PROVE FALSE
    <3>1. PICK d \in U : \A v \in U : d <= v
      <4>1. U \in SUBSET Nat
        BY DEF Depths
      <4> QED
        BY <2>1, <4>1, LeastNumber
    <3>2. d # g
      BY <1>2, <1>7, <3>1
    <3>3. PICK v \in Nat : v = d - 1 /\ v \in Depths /\ ~(d <= v) /\ v + 1 = d /\ v \in 0..WordBits - 1 /\ g <= v
      BY <1>1, <1>7, <3>1, <3>2 DEF Depths
    <3>4. at[v] = Null
      BY <3>1, <3>3
    <3>5. at[v + 1] = Null
      BY <3>3, <3>4 DEF Steps
    <3> QED
      BY <3>1, <3>3, <3>5
  <2> QED
    BY <2>1
<1>11. \A d \in Depths : d < g <=> at[d] # Null
  <2>1. \A d \in Depths : d \in Nat /\ (d < g => d \in 0..g - 1) /\ (~(d < g) => g <= d)
    BY <1>1, <1>7 DEF Depths
  <2> QED
    BY <1>9, <1>10, <2>1
<1> QED
  BY <1>7, <1>8, <1>11

\* The nodes a walk passes.
LEMMA PassedNodes ==
  ASSUME NEW s, NEW at, Steps(s, at)
  PROVE  ToSet(Passed(at)) = {at[d] : d \in {e \in Depths : at[e] # Null}}
<1>1. PICK h \in 0..WordBits + 1 : /\ Passed(at) = [k \in 1..h |-> at[k - 1]]
                                   /\ \A d \in Depths : d < h <=> at[d] # Null
  BY PassedIs
<1>2. WordBits \in Nat /\ h \in Nat
  BY <1>1, SizesAssumption
<1>3. ToSet(Passed(at)) = {at[k - 1] : k \in 1..h}
  <2>1. PICK path : path = Passed(at) /\ path = [k \in 1..h |-> at[k - 1]]
    BY <1>1
  <2>2. DOMAIN path = 1..h /\ \A k \in 1..h : path[k] = at[k - 1]
    BY <2>1
  <2>3. ToSet(path) = {path[k] : k \in 1..h}
    BY <2>2 DEF ToSet
  <2>4. {path[k] : k \in 1..h} = {at[k - 1] : k \in 1..h}
    BY <2>2
  <2> QED
    BY <2>1, <2>3, <2>4
<1>4. ASSUME NEW k \in 1..h PROVE k - 1 \in Depths /\ at[k - 1] # Null
  <2>1. k - 1 \in Depths /\ k - 1 < h
    BY <1>1, <1>2 DEF Depths
  <2> QED
    BY <1>1, <2>1
<1>5. ASSUME NEW d \in Depths, at[d] # Null PROVE \E k \in 1..h : k - 1 = d
  <2>1. d < h /\ d \in Nat
    BY <1>1, <1>5 DEF Depths
  <2>2. d + 1 \in 1..h /\ (d + 1) - 1 = d
    BY <1>2, <2>1
  <2> QED
    BY <2>2
<1> QED
  BY <1>3, <1>4, <1>5

\* What the search relies on, of an mspace s.
Sound(s) ==
  /\ TriesSound(s)
  /\ DOMAIN s.treebins = 0..NTREEBINS - 1
  /\ Null \notin DOMAIN s.tree /\ InBin \notin DOMAIN s.tree
  /\ \A t \in DOMAIN s.tree :
       /\ TreeIndex(SizeOf(s, t)) \in 0..NTREEBINS - 1
       /\ LargeIn(TreeIndex(SizeOf(s, t)), SizeOf(s, t))

IndexOf(s, t) == TreeIndex(SizeOf(s, t))

\* The search for the size of a node.
Own(s, t) == SearchAt(s, IndexOf(s, t), SizeOf(s, t))

\* Parents and children.
Ties(s) ==
  /\ \A i \in 0..NTREEBINS - 1 :
       s.treebins[i] # Null =>
         IndexOf(s, s.treebins[i]) = i /\ s.tree[s.treebins[i]].parent = InBin
  /\ \A t \in DOMAIN s.tree, e \in 1..2 :
       LET c == s.tree[t].child[e]
       IN  c # Null => /\ s.tree[c].parent = t
                       /\ \A f \in 1..2 : s.tree[t].child[f] = c => f = e

LEMMA SoundTies ==
  ASSUME NEW s, Sound(s)
  PROVE  Linked(s) /\ Ties(s)
<1>1. /\ \A i \in 0..NTREEBINS - 1 :
           s.treebins[i] # Null =>
             /\ s.treebins[i] \in DOMAIN s.tree
             /\ TreeIndex(SizeOf(s, s.treebins[i])) = i /\ s.tree[s.treebins[i]].parent = InBin
      /\ \A t \in DOMAIN s.tree :
           /\ \A e \in 1..2 : s.tree[t].child[e] # Null =>
                /\ s.tree[t].child[e] \in DOMAIN s.tree
                /\ s.tree[s.tree[t].child[e]].parent = t
           /\ s.tree[t].child[1] = s.tree[t].child[2] => s.tree[t].child[1] = Null
  BY DEF Sound, TriesSound
<1>2. Linked(s)
  BY <1>1 DEF Linked
<1>3. ASSUME NEW t \in DOMAIN s.tree, NEW e \in 1..2, s.tree[t].child[e] # Null,
             NEW f \in 1..2, s.tree[t].child[f] = s.tree[t].child[e]
      PROVE  f = e
  <2>1. e \in {1, 2} /\ f \in {1, 2}
    OBVIOUS
  <2> QED
    BY <1>1, <1>3, <2>1
<1>4. Ties(s)
  BY <1>1, <1>3 DEF Ties, IndexOf
<1> QED
  BY <1>2, <1>4

LEMMA OneSide ==
  ASSUME NEW s, Ties(s), NEW t \in DOMAIN s.tree, NEW e \in 1..2, NEW f \in 1..2,
         s.tree[t].child[e] = s.tree[t].child[f], s.tree[t].child[f] # Null
  PROVE  e = f
<1>1. \A g \in 1..2 : s.tree[t].child[g] = s.tree[t].child[f] => g = f
  BY DEF Ties
<1> QED
  BY <1>1

\* A walk downward: each node it comes to is a child of the one before.
Climbs(s, at) ==
  /\ Steps(s, at)
  /\ at[0] # Null => s.tree[at[0]].parent = InBin
  /\ \A d \in 0..WordBits - 1 : at[d + 1] # Null => s.tree[at[d + 1]].parent = at[d]

LEMMA SearchClimbs ==
  ASSUME NEW s, Sound(s), NEW i \in 0..NTREEBINS - 1, NEW z \in Nat,
         NEW at, at = SearchAt(s, i, z)
  PROVE  Climbs(s, at)
<1>1. Linked(s) /\ Ties(s)
  BY SoundTies
<1>2. /\ Steps(s, at) /\ at[0] = s.treebins[i]
      /\ \A d \in 0..WordBits - 1 : at[d + 1] = Sought(s, i, z, at[d], d)
  BY <1>1, SearchSteps
<1>3. at[0] # Null => s.tree[at[0]].parent = InBin
  BY <1>1, <1>2 DEF Ties
<1>4. ASSUME NEW d \in 0..WordBits - 1, at[d + 1] # Null
      PROVE  s.tree[at[d + 1]].parent = at[d]
  <2>1. at[d] # Null /\ at[d + 1] = s.tree[at[d]].child[ChildFor(i, z, d)]
    BY <1>2, <1>4 DEF Sought
  <2>2. at[d] \in DOMAIN s.tree
    <3>1. d \in Depths
      BY SizesAssumption DEF Depths
    <3> QED
      BY <1>2, <2>1, <3>1 DEF Steps
  <2>3. ChildFor(i, z, d) \in 1..2
    BY ChildIs
  <2> QED
    BY <1>1, <1>4, <2>1, <2>2, <2>3 DEF Ties
<1> QED
  BY <1>2, <1>3, <1>4 DEF Climbs

\* Walks that come to the same node came the same way.
LEMMA WalksMeet ==
  ASSUME NEW s, Sound(s), NEW at, NEW bt, Climbs(s, at), Climbs(s, bt),
         NEW d \in Depths, NEW e \in Depths, at[d] = bt[e], at[d] # Null
  PROVE  d = e /\ \A f \in 0..d : at[f] = bt[f] /\ at[f] \in DOMAIN s.tree
<1>1. WordBits \in Nat /\ d \in 0..WordBits /\ e \in 0..WordBits
  BY SizesAssumption DEF Depths
<1>2. /\ Null \notin DOMAIN s.tree /\ InBin \notin DOMAIN s.tree
      /\ \A f \in 0..WordBits :
           /\ at[f] # Null => at[f] \in DOMAIN s.tree
           /\ bt[f] # Null => bt[f] \in DOMAIN s.tree
  BY DEF Sound, Climbs, Steps, Depths
<1>3. \A f \in 0..WordBits - 1 :
        /\ at[f] = Null => at[f + 1] = Null
        /\ at[f + 1] # Null => s.tree[at[f + 1]].parent = at[f]
        /\ bt[f] = Null => bt[f + 1] = Null
        /\ bt[f + 1] # Null => s.tree[bt[f + 1]].parent = bt[f]
  BY DEF Climbs, Steps
<1>4. (at[0] # Null => s.tree[at[0]].parent = InBin) /\ (bt[0] # Null => s.tree[bt[0]].parent = InBin)
  BY DEF Climbs
<1> DEFINE Met(u) == at[d - u] = bt[e - u] /\ at[d - u] # Null
           T == {u \in Nat : u <= d /\ u <= e /\ ~Met(u)}
<1>5. ASSUME T # {} PROVE FALSE
  <2>1. PICK u \in T : \A v \in T : u <= v
    <3>1. T \in SUBSET Nat
      OBVIOUS
    <3> QED
      BY <1>5, <3>1, LeastNumber
  <2>2. u # 0
    BY <1>1, <2>1
  <2>3. PICK v \in Nat : v = u - 1 /\ v <= d /\ v <= e /\ ~(u <= v) /\ u <= d /\ u <= e
    BY <1>1, <2>1, <2>2
  <2>4. at[d - v] = bt[e - v] /\ at[d - v] # Null
    <3>1. v \notin T
      BY <2>1, <2>3
    <3> QED
      BY <2>3, <3>1
  <2>5. PICK f \in Nat, g \in Nat : f = d - u /\ g = e - u /\ f + 1 = d - v /\ g + 1 = e - v
                                    /\ f \in 0..WordBits - 1 /\ g \in 0..WordBits - 1
    BY <1>1, <2>1, <2>2, <2>3
  <2>6. at[f + 1] = bt[g + 1] /\ at[f + 1] # Null
    BY <2>4, <2>5
  <2>7. at[f] = bt[g] /\ at[f] # Null
    BY <1>3, <2>5, <2>6
  <2> QED
    BY <2>1, <2>5, <2>7
<1>6. \A u \in Nat : u <= d /\ u <= e => Met(u)
  BY <1>5
<1>7. d = e
  <2>1. ASSUME d < e PROVE FALSE
    <3>1. PICK g \in Nat : g = (e - d) - 1 /\ g + 1 = e - d /\ g \in 0..WordBits - 1
      BY <1>1, <2>1
    <3>2. Met(d)
      BY <1>1, <1>6, <2>1
    <3>3. at[0] = bt[g + 1] /\ at[0] # Null
      BY <1>1, <3>1, <3>2
    <3>4. s.tree[bt[g + 1]].parent = bt[g] /\ bt[g] # Null /\ s.tree[at[0]].parent = InBin
      BY <1>3, <1>4, <3>1, <3>3
    <3>5. g \in 0..WordBits
      BY <1>1, <3>1
    <3>6. bt[g] \in DOMAIN s.tree
      BY <1>2, <3>4, <3>5
    <3>7. bt[g] = InBin
      BY <3>3, <3>4
    <3> QED
      BY <1>2, <3>6, <3>7
  <2>2. ASSUME e < d PROVE FALSE
    <3>1. PICK g \in Nat : g = (d - e) - 1 /\ g + 1 = d - e /\ g \in 0..WordBits - 1
      BY <1>1, <2>2
    <3>2. Met(e)
      BY <1>1, <1>6, <2>2
    <3>3. bt[0] = at[g + 1] /\ bt[0] # Null
      BY <1>1, <3>1, <3>2
    <3>4. s.tree[at[g + 1]].parent = at[g] /\ at[g] # Null /\ s.tree[bt[0]].parent = InBin
      BY <1>3, <1>4, <3>1, <3>3
    <3>5. g \in 0..WordBits
      BY <1>1, <3>1
    <3>6. at[g] \in DOMAIN s.tree
      BY <1>2, <3>4, <3>5
    <3>7. at[g] = InBin
      BY <3>3, <3>4
    <3> QED
      BY <1>2, <3>6, <3>7
  <2> QED
    BY <1>1, <2>1, <2>2
<1>8. ASSUME NEW f \in 0..d PROVE at[f] = bt[f] /\ at[f] \in DOMAIN s.tree
  <2>1. PICK u \in Nat : u = d - f /\ u <= d /\ u <= e /\ d - u = f /\ e - u = f /\ f \in 0..WordBits
    BY <1>1, <1>7
  <2>2. Met(u)
    BY <1>6, <2>1
  <2>3. at[f] = bt[f] /\ at[f] # Null
    BY <2>1, <2>2
  <2> QED
    BY <1>2, <2>1, <2>3
<1> QED
  BY <1>7, <1>8

\* The depth of a node in its trie.
AtDepth(s, t, d) == t \in DOMAIN s.tree /\ d \in Depths /\ Own(s, t)[d] = t

LEMMA HasDepth ==
  ASSUME NEW s, Sound(s), NEW t \in DOMAIN s.tree
  PROVE  \E d \in Depths : AtDepth(s, t, d)
<1>1. PICK at, path : at = Own(s, t) /\ path = Passed(at)
  OBVIOUS
<1>2. IndexOf(s, t) \in 0..NTREEBINS - 1 /\ SizeOf(s, t) \in Nat
  BY DEF Sound, LargeIn, IndexOf
<1>3. path # <<>> /\ Last(path) = t
  <2>1. SearchPath(s, TreeIndex(SizeOf(s, t)), SizeOf(s, t)) = path
    BY <1>1 DEF SearchPath, Own, IndexOf
  <2>2. TriesSound(s)
    BY DEF Sound
  <2> QED
    BY <2>1, <2>2 DEF TriesSound
<1>4. Steps(s, at)
  BY <1>1, <1>2, SearchClimbs DEF Own, Climbs
<1>5. PICK h \in 0..WordBits + 1 : path = [k \in 1..h |-> at[k - 1]]
  BY <1>1, <1>4, PassedIs
<1>6. WordBits \in Nat /\ h \in Nat
  BY SizesAssumption
<1>7. DOMAIN path = 1..h /\ Len(path) = h /\ \A k \in 1..h : path[k] = at[k - 1]
  BY <1>5, <1>6
<1>8. h # 0
  <2>1. h = 0 => path = <<>>
    BY <1>5
  <2> QED
    BY <1>3, <2>1
<1>9. Last(path) = at[h - 1] /\ h - 1 \in Depths
  <2>1. h \in 1..h /\ h - 1 \in 0..WordBits
    BY <1>6, <1>8
  <2> QED
    BY <1>7, <2>1 DEF Last, Depths
<1> QED
  BY <1>1, <1>3, <1>9 DEF AtDepth

\* Two sizes go the same way in the first d steps in bin i.
Agree(i, a, b, d) == \A f \in 0..d - 1 : ChildFor(i, a, f) = ChildFor(i, b, f)

\* Two walks are the same for d steps.
SameWay(s, at, bt, d) == \A f \in 0..d : at[f] = bt[f] /\ at[f] \in DOMAIN s.tree

LEMMA OnPath ==
  ASSUME NEW s, Sound(s), NEW i \in 0..NTREEBINS - 1, NEW z \in Nat, NEW d \in Depths,
         NEW at, at = SearchAt(s, i, z), NEW t, t = at[d], t # Null
  PROVE  /\ AtDepth(s, t, d) /\ IndexOf(s, t) = i
         /\ SameWay(s, at, Own(s, t), d)
         /\ Agree(i, z, SizeOf(s, t), d)
         /\ \A f \in 0..d - 1 : SizeOf(s, at[f]) # z
<1>1. Climbs(s, at) /\ Linked(s) /\ Ties(s)
  BY SearchClimbs, SoundTies
<1>2. t \in DOMAIN s.tree
  BY <1>1 DEF Climbs, Steps
<1>3. PICK e \in Depths : AtDepth(s, t, e)
  BY <1>2, HasDepth
<1>4. PICK j, y, bt : j = IndexOf(s, t) /\ y = SizeOf(s, t) /\ bt = Own(s, t) /\ bt = SearchAt(s, j, y)
  BY DEF Own
<1>5. j \in 0..NTREEBINS - 1 /\ y \in Nat
  BY <1>2, <1>4 DEF Sound, LargeIn, IndexOf
<1>6. Climbs(s, bt)
  BY <1>4, <1>5, SearchClimbs
<1>7. bt[e] = t
  BY <1>3, <1>4 DEF AtDepth
<1>8. d = e /\ SameWay(s, at, bt, d)
  <2>1. d = e /\ \A f \in 0..d : at[f] = bt[f] /\ at[f] \in DOMAIN s.tree
    BY <1>1, <1>6, <1>7, WalksMeet
  <2> QED
    BY <2>1 DEF SameWay
<1>9. /\ at[0] = s.treebins[i]
      /\ \A f \in 0..WordBits - 1 : at[f + 1] = Sought(s, i, z, at[f], f)
  BY <1>1, SearchSteps
<1>10. /\ bt[0] = s.treebins[j]
       /\ \A f \in 0..WordBits - 1 : bt[f + 1] = Sought(s, j, y, bt[f], f)
  BY <1>1, <1>4, <1>5, SearchSteps
<1>11. WordBits \in Nat /\ d \in 0..WordBits
  BY SizesAssumption DEF Depths
<1>12. i = j
  <2>1. 0 \in 0..d
    BY <1>11
  <2>2. at[0] = bt[0] /\ at[0] # Null
    BY <1>8, <2>1 DEF SameWay, Sound
  <2>3. IndexOf(s, at[0]) = i
    BY <1>1, <1>9, <2>2 DEF Ties
  <2>4. IndexOf(s, bt[0]) = j
    BY <1>1, <1>5, <1>10, <2>2 DEF Ties
  <2> QED
    BY <2>2, <2>3, <2>4
<1>13. ASSUME NEW f \in 0..d - 1
       PROVE  ChildFor(i, z, f) = ChildFor(i, y, f) /\ SizeOf(s, at[f]) # z
  <2>1. f \in 0..WordBits - 1 /\ f \in 0..d /\ f + 1 \in 0..d /\ f \in Nat
    BY <1>11
  <2>2. at[f + 1] = bt[f + 1] /\ at[f + 1] # Null /\ at[f] = bt[f] /\ at[f] \in DOMAIN s.tree
    BY <1>8, <2>1 DEF SameWay, Sound
  <2>3. at[f + 1] = s.tree[at[f]].child[ChildFor(i, z, f)] /\ SizeOf(s, at[f]) # z
    BY <1>9, <2>1, <2>2 DEF Sought
  <2>4. bt[f + 1] = s.tree[bt[f]].child[ChildFor(j, y, f)]
    BY <1>10, <2>1, <2>2 DEF Sought
  <2>5. ChildFor(i, z, f) \in 1..2 /\ ChildFor(j, y, f) \in 1..2
    BY <1>5, <2>1, ChildIs
  <2>6. s.tree[at[f]].child[ChildFor(i, z, f)] = s.tree[at[f]].child[ChildFor(i, y, f)]
        /\ s.tree[at[f]].child[ChildFor(i, y, f)] # Null
    BY <1>12, <2>2, <2>3, <2>4
  <2>7. ChildFor(i, z, f) = ChildFor(i, y, f)
    BY <1>1, <1>12, <2>2, <2>5, <2>6, OneSide
  <2> QED
    BY <2>3, <2>7
<1> QED
  BY <1>3, <1>4, <1>8, <1>12, <1>13 DEF Agree

\* A child is one deeper than its parent, on the side its size goes to.
LEMMA ChildDeeper ==
  ASSUME NEW s, Sound(s), NEW t, NEW d, AtDepth(s, t, d), NEW e \in 1..2,
         NEW c, c = s.tree[t].child[e], c # Null
  PROVE  /\ d + 1 \in Depths /\ AtDepth(s, c, d + 1) /\ IndexOf(s, c) = IndexOf(s, t)
         /\ ChildFor(IndexOf(s, t), SizeOf(s, c), d) = e
         /\ SameWay(s, Own(s, c), Own(s, t), d)
         /\ Agree(IndexOf(s, t), SizeOf(s, c), SizeOf(s, t), d)
<1>1. Linked(s) /\ Ties(s) /\ t \in DOMAIN s.tree /\ d \in Depths /\ t # Null
  BY SoundTies DEF AtDepth, Sound
<1>2. c \in DOMAIN s.tree /\ s.tree[c].parent = t
  BY <1>1 DEF Linked, Ties
<1>3. PICK k \in Depths : AtDepth(s, c, k)
  BY <1>2, HasDepth
<1>4. PICK i, z, at : i = IndexOf(s, c) /\ z = SizeOf(s, c) /\ at = Own(s, c) /\ at = SearchAt(s, i, z)
  BY DEF Own
<1>5. i \in 0..NTREEBINS - 1 /\ z \in Nat
  BY <1>2, <1>4 DEF Sound, LargeIn, IndexOf
<1>6. Climbs(s, at) /\ at[k] = c
  BY <1>3, <1>4, <1>5, SearchClimbs DEF AtDepth
<1>7. WordBits \in Nat /\ k \in 0..WordBits
  BY SizesAssumption DEF Depths
<1>8. k # 0
  <2>1. InBin \notin DOMAIN s.tree
    BY DEF Sound
  <2> QED
    BY <1>1, <1>2, <1>6, <2>1 DEF Climbs
<1>9. PICK v \in Nat : v = k - 1 /\ v + 1 = k /\ v \in 0..WordBits - 1 /\ v \in Depths
  BY <1>7, <1>8 DEF Depths
<1>10. at[v] = t
  BY <1>2, <1>6, <1>9 DEF Climbs
<1>11. /\ AtDepth(s, t, v) /\ IndexOf(s, t) = i
       /\ SameWay(s, at, Own(s, t), v)
       /\ Agree(i, z, SizeOf(s, t), v)
  <2>1. /\ i \in 0..NTREEBINS - 1 /\ z \in Nat /\ v \in Depths
        /\ at = SearchAt(s, i, z) /\ t = at[v] /\ t # Null
    BY <1>1, <1>4, <1>5, <1>9, <1>10
  <2> QED
    BY <2>1, OnPath
<1>12. v = d
  <2>1. PICK bt : bt = Own(s, t)
    OBVIOUS
  <2>2. IndexOf(s, t) \in 0..NTREEBINS - 1 /\ SizeOf(s, t) \in Nat
    BY <1>1 DEF Sound, LargeIn, IndexOf
  <2>3. Climbs(s, bt)
    BY <2>1, <2>2, SearchClimbs DEF Own
  <2>4. bt[v] = t /\ bt[d] = t
    BY <1>11, <2>1 DEF AtDepth
  <2> QED
    BY <1>1, <1>9, <2>3, <2>4, WalksMeet
<1>13. ChildFor(i, z, v) = e
  <2>1. at[v + 1] = Sought(s, i, z, at[v], v)
    <3>0. Linked(s) /\ i \in 0..NTREEBINS - 1 /\ z \in Nat /\ at = SearchAt(s, i, z)
      BY <1>1, <1>4, <1>5
    <3>1. \A f \in 0..WordBits - 1 : at[f + 1] = Sought(s, i, z, at[f], f)
      BY <3>0, SearchSteps
    <3> QED
      BY <1>9, <3>1
  <2>2. at[v + 1] = s.tree[t].child[ChildFor(i, z, v)] /\ at[v + 1] = c
    BY <1>6, <1>9, <1>10, <2>1 DEF Sought
  <2>3. ChildFor(i, z, v) \in 1..2
    BY <1>5, <1>9, ChildIs
  <2>4. /\ s.tree[t].child[ChildFor(i, z, v)] = s.tree[t].child[e]
        /\ s.tree[t].child[e] # Null
    BY <2>2
  <2> QED
    BY <1>1, <2>3, <2>4, OneSide
<1> QED
  BY <1>3, <1>4, <1>9, <1>11, <1>12, <1>13

-----------------------------------------------------------------------------
(* Subtrees. *)

\* u is in the subtree of r, which is k deep.
Under(s, r, k, u) == u \in DOMAIN s.tree /\ IndexOf(s, u) = IndexOf(s, r) /\ Own(s, u)[k] = r

\* Index and size of a node.
LEMMA NodeSize ==
  ASSUME NEW s, Sound(s), NEW t \in DOMAIN s.tree
  PROVE  /\ IndexOf(s, t) \in 0..NTREEBINS - 1 /\ SizeOf(s, t) \in Nat
         /\ LargeIn(IndexOf(s, t), SizeOf(s, t)) /\ t # Null
BY DEF Sound, LargeIn, IndexOf

\* A node is no deeper in the trie than the last one its search comes to.
LEMMA NoDeeper ==
  ASSUME NEW s, Sound(s), NEW w, NEW d, AtDepth(s, w, d), NEW k \in Depths, Own(s, w)[k] # Null
  PROVE  k <= d
<1>1. PICK i, z, at : i = IndexOf(s, w) /\ z = SizeOf(s, w) /\ at = Own(s, w) /\ at = SearchAt(s, i, z)
  BY DEF Own
<1>2. w \in DOMAIN s.tree /\ d \in Depths /\ at[d] = w
  BY <1>1 DEF AtDepth
<1>3. i \in 0..NTREEBINS - 1 /\ z \in Nat
  BY <1>1, <1>2, NodeSize
<1>4. \A f \in 0..k - 1 : SizeOf(s, at[f]) # z
  BY <1>1, <1>3, OnPath
<1>5. d \in Nat /\ k \in Nat
  BY <1>2, SizesAssumption DEF Depths
<1>6. d \in 0..k - 1 => SizeOf(s, w) # z
  BY <1>2, <1>4
<1> QED
  BY <1>1, <1>5, <1>6

\* The node that the searches for two sizes part at decides which is larger.
LEMMA PartedSizes ==
  ASSUME NEW s, Sound(s), NEW i \in 0..NTREEBINS - 1, NEW a, NEW b, LargeIn(i, a), LargeIn(i, b),
         NEW d \in Depths, NEW at, NEW bt, at = SearchAt(s, i, a), bt = SearchAt(s, i, b),
         at[d] = bt[d], at[d] # Null, ChildFor(i, a, d) = 1, ChildFor(i, b, d) = 2
  PROVE  a < b
<1>1. a \in Nat /\ b \in Nat /\ d \in Nat
  BY SizesAssumption DEF LargeIn, Depths
<1>2. PICK x : x = at[d] /\ x = bt[d] /\ x # Null
  OBVIOUS
<1>3. Agree(i, a, SizeOf(s, x), d)
  BY <1>1, <1>2, OnPath
<1>4. Agree(i, b, SizeOf(s, x), d)
  BY <1>1, <1>2, OnPath
<1>5. \A f \in 0..d - 1 : ChildFor(i, a, f) = ChildFor(i, b, f)
  BY <1>3, <1>4 DEF Agree
<1>6. ChildFor(i, a, d) # 2 /\ ChildFor(i, b, d) # 1
  OBVIOUS
<1> QED
  BY <1>1, <1>5, <1>6, LeftIsSmaller

LEMMA ChildUnder ==
  ASSUME NEW s, Sound(s), NEW r, NEW k, AtDepth(s, r, k), NEW t, NEW d, AtDepth(s, t, d), k <= d,
         Under(s, r, k, t), NEW e \in 1..2, NEW c, c = s.tree[t].child[e], c # Null
  PROVE  Under(s, r, k, c) /\ d + 1 \in Depths /\ AtDepth(s, c, d + 1)
<1>1. /\ d + 1 \in Depths /\ AtDepth(s, c, d + 1) /\ IndexOf(s, c) = IndexOf(s, t)
      /\ SameWay(s, Own(s, c), Own(s, t), d)
  BY ChildDeeper
<1>2. k \in 0..d
  BY SizesAssumption DEF AtDepth, Depths
<1>3. Own(s, c)[k] = Own(s, t)[k]
  BY <1>1, <1>2 DEF SameWay
<1> QED
  BY <1>1, <1>3 DEF Under, AtDepth

\* A descent stays in the subtree it starts from and goes one deeper with every step.
LEMMA DescentUnder ==
  ASSUME NEW s, Sound(s), NEW r, NEW k, AtDepth(s, r, k), NEW side \in 1..2,
         NEW at, at = DescentAt(s, r, side), NEW d \in Depths, at[d] # Null
  PROVE  k + d \in Depths /\ AtDepth(s, at[d], k + d) /\ Under(s, r, k, at[d])
<1>1. WordBits \in Nat /\ k \in Nat /\ k \in Depths /\ d \in Nat
  BY SizesAssumption DEF AtDepth, Depths
<1>2. Linked(s) /\ r \in DOMAIN s.tree
  BY SoundTies DEF AtDepth
<1>3. /\ at[0] = r
      /\ \A f \in 0..WordBits - 1 : at[f + 1] = Descended(s, side, at[f])
  BY <1>2, DescentSteps
<1> DEFINE Fine(f) == k + f \in Depths /\ AtDepth(s, at[f], k + f) /\ Under(s, r, k, at[f])
           T == {f \in Depths : at[f] # Null /\ ~Fine(f)}
<1>4. ASSUME T # {} PROVE FALSE
  <2>1. PICK f \in T : \A v \in T : f <= v
    <3>1. T \in SUBSET Nat
      BY DEF Depths
    <3> QED
      BY <1>4, <3>1, LeastNumber
  <2>2. f # 0
    <3>1. k + 0 = k
      BY <1>1
    <3>2. Fine(0)
      BY <1>1, <1>2, <1>3, <3>1 DEF AtDepth, Under
    <3> QED
      BY <2>1, <3>2
  <2>3. PICK v \in Nat : v = f - 1 /\ v \in Depths /\ ~(f <= v) /\ v + 1 = f /\ v \in 0..WordBits - 1
    BY <1>1, <2>1, <2>2 DEF Depths
  <2>4. at[f] = Descended(s, side, at[v]) /\ at[f] # Null
    BY <1>3, <2>1, <2>3
  <2>5. at[v] # Null
    BY <2>4 DEF Descended
  <2>6. Fine(v)
    BY <2>1, <2>3, <2>5
  <2>7. PICK e \in 1..2 : at[f] = s.tree[at[v]].child[e]
    <3>1. side \in 1..2 /\ 3 - side \in 1..2
      OBVIOUS
    <3> QED
      BY <2>4, <2>5, <3>1 DEF Descended
  <2>8. k <= k + v /\ (k + v) + 1 = k + f
    BY <1>1, <2>3
  <2>9. /\ Under(s, r, k, at[f])
        /\ (k + v) + 1 \in Depths /\ AtDepth(s, at[f], (k + v) + 1)
    <3>1. AtDepth(s, at[v], k + v) /\ Under(s, r, k, at[v]) /\ k <= k + v
      BY <2>6, <2>8
    <3> QED
      BY <2>4, <2>7, <3>1, ChildUnder
  <2> QED
    BY <2>1, <2>8, <2>9
<1> QED
  BY <1>4

\* What a descent to the left passes.
LEMMA LeftmostUnder ==
  ASSUME NEW s, Sound(s), NEW r, NEW k, AtDepth(s, r, k)
  PROVE  /\ r \in LeftmostPath(s, r)
         /\ \A u \in LeftmostPath(s, r) : Under(s, r, k, u)
<1>1. PICK at : at = DescentAt(s, r, 1)
  OBVIOUS
<1>2. Steps(s, at) /\ at[0] = r
  <2>1. Linked(s) /\ r \in DOMAIN s.tree \cup {Null} /\ 1 \in 1..2
    BY SoundTies DEF AtDepth
  <2> QED
    BY <1>1, <2>1, DescentSteps
<1>3. LeftmostPath(s, r) = {at[d] : d \in {e \in Depths : at[e] # Null}}
  BY <1>1, <1>2, PassedNodes DEF LeftmostPath
<1>4. r # Null /\ 0 \in Depths
  BY NodeSize, SizesAssumption DEF AtDepth, Depths
<1>5. ASSUME NEW d \in Depths, at[d] # Null PROVE Under(s, r, k, at[d])
  <2>1. 1 \in 1..2
    OBVIOUS
  <2> QED
    BY <1>1, <1>5, <2>1, DescentUnder
<1> QED
  BY <1>2, <1>3, <1>4, <1>5

\* A descent to the left passes a node that is no larger than any in the subtree.
LEMMA LeftmostIsSmall ==
  ASSUME NEW s, Sound(s), NEW r, NEW k, AtDepth(s, r, k), NEW w, Under(s, r, k, w)
  PROVE  \E u \in LeftmostPath(s, r) : SizeOf(s, u) <= SizeOf(s, w)
<1>1. PICK at : at = DescentAt(s, r, 1)
  OBVIOUS
<1>2. PICK i, z, wt : /\ i = IndexOf(s, w) /\ z = SizeOf(s, w)
                      /\ wt = Own(s, w) /\ wt = SearchAt(s, i, z)
  BY DEF Own
<1>3. Linked(s) /\ Ties(s) /\ r \in DOMAIN s.tree /\ w \in DOMAIN s.tree /\ k \in Depths
  BY SoundTies DEF AtDepth, Under
<1>4. /\ Steps(s, at) /\ at[0] = r
      /\ \A f \in 0..WordBits - 1 : at[f + 1] = Descended(s, 1, at[f])
  <2>1. Linked(s) /\ r \in DOMAIN s.tree \cup {Null} /\ 1 \in 1..2
    BY <1>3
  <2> QED
    BY <1>1, <2>1, DescentSteps
<1>5. LeftmostPath(s, r) = {at[d] : d \in {e \in Depths : at[e] # Null}}
  BY <1>1, <1>4, PassedNodes DEF LeftmostPath
<1>6. PICK d \in Depths : AtDepth(s, w, d)
  BY <1>3, HasDepth
<1>7. /\ i \in 0..NTREEBINS - 1 /\ z \in Nat /\ LargeIn(i, z) /\ w # Null /\ r # Null
      /\ wt[k] = r /\ wt[d] = w /\ IndexOf(s, r) = i
  BY <1>2, <1>3, <1>6, NodeSize DEF Under, AtDepth
<1>8. WordBits \in Nat /\ k \in 0..WordBits /\ d \in 0..WordBits /\ k <= d
  <2>1. k <= d
    BY <1>2, <1>3, <1>6, <1>7, NoDeeper
  <2> QED
    BY <1>3, <2>1, SizesAssumption DEF Depths
<1>9. \A f \in 0..WordBits - 1 : wt[f + 1] = Sought(s, i, z, wt[f], f)
  BY <1>2, <1>3, <1>7, SearchSteps
<1>10. \A f \in 0..d : wt[f] \in DOMAIN s.tree
  <2>1. SameWay(s, wt, Own(s, w), d)
    BY <1>2, <1>6, <1>7, OnPath
  <2> QED
    BY <2>1 DEF SameWay
<1> DEFINE T == {f \in 0..d - k : at[f] # wt[k + f]}
<1>11. CASE T = {}
  <2>1. d - k \in 0..d - k /\ k + (d - k) = d /\ d - k \in Depths
    BY <1>8 DEF Depths
  <2>2. at[d - k] = w
    BY <1>7, <1>11, <2>1
  <2>3. w \in LeftmostPath(s, r)
    BY <1>5, <1>7, <2>1, <2>2
  <2> QED
    BY <1>2, <1>7, <2>3
<1>12. CASE T # {}
  <2>1. PICK f \in T : \A v \in T : f <= v
    <3>1. T \in SUBSET Nat
      BY <1>8
    <3> QED
      BY <1>12, <3>1, LeastNumber
  <2>2. f # 0
    BY <1>4, <1>7, <1>8, <2>1
  <2>3. PICK v, g \in Nat : /\ v \in Nat /\ v = f - 1 /\ v + 1 = f /\ ~(f <= v) /\ v \in 0..d - k
                            /\ v \in 0..WordBits - 1 /\ f \in 0..WordBits
                            /\ g = k + v /\ g + 1 = k + f /\ g \in 0..WordBits - 1
                            /\ g \in 0..d /\ g + 1 \in 0..d
    BY <1>8, <2>1, <2>2
  <2>4. at[v] = wt[g] /\ at[f] # wt[g + 1]
    <3>1. v \notin T
      BY <2>1, <2>3
    <3> QED
      BY <2>1, <2>3, <3>1
  <2>5. PICK x : x = at[v] /\ x = wt[g] /\ x \in DOMAIN s.tree
    BY <1>10, <2>3, <2>4
  <2>6. x # Null /\ v \in Depths
    BY <1>8, <2>3, <2>5, NodeSize DEF Depths
  <2>7. wt[g + 1] # Null /\ wt[g + 1] = s.tree[x].child[ChildFor(i, z, g)]
    <3>1. wt[g + 1] = Sought(s, i, z, x, g)
      BY <1>9, <2>3, <2>5
    <3>2. wt[g + 1] # Null
      BY <1>10, <2>3, NodeSize
    <3> QED
      BY <3>1, <3>2 DEF Sought
  <2>8. ChildFor(i, z, g) \in {1, 2}
    <3>1. ChildFor(i, z, g) \in 1..2
      BY <1>7, <2>3, ChildIs
    <3> QED
      BY <3>1
  <2>9. at[f] = Descended(s, 1, x) /\ 3 - 1 = 2
    <3>1. at[v + 1] = Descended(s, 1, at[v])
      BY <1>4, <2>3
    <3> QED
      BY <2>3, <2>5, <3>1
  <2>10. /\ s.tree[x].child[1] # Null /\ at[f] = s.tree[x].child[1]
         /\ ChildFor(i, z, g) = 2
    BY <2>4, <2>6, <2>7, <2>8, <2>9 DEF Descended
  <2>11. PICK u : u = at[f] /\ u # Null
    BY <2>10
  <2>12. AtDepth(s, x, g) /\ IndexOf(s, x) = i
    <3>1. g \in Depths
      BY <1>8, <2>3 DEF Depths
    <3> QED
      BY <1>2, <1>7, <2>5, <2>6, <3>1, OnPath
  <2>13. /\ IndexOf(s, u) = i /\ u \in DOMAIN s.tree
         /\ ChildFor(i, SizeOf(s, u), g) = 1
         /\ Own(s, u)[g] = x
    <3>1. 1 \in 1..2
      OBVIOUS
    <3>2. /\ AtDepth(s, u, g + 1) /\ IndexOf(s, u) = IndexOf(s, x)
          /\ ChildFor(IndexOf(s, x), SizeOf(s, u), g) = 1
          /\ SameWay(s, Own(s, u), Own(s, x), g)
      BY <2>10, <2>11, <2>12, <3>1, ChildDeeper
    <3>3. g \in 0..g
      BY <2>3
    <3> QED
      BY <2>12, <3>2, <3>3 DEF AtDepth, SameWay
  <2>14. SizeOf(s, u) < z
    <3>1. PICK ut : ut = Own(s, u) /\ ut = SearchAt(s, i, SizeOf(s, u))
      BY <2>13 DEF Own
    <3>2. LargeIn(i, SizeOf(s, u))
      BY <2>13, NodeSize
    <3>3. g \in Depths /\ ut[g] = wt[g] /\ ut[g] # Null
      BY <1>8, <2>3, <2>5, <2>6, <2>13, <3>1 DEF Depths
    <3> QED
      BY <1>2, <1>7, <2>10, <2>13, <3>1, <3>2, <3>3, PartedSizes
  <2>15. u \in LeftmostPath(s, r)
    <3>1. f \in Depths
      BY <2>3 DEF Depths
    <3> QED
      BY <1>5, <2>11, <3>1
  <2> QED
    BY <1>2, <1>7, <2>13, <2>14, <2>15, NodeSize
<1> QED
  BY <1>11, <1>12

-----------------------------------------------------------------------------
(* The best fit. *)

LEMMA LeastIn ==
  ASSUME NEW S \in SUBSET Nat, S # {}
  PROVE  Min(S) \in S /\ \A x \in S : Min(S) <= x
<1>1. \E x \in S : \A y \in S : x <= y
  BY LeastNumber
<1> QED
  BY <1>1 DEF Min

LEMMA GreatestIn ==
  ASSUME NEW h \in Nat, NEW S \in SUBSET (1..h), S # {}
  PROVE  Max(S) \in S /\ \A x \in S : x <= Max(S)
<1> DEFINE T == {h - x : x \in S}
<1>1. PICK y \in T : \A v \in T : y <= v
  <2>1. \A x \in S : x \in 1..h /\ h - x \in Nat
    OBVIOUS
  <2>2. T \in SUBSET Nat
    BY <2>1
  <2>3. T # {}
    OBVIOUS
  <2> QED
    BY <2>2, <2>3, LeastNumber
<1>2. PICK x \in S : y = h - x
  BY <1>1
<1>3. \A v \in S : v <= x
  <2> SUFFICES ASSUME NEW v \in S PROVE v <= x
    OBVIOUS
  <2>1. h - x <= h - v
    BY <1>1, <1>2
  <2> QED
    BY <2>1
<1>4. \E g \in S : \A v \in S : g >= v
  BY <1>3
<1>5. Max(S) \in S /\ \A v \in S : Max(S) >= v
  BY <1>4 DEF Max
<1>6. \A v \in S : v \in Nat
  OBVIOUS
<1> QED
  BY <1>5, <1>6

\* v is the best of these chunks for nb bytes, Null if none is large enough.
Best(s, S, nb, v) ==
  /\ v # Null => v \in S /\ nb <= SizeOf(s, v)
  /\ \A u \in S : nb <= SizeOf(s, u) => v # Null /\ SizeOf(s, v) <= SizeOf(s, u)

LEMMA BestOfIs ==
  ASSUME NEW s, NEW S, \A v \in S : SizeOf(s, v) \in Nat /\ v # Null, NEW nb \in Nat
  PROVE  Best(s, S, nb, BestOf(s, S, nb))
<1> DEFINE fits == {v \in S : SizeOf(s, v) >= nb}
<1>1. \A v \in S : SizeOf(s, v) \in Nat /\ v # Null
  OBVIOUS
<1>2. CASE fits = {}
  <2>1. BestOf(s, S, nb) = Null
    BY <1>2 DEF BestOf
  <2>2. \A u \in S : ~(nb <= SizeOf(s, u))
    BY <1>1, <1>2
  <2> QED
    BY <2>1, <2>2 DEF Best
<1>3. CASE fits # {}
  <2>1. PICK y \in {SizeOf(s, v) : v \in fits} : \A x \in {SizeOf(s, v) : v \in fits} : y <= x
    <3>1. {SizeOf(s, v) : v \in fits} \in SUBSET Nat /\ {SizeOf(s, v) : v \in fits} # {}
      BY <1>1, <1>3
    <3> QED
      BY <3>1, LeastNumber
  <2>2. \E v \in fits : \A w \in fits : SizeOf(s, v) <= SizeOf(s, w)
    BY <2>1
  <2>3. PICK b : b = BestOf(s, S, nb) /\ b \in fits /\ \A w \in fits : SizeOf(s, b) <= SizeOf(s, w)
    <3>1. BestOf(s, S, nb) = CHOOSE v \in fits : \A w \in fits : SizeOf(s, v) <= SizeOf(s, w)
      BY <1>3 DEF BestOf
    <3> HIDE DEF fits
    <3> QED
      BY <2>2, <3>1
  <2> QED
    BY <1>1, <2>3 DEF Best
<1> QED
  BY <1>2, <1>3

\* Where a node is, there is a root.
LEMMA RootOfBin ==
  ASSUME NEW s, Sound(s), NEW w \in DOMAIN s.tree
  PROVE  /\ s.treebins[IndexOf(s, w)] # Null
         /\ Under(s, s.treebins[IndexOf(s, w)], 0, w)
<1>1. PICK i, z, wt : /\ i = IndexOf(s, w) /\ z = SizeOf(s, w)
                      /\ wt = Own(s, w) /\ wt = SearchAt(s, i, z)
  BY DEF Own
<1>2. PICK d \in Depths : AtDepth(s, w, d)
  BY HasDepth
<1>3. i \in 0..NTREEBINS - 1 /\ z \in Nat /\ w # Null /\ Linked(s) /\ Ties(s)
  BY <1>1, NodeSize, SoundTies
<1>4. SameWay(s, wt, Own(s, w), d)
  <2>1. w = wt[d]
    BY <1>1, <1>2 DEF AtDepth
  <2> QED
    BY <1>1, <1>3, <2>1, OnPath
<1>5. 0 \in 0..d /\ 0 \in Depths
  BY SizesAssumption DEF Depths
<1>6. wt[0] \in DOMAIN s.tree /\ wt[0] # Null
  BY <1>4, <1>5, NodeSize DEF SameWay
<1>7. wt[0] = s.treebins[i]
  BY <1>1, <1>3, SearchSteps
<1>8. IndexOf(s, wt[0]) = i
  BY <1>3, <1>6, <1>7 DEF Ties
<1> QED
  BY <1>1, <1>6, <1>7, <1>8 DEF Under

LEMMA RootDepth ==
  ASSUME NEW s, Sound(s), NEW i \in 0..NTREEBINS - 1, NEW r, r = s.treebins[i], r # Null
  PROVE  AtDepth(s, r, 0) /\ IndexOf(s, r) = i
<1>1. r \in DOMAIN s.tree /\ IndexOf(s, r) = i
  BY SoundTies DEF Linked, Ties
<1>2. Under(s, s.treebins[IndexOf(s, r)], 0, r)
  BY <1>1, RootOfBin
<1>3. 0 \in Depths
  BY SizesAssumption DEF Depths
<1>4. Own(s, r)[0] = r
  BY <1>1, <1>2 DEF Under
<1> QED
  BY <1>1, <1>3, <1>4 DEF AtDepth

\* The leftmost path of the first tree that is not too small holds the best fit.
LEMMA FirstTree ==
  ASSUME NEW s, Sound(s), NEW j \in 0..NTREEBINS - 1, NEW r, r = s.treebins[j], r # Null, NEW nb \in Nat,
         \A t \in DOMAIN s.tree : j <= IndexOf(s, t) => nb <= SizeOf(s, t),
         NEW v, v = BestOf(s, LeftmostPath(s, r), nb)
  PROVE  /\ v # Null /\ v \in DOMAIN s.tree /\ nb <= SizeOf(s, v)
         /\ \A w \in DOMAIN s.tree : j <= IndexOf(s, w) => SizeOf(s, v) <= SizeOf(s, w)
<1>1. AtDepth(s, r, 0) /\ IndexOf(s, r) = j /\ r \in DOMAIN s.tree /\ j \in Nat
  BY RootDepth DEF AtDepth
<1>2. /\ r \in LeftmostPath(s, r)
      /\ \A u \in LeftmostPath(s, r) : u \in DOMAIN s.tree /\ IndexOf(s, u) = j
  BY <1>1, LeftmostUnder DEF Under
<1>3. Best(s, LeftmostPath(s, r), nb, v)
  <2>1. \A u \in LeftmostPath(s, r) : SizeOf(s, u) \in Nat /\ u # Null
    BY <1>2, NodeSize
  <2> QED
    BY <2>1, BestOfIs
<1>4. \A u \in LeftmostPath(s, r) : nb <= SizeOf(s, u)
  BY <1>1, <1>2
<1>5. /\ v # Null /\ v \in LeftmostPath(s, r) /\ nb <= SizeOf(s, v)
      /\ \A u \in LeftmostPath(s, r) : SizeOf(s, v) <= SizeOf(s, u)
  BY <1>2, <1>3, <1>4 DEF Best
<1>6. ASSUME NEW w \in DOMAIN s.tree, j <= IndexOf(s, w)
      PROVE  SizeOf(s, v) <= SizeOf(s, w)
  <2>1. SizeOf(s, w) \in Nat /\ SizeOf(s, v) \in Nat /\ IndexOf(s, w) \in 0..NTREEBINS - 1
    BY <1>2, <1>5, NodeSize
  <2>2. CASE IndexOf(s, w) = j
    <3>1. Under(s, r, 0, w)
      BY <2>2, RootOfBin
    <3>2. PICK u \in LeftmostPath(s, r) : SizeOf(s, u) <= SizeOf(s, w)
      BY <1>1, <3>1, LeftmostIsSmall
    <3>3. SizeOf(s, u) \in Nat /\ SizeOf(s, v) <= SizeOf(s, u)
      BY <1>2, <1>5, <3>2, NodeSize
    <3> QED
      BY <2>1, <3>2, <3>3
  <2>3. CASE IndexOf(s, w) # j
    <3>1. j < IndexOf(s, w)
      BY <1>6, <2>1, <2>3
    <3>2. LargeIn(j, SizeOf(s, v)) /\ LargeIn(IndexOf(s, w), SizeOf(s, w))
      BY <1>2, <1>5, NodeSize
    <3>3. SizeOf(s, v) < SizeOf(s, w)
      BY <2>1, <3>1, <3>2, LaterIsLarger
    <3> QED
      BY <2>1, <3>3
  <2> QED
    BY <2>2, <2>3
<1> QED
  BY <1>2, <1>5, <1>6

\* tmalloc_small finds the best fit in any tree.
LEMMA SmallFitIsBest ==
  ASSUME NEW s, Sound(s), NEW nb \in Nat, NonEmptyTrees(s) # {},
         \A t \in DOMAIN s.tree : nb <= SizeOf(s, t)
  PROVE  Best(s, DOMAIN s.tree, nb, SmallFit(s, nb)) /\ SmallFit(s, nb) # Null
<1>1. PICK j : j = Min(NonEmptyTrees(s))
  OBVIOUS
<1>2. NonEmptyTrees(s) \in SUBSET Nat
  BY DEF NonEmptyTrees
<1>3. j \in NonEmptyTrees(s) /\ \A i \in NonEmptyTrees(s) : j <= i
  BY <1>1, <1>2, LeastIn
<1>4. PICK r, v : r = s.treebins[j] /\ v = BestOf(s, LeftmostPath(s, r), nb) /\ v = SmallFit(s, nb)
  BY <1>1 DEF SmallFit
<1>5. j \in 0..NTREEBINS - 1 /\ r # Null
  BY <1>3, <1>4 DEF NonEmptyTrees
<1>6. ASSUME NEW w \in DOMAIN s.tree PROVE j <= IndexOf(s, w)
  <2>1. IndexOf(s, w) \in NonEmptyTrees(s)
    BY NodeSize, RootOfBin DEF NonEmptyTrees
  <2> QED
    BY <1>3, <2>1
<1>7. /\ v # Null /\ v \in DOMAIN s.tree /\ nb <= SizeOf(s, v)
      /\ \A w \in DOMAIN s.tree : j <= IndexOf(s, w) => SizeOf(s, v) <= SizeOf(s, w)
  BY <1>4, <1>5, FirstTree
<1> QED
  BY <1>4, <1>6, <1>7 DEF Best

\* c is the child, d + 1 deep, on the right of a node where the search for nb goes left: all
\* below it is larger.
LargerAside(s, i, nb, at, d, c) ==
  /\ d + 1 \in Depths /\ AtDepth(s, c, d + 1) /\ IndexOf(s, c) = i
  /\ SameWay(s, Own(s, c), at, d) /\ Agree(i, SizeOf(s, c), nb, d)
  /\ \A u : Under(s, c, d + 1, u) => nb < SizeOf(s, u)

LEMMA RightSubtree ==
  ASSUME NEW s, Sound(s), NEW i \in 0..NTREEBINS - 1, NEW nb, LargeIn(i, nb),
         NEW at, at = SearchAt(s, i, nb), NEW d \in Depths, NEW x, x = at[d], x # Null,
         NEW c, c = s.tree[x].child[2], c # Null, ChildFor(i, nb, d) = 1
  PROVE  LargerAside(s, i, nb, at, d, c)
<1>1. nb \in Nat /\ d \in Nat /\ 2 \in 1..2 /\ d \in 0..d
  BY SizesAssumption DEF LargeIn, Depths
<1>2. /\ AtDepth(s, x, d) /\ IndexOf(s, x) = i
      /\ SameWay(s, at, Own(s, x), d) /\ Agree(i, nb, SizeOf(s, x), d)
  BY <1>1, OnPath
<1>3. /\ d + 1 \in Depths /\ AtDepth(s, c, d + 1) /\ IndexOf(s, c) = i
      /\ ChildFor(i, SizeOf(s, c), d) = 2
      /\ SameWay(s, Own(s, c), Own(s, x), d)
      /\ Agree(i, SizeOf(s, c), SizeOf(s, x), d)
  <2>1. /\ d + 1 \in Depths /\ AtDepth(s, c, d + 1) /\ IndexOf(s, c) = IndexOf(s, x)
        /\ ChildFor(IndexOf(s, x), SizeOf(s, c), d) = 2
        /\ SameWay(s, Own(s, c), Own(s, x), d)
        /\ Agree(IndexOf(s, x), SizeOf(s, c), SizeOf(s, x), d)
    BY <1>1, <1>2, ChildDeeper
  <2> QED
    BY <1>2, <2>1
<1>4. SameWay(s, Own(s, c), at, d)
  BY <1>2, <1>3 DEF SameWay
<1>5. Agree(i, SizeOf(s, c), nb, d)
  BY <1>2, <1>3 DEF Agree
<1>6. ASSUME NEW u, Under(s, c, d + 1, u) PROVE nb < SizeOf(s, u)
  <2>1. PICK z, ut : z = SizeOf(s, u) /\ ut = Own(s, u) /\ ut = SearchAt(s, i, z)
    BY <1>3, <1>6 DEF Own, Under
  <2>2. u \in DOMAIN s.tree /\ IndexOf(s, u) = i /\ ut[d + 1] = c
    BY <1>3, <1>6, <2>1 DEF Under
  <2>3. LargeIn(i, z) /\ z \in Nat
    BY <2>1, <2>2, NodeSize
  <2>4. SameWay(s, ut, Own(s, c), d + 1) /\ Agree(i, z, SizeOf(s, c), d + 1)
    BY <1>3, <2>1, <2>2, <2>3, OnPath
  <2>5. d \in 0..d + 1 /\ d \in 0..(d + 1) - 1
    BY <1>1
  <2>6. ut[d] = Own(s, c)[d] /\ ChildFor(i, z, d) = 2
    BY <1>3, <2>4, <2>5 DEF SameWay, Agree
  <2>7. at[d] = ut[d]
    BY <1>1, <1>4, <2>6 DEF SameWay
  <2>8. at[d] # Null /\ ut = SearchAt(s, i, z) /\ ChildFor(i, z, d) = 2
    BY <2>1, <2>6
  <2>9. nb < z
    BY <2>3, <2>7, <2>8, PartedSizes
  <2> QED
    BY <2>1, <2>9
<1> QED
  BY <1>3, <1>4, <1>5, <1>6 DEF LargerAside

\* From nowhere, no way leads on.
LEMMA NoPathFromNull ==
  ASSUME NEW s, Linked(s)
  PROVE  LeftmostPath(s, Null) = {}
<1>1. PICK at : at = DescentAt(s, Null, 1)
  OBVIOUS
<1>2. Steps(s, at) /\ at[0] = Null
  <2>1. Null \in DOMAIN s.tree \cup {Null} /\ 1 \in 1..2
    OBVIOUS
  <2> QED
    BY <1>1, <2>1, DescentSteps
<1>3. PICK h \in 0..WordBits + 1 : \A d \in Depths : d < h <=> at[d] # Null
  BY <1>2, PassedIs
<1>4. WordBits \in Nat /\ h \in Nat /\ 0 \in Depths
  BY SizesAssumption DEF Depths
<1>5. \A d \in Depths : at[d] = Null
  <2>1. h = 0
    BY <1>2, <1>3, <1>4
  <2>2. \A d \in Depths : ~(d < h)
    BY <1>4, <2>1 DEF Depths
  <2> QED
    BY <1>3, <2>2
<1> QED
  BY <1>1, <1>2, <1>5, PassedNodes DEF LeftmostPath

\* The search, after h steps that found a node, leaves aside the child on the right of its k-th node.
Turn(s, at, h, k) ==
  /\ k \in 1..h /\ s.tree[at[k - 1]].child[2] # Null
  /\ k < h => s.tree[at[k - 1]].child[2] # at[k]

\* at is the search for nb in bin i, and finds h nodes.
Searched(s, i, nb, at, h) ==
  /\ i \in 0..NTREEBINS - 1 /\ LargeIn(i, nb) /\ at = SearchAt(s, i, nb)
  /\ h \in 0..WordBits + 1 /\ \A d \in Depths : d < h <=> at[d] # Null

LEMMA UntakenIs ==
  ASSUME NEW s, NEW at, NEW h \in Nat, NEW path, path = [k \in 1..h |-> at[k - 1]],
         NEW c, c = UntakenRight(s, path)
  PROVE  \/ c = Null /\ \A k : ~Turn(s, at, h, k)
         \/ \E k : /\ Turn(s, at, h, k) /\ c = s.tree[at[k - 1]].child[2]
                   /\ \A f : Turn(s, at, h, f) => f <= k
<1> DEFINE right(k) == s.tree[path[k]].child[2]
           left == {k \in 1..Len(path) : right(k) # Null /\ (k < Len(path) => right(k) # path[k + 1])}
<1>1. Len(path) = h /\ \A k \in 1..h : path[k] = at[k - 1]
  OBVIOUS
<1>2. c = IF left = {} THEN Null ELSE right(Max(left))
  BY DEF UntakenRight
<1>3. \A k : k \in left <=> Turn(s, at, h, k)
  <2> SUFFICES ASSUME NEW k \in 1..h PROVE k \in left <=> Turn(s, at, h, k)
    BY <1>1 DEF Turn
  <2>1. k < h => k + 1 \in 1..h /\ (k + 1) - 1 = k
    OBVIOUS
  <2>2. k < h => path[k + 1] = at[k]
    BY <1>1, <2>1
  <2> QED
    BY <1>1, <2>2 DEF Turn
<1>4. left \in SUBSET (1..h)
  BY <1>1
<1> HIDE DEF left
<1>5. CASE left = {}
  BY <1>2, <1>3, <1>5
<1>6. CASE left # {}
  <2>1. PICK k : k = Max(left)
    OBVIOUS
  <2>2. k \in left /\ \A f \in left : f <= k
    BY <1>4, <1>6, <2>1, GreatestIn
  <2>3. c = s.tree[at[k - 1]].child[2]
    <3>1. k \in 1..h
      BY <1>4, <2>2
    <3> QED
      BY <1>1, <1>2, <1>6, <2>1, <3>1
  <2> QED
    BY <1>3, <2>2, <2>3
<1> QED
  BY <1>5, <1>6

\* Where it leaves a child on the right aside, the search goes left.
LEMMA TurnsLeft ==
  ASSUME NEW s, Sound(s), NEW i, NEW nb, NEW at, NEW h, Searched(s, i, nb, at, h),
         SizeOf(s, at[h - 1]) # nb, NEW k, Turn(s, at, h, k)
  PROVE  k - 1 \in Depths /\ k \in Depths /\ at[k - 1] # Null /\ ChildFor(i, nb, k - 1) = 1
<1>1. /\ i \in 0..NTREEBINS - 1 /\ LargeIn(i, nb) /\ at = SearchAt(s, i, nb) /\ nb \in Nat
      /\ WordBits \in Nat /\ h \in 0..WordBits + 1 /\ k \in 1..h
  BY SizesAssumption DEF Searched, LargeIn, Turn
<1>2. PICK d \in Nat : d = k - 1 /\ d + 1 = k /\ d < h /\ d \in Depths
  BY <1>1 DEF Depths
<1>3. PICK x, c : x = at[d] /\ x # Null /\ c = s.tree[x].child[2] /\ c # Null
  BY <1>1, <1>2 DEF Searched, Turn
<1>4. AtDepth(s, x, d)
  BY <1>1, <1>2, <1>3, OnPath
<1>5. d + 1 \in Depths
  <2>1. 2 \in 1..2
    OBVIOUS
  <2> QED
    BY <1>3, <1>4, <2>1, ChildDeeper
<1>6. SizeOf(s, x) # nb
  <2>1. CASE k = h
    BY <1>2, <1>3, <2>1
  <2>2. CASE k # h
    <3>1. k < h /\ k \in Depths /\ d \in 0..k - 1
      BY <1>1, <1>2, <1>5, <2>2
    <3>2. at[k] # Null
      BY <3>1 DEF Searched
    <3>3. \A f \in 0..k - 1 : SizeOf(s, at[f]) # nb
      BY <1>1, <3>1, <3>2, OnPath
    <3> QED
      BY <1>3, <3>1, <3>3
  <2> QED
    BY <2>1, <2>2
<1>7. at[k] = s.tree[x].child[ChildFor(i, nb, d)]
  <2>1. d \in 0..WordBits - 1
    BY <1>1, <1>2, <1>5 DEF Depths
  <2>2. \A f \in 0..WordBits - 1 : at[f + 1] = Sought(s, i, nb, at[f], f)
    BY <1>1, SoundTies, SearchSteps
  <2>3. at[d + 1] = Sought(s, i, nb, x, d)
    BY <1>3, <2>1, <2>2
  <2> QED
    BY <1>2, <1>3, <1>6, <2>3 DEF Sought
<1>8. ChildFor(i, nb, d) # 2
  <2>1. ASSUME at[k] = c PROVE FALSE
    <3>1. k < h
      BY <1>2, <1>3, <1>5, <2>1 DEF Searched
    <3> QED
      BY <1>2, <1>3, <2>1, <3>1 DEF Turn
  <2> QED
    BY <1>3, <1>7, <2>1
<1>9. ChildFor(i, nb, d) \in 1..2
  BY <1>1, ChildIs
<1> QED
  BY <1>2, <1>3, <1>5, <1>8, <1>9

\* The search for a node that is large enough parts from the one for nb where that one leaves
\* a child aside.
LEMMA PartsAtTurn ==
  ASSUME NEW s, Sound(s), NEW i, NEW nb, NEW at, NEW h, Searched(s, i, nb, at, h),
         SizeOf(s, at[h - 1]) # nb,
         NEW w \in DOMAIN s.tree, IndexOf(s, w) = i, nb <= SizeOf(s, w), \A d \in Depths : at[d] # w
  PROVE  \E k : /\ Turn(s, at, h, k) /\ k \in Depths
                /\ Own(s, w)[k] = s.tree[at[k - 1]].child[2]
                /\ Own(s, w)[k - 1] = at[k - 1]
                /\ ChildFor(i, SizeOf(s, w), k - 1) = 2
<1>1. /\ i \in 0..NTREEBINS - 1 /\ LargeIn(i, nb) /\ at = SearchAt(s, i, nb) /\ nb \in Nat
      /\ WordBits \in Nat /\ h \in 0..WordBits + 1 /\ Linked(s) /\ Ties(s)
  BY SoundTies, SizesAssumption DEF Searched, LargeIn
<1>2. PICK z, wt : z = SizeOf(s, w) /\ wt = Own(s, w) /\ wt = SearchAt(s, i, z)
  BY DEF Own
<1>3. PICK d \in Depths : AtDepth(s, w, d)
  BY HasDepth
<1>4. z \in Nat /\ LargeIn(i, z) /\ w # Null /\ wt[d] = w /\ d \in 0..WordBits
  BY <1>2, <1>3, NodeSize DEF AtDepth, Depths
<1>5. \A f \in 0..d : wt[f] \in DOMAIN s.tree /\ wt[f] # Null
  <2>1. w = wt[d]
    BY <1>4
  <2>2. SameWay(s, wt, Own(s, w), d)
    BY <1>1, <1>2, <1>4, <2>1, OnPath
  <2> QED
    BY <2>2, NodeSize DEF SameWay
<1>6. wt[0] = s.treebins[i] /\ \A f \in 0..WordBits - 1 : wt[f + 1] = Sought(s, i, z, wt[f], f)
  BY <1>1, <1>2, <1>4, SearchSteps
<1>7. at[0] = s.treebins[i] /\ \A f \in 0..WordBits - 1 : at[f + 1] = Sought(s, i, nb, at[f], f)
  BY <1>1, SearchSteps
<1>8. PICK k \in 0..d : at[k] # wt[k] /\ \A v \in 0..d : at[v] # wt[v] => k <= v
  <2> DEFINE T == {v \in 0..d : at[v] # wt[v]}
  <2>1. d \in T
    BY <1>4
  <2>2. T \in SUBSET Nat
    OBVIOUS
  <2>3. PICK k \in T : \A v \in T : k <= v
    BY <2>1, <2>2, LeastNumber
  <2> QED
    BY <2>3
<1>9. k # 0
  BY <1>6, <1>7, <1>8
<1>10. PICK g \in Nat : /\ g = k - 1 /\ g + 1 = k /\ g \in 0..WordBits - 1 /\ g \in Depths /\ k \in Depths
                        /\ ~(k <= g) /\ g \in 0..d
  BY <1>1, <1>4, <1>8, <1>9 DEF Depths
<1>11. PICK x : x = at[g] /\ x = wt[g] /\ x # Null /\ x \in DOMAIN s.tree
  BY <1>5, <1>8, <1>10
<1>12. g < h /\ k <= h /\ k \in 1..h
  <2>1. g < h
    BY <1>10, <1>11 DEF Searched
  <2> QED
    BY <1>1, <1>9, <1>10, <2>1
<1>13. SizeOf(s, x) # nb
  <2>1. CASE k = h
    BY <1>10, <1>11, <2>1
  <2>2. CASE k # h
    <3>1. k < h /\ g \in 0..k - 1
      BY <1>1, <1>10, <1>12, <2>2
    <3>2. at[k] # Null
      BY <1>10, <3>1 DEF Searched
    <3>3. \A f \in 0..k - 1 : SizeOf(s, at[f]) # nb
      BY <1>1, <1>10, <3>2, OnPath
    <3> QED
      BY <1>11, <3>1, <3>3
  <2> QED
    BY <2>1, <2>2
<1>14. at[k] = s.tree[x].child[ChildFor(i, nb, g)]
  <2>1. at[g + 1] = Sought(s, i, nb, x, g)
    BY <1>7, <1>10, <1>11
  <2> QED
    BY <1>10, <1>11, <1>13, <2>1 DEF Sought
<1>15. wt[k] # Null /\ wt[k] = s.tree[x].child[ChildFor(i, z, g)]
  <2>1. wt[g + 1] = Sought(s, i, z, x, g)
    BY <1>6, <1>10, <1>11
  <2>2. wt[k] # Null
    BY <1>5, <1>8
  <2> QED
    BY <1>10, <2>1, <2>2 DEF Sought
<1>16. ChildFor(i, nb, g) \in 1..2 /\ ChildFor(i, z, g) \in 1..2 /\ ChildFor(i, nb, g) # ChildFor(i, z, g)
  <2>1. ChildFor(i, nb, g) \in 1..2
    BY <1>1, ChildIs
  <2>2. ChildFor(i, z, g) \in 1..2
    BY <1>1, <1>4, ChildIs
  <2> QED
    BY <1>8, <1>14, <1>15, <2>1, <2>2
<1>17. ~(ChildFor(i, nb, g) = 2 /\ ChildFor(i, z, g) = 1)
  <2>1. ASSUME ChildFor(i, nb, g) = 2, ChildFor(i, z, g) = 1 PROVE z < nb
    <3>1. wt[g] = at[g] /\ wt[g] # Null
      BY <1>11
    <3> QED
      BY <1>1, <1>2, <1>4, <1>10, <2>1, <3>1, PartedSizes
  <2> QED
    BY <1>1, <1>2, <1>4, <2>1
<1>18. ChildFor(i, nb, g) = 1 /\ ChildFor(i, z, g) = 2
  BY <1>16, <1>17
<1>19. wt[k] = s.tree[x].child[2] /\ wt[k] # Null /\ at[k] # wt[k]
  BY <1>8, <1>15, <1>18
<1>20. Turn(s, at, h, k)
  BY <1>10, <1>11, <1>12, <1>19 DEF Turn
<1> QED
  BY <1>2, <1>10, <1>11, <1>18, <1>19, <1>20

\* The chunks that tmalloc_large looks at in the bin of nb.
Candidates(s, nb) ==
  LET path == SearchPath(s, TreeIndex(nb), nb)
      exact == path # <<>> /\ SizeOf(s, Last(path)) = nb
      rest == IF path = <<>> \/ exact THEN Null ELSE UntakenRight(s, path)
  IN  ToSet(path) \cup LeftmostPath(s, rest)

\* They are of this bin, and one of them is as good as any chunk of the bin that is large enough.
Enough(s, i, nb, S) ==
  /\ \A u \in S : u \in DOMAIN s.tree /\ IndexOf(s, u) = i
  /\ \A w \in DOMAIN s.tree : IndexOf(s, w) = i /\ nb <= SizeOf(s, w) =>
       \E u \in S : nb <= SizeOf(s, u) /\ SizeOf(s, u) <= SizeOf(s, w)

\* The search did not end at nb itself: the smallest that is larger may be in the subtree aside.
LEMMA AsideIsEnough ==
  ASSUME NEW s, Sound(s), NEW i, NEW nb, NEW at, NEW h, Searched(s, i, nb, at, h), h # 0,
         SizeOf(s, at[h - 1]) # nb,
         NEW path, path = [k \in 1..h |-> at[k - 1]],
         NEW c, c = UntakenRight(s, path),
         NEW P, P = {at[d] : d \in {e \in Depths : at[e] # Null}}
  PROVE  Enough(s, i, nb, P \cup LeftmostPath(s, c))
<1>1. /\ i \in 0..NTREEBINS - 1 /\ LargeIn(i, nb) /\ at = SearchAt(s, i, nb) /\ nb \in Nat
      /\ WordBits \in Nat /\ h \in 0..WordBits + 1 /\ h \in Nat /\ Linked(s)
  BY SoundTies, SizesAssumption DEF Searched, LargeIn
<1>2. \/ c = Null /\ \A k : ~Turn(s, at, h, k)
      \/ \E k : /\ Turn(s, at, h, k) /\ c = s.tree[at[k - 1]].child[2]
                /\ \A f : Turn(s, at, h, f) => f <= k
  <2>1. h \in Nat /\ path = [k \in 1..h |-> at[k - 1]] /\ c = UntakenRight(s, path)
    BY <1>1
  <2> QED
    BY <2>1, UntakenIs
<1>3. ASSUME NEW u \in P PROVE u \in DOMAIN s.tree /\ IndexOf(s, u) = i
  <2>1. PICK d \in Depths : u = at[d] /\ u # Null
    BY <1>3
  <2> QED
    BY <1>1, <2>1, OnPath DEF AtDepth
<1>4. CASE c = Null /\ \A k : ~Turn(s, at, h, k)
  <2>1. LeftmostPath(s, c) = {}
    BY <1>1, <1>4, NoPathFromNull
  <2>2. ASSUME NEW w \in DOMAIN s.tree, IndexOf(s, w) = i, nb <= SizeOf(s, w)
        PROVE  \E u \in P : nb <= SizeOf(s, u) /\ SizeOf(s, u) <= SizeOf(s, w)
    <3>1. ~ \A d \in Depths : at[d] # w
      BY <1>4, <2>2, PartsAtTurn
    <3>2. w \in P /\ SizeOf(s, w) \in Nat
      BY <3>1, NodeSize
    <3> QED
      BY <2>2, <3>2
  <2> QED
    BY <1>3, <2>1, <2>2 DEF Enough
<1>5. CASE \E k : /\ Turn(s, at, h, k) /\ c = s.tree[at[k - 1]].child[2]
                  /\ \A f : Turn(s, at, h, f) => f <= k
  <2>1. PICK k : /\ Turn(s, at, h, k) /\ c = s.tree[at[k - 1]].child[2]
                 /\ \A f : Turn(s, at, h, f) => f <= k
    BY <1>5
  <2>2. PICK d, x : d = k - 1 /\ x = at[d]
    OBVIOUS
  <2>3. /\ d \in Depths /\ x # Null /\ ChildFor(i, nb, d) = 1
        /\ k \in Depths /\ d \in Nat /\ d + 1 = k /\ c = s.tree[x].child[2] /\ c # Null
    <3>1. k - 1 \in Depths /\ k \in Depths /\ at[k - 1] # Null /\ ChildFor(i, nb, k - 1) = 1
      BY <2>1, TurnsLeft
    <3>2. k \in 1..h /\ s.tree[at[k - 1]].child[2] # Null
      BY <2>1 DEF Turn
    <3> QED
      BY <1>1, <2>1, <2>2, <3>1, <3>2
  <2>4. /\ AtDepth(s, c, k) /\ IndexOf(s, c) = i
        /\ SameWay(s, Own(s, c), at, d) /\ Agree(i, SizeOf(s, c), nb, d)
        /\ \A u : Under(s, c, k, u) => nb < SizeOf(s, u)
    <3>1. LargerAside(s, i, nb, at, d, c)
      BY <1>1, <2>2, <2>3, RightSubtree
    <3> QED
      BY <2>3, <3>1 DEF LargerAside
  <2>5. c \in LeftmostPath(s, c) /\ \A u \in LeftmostPath(s, c) : Under(s, c, k, u)
    BY <2>4, LeftmostUnder
  <2>6. \A u \in LeftmostPath(s, c) : /\ u \in DOMAIN s.tree /\ IndexOf(s, u) = i /\ nb < SizeOf(s, u)
                                      /\ SizeOf(s, u) \in Nat
    BY <2>4, <2>5, NodeSize DEF Under
  <2>7. ASSUME NEW w \in DOMAIN s.tree, IndexOf(s, w) = i, nb <= SizeOf(s, w)
        PROVE  \E u \in P \cup LeftmostPath(s, c) : nb <= SizeOf(s, u) /\ SizeOf(s, u) <= SizeOf(s, w)
    <3>0. SizeOf(s, w) \in Nat
      BY NodeSize
    <3>1. CASE \E e \in Depths : at[e] = w
      <4>1. w \in P
        BY <3>1, NodeSize
      <4> QED
        BY <2>7, <3>0, <4>1
    <3>2. CASE \A e \in Depths : at[e] # w
      <4>1. PICK f : /\ Turn(s, at, h, f) /\ f \in Depths
                     /\ Own(s, w)[f] = s.tree[at[f - 1]].child[2]
                     /\ Own(s, w)[f - 1] = at[f - 1]
                     /\ ChildFor(i, SizeOf(s, w), f - 1) = 2
        BY <2>7, <3>2, PartsAtTurn
      <4>2. f <= k /\ f \in 1..h /\ k \in 1..h
        BY <2>1, <4>1 DEF Turn
      <4>3. CASE f = k
        <5>1. Under(s, c, k, w)
          BY <2>1, <2>4, <2>7, <4>1, <4>3 DEF Under
        <5>2. PICK u \in LeftmostPath(s, c) : SizeOf(s, u) <= SizeOf(s, w)
          BY <2>4, <5>1, LeftmostIsSmall
        <5> QED
          BY <1>1, <2>6, <5>2
      <4>4. CASE f # k
        <5>1. PICK g \in Nat : g = f - 1 /\ g \in 0..d - 1 /\ g \in 0..d
          BY <1>1, <2>2, <4>2, <4>4
        <5>2. /\ g \in Depths /\ at[g] # Null /\ ChildFor(i, nb, g) = 1
              /\ ChildFor(i, SizeOf(s, w), g) = 2 /\ Own(s, w)[g] = at[g]
          BY <4>1, <5>1, TurnsLeft
        <5>3. ChildFor(i, SizeOf(s, c), g) = 1 /\ Own(s, c)[g] = at[g]
          BY <2>4, <5>1, <5>2 DEF Agree, SameWay
        <5>4. PICK a, b, ct, wt : /\ a = SizeOf(s, c) /\ b = SizeOf(s, w)
                                  /\ ct = Own(s, c) /\ wt = Own(s, w)
                                  /\ ct = SearchAt(s, i, a) /\ wt = SearchAt(s, i, b)
          BY <2>4, <2>7 DEF Own
        <5>5. LargeIn(i, a) /\ LargeIn(i, b) /\ a \in Nat
          BY <2>4, <2>7, <5>4, NodeSize DEF AtDepth
        <5>6. ct[g] = wt[g] /\ ct[g] # Null /\ ChildFor(i, a, g) = 1 /\ ChildFor(i, b, g) = 2
          BY <5>2, <5>3, <5>4
        <5>7. a < b
          BY <1>1, <5>2, <5>4, <5>5, <5>6, PartedSizes
        <5>8. nb <= a /\ a <= b
          BY <1>1, <2>5, <2>6, <3>0, <5>4, <5>5, <5>7
        <5> QED
          BY <2>5, <5>4, <5>8
      <4> QED
        BY <4>3, <4>4
    <3> QED
      BY <3>1, <3>2
  <2> QED
    BY <1>3, <2>6, <2>7 DEF Enough
<1> QED
  BY <1>2, <1>4, <1>5

LEMMA CandidatesAreEnough ==
  ASSUME NEW s, Sound(s), NEW i \in 0..NTREEBINS - 1, NEW nb, LargeIn(i, nb)
  PROVE  Enough(s, i, nb, Candidates(s, nb))
<1>1. PICK at, path : at = SearchAt(s, i, nb) /\ path = Passed(at)
  OBVIOUS
<1>2. nb \in Nat /\ i = TreeIndex(nb) /\ Linked(s) /\ Climbs(s, at) /\ Steps(s, at) /\ WordBits \in Nat
  <2>1. nb \in Nat /\ i = TreeIndex(nb)
    BY DEF LargeIn
  <2>2. Climbs(s, at)
    BY <1>1, <2>1, SearchClimbs
  <2> QED
    BY <2>1, <2>2, SoundTies, SizesAssumption DEF Climbs
<1>3. PICK h \in 0..WordBits + 1 : /\ path = [k \in 1..h |-> at[k - 1]]
                                   /\ \A d \in Depths : d < h <=> at[d] # Null
  BY <1>1, <1>2, PassedIs
<1>4. Searched(s, i, nb, at, h) /\ h \in Nat
  BY <1>1, <1>2, <1>3 DEF Searched
<1>5. PICK P : P = ToSet(path) /\ P = {at[d] : d \in {e \in Depths : at[e] # Null}}
  BY <1>1, <1>2, PassedNodes
<1>6. SearchPath(s, TreeIndex(nb), nb) = path
  BY <1>1, <1>2 DEF SearchPath
<1>7. Len(path) = h /\ \A k \in 1..h : path[k] = at[k - 1]
  BY <1>3, <1>4
<1>8. CASE h = 0
  <2>1. path = <<>>
    BY <1>3, <1>8
  <2>2. Candidates(s, nb) = P \cup LeftmostPath(s, Null)
    BY <1>5, <1>6, <2>1 DEF Candidates
  <2>3. P = {} /\ LeftmostPath(s, Null) = {}
    <3>1. ToSet(path) = {}
      BY <2>1 DEF ToSet
    <3> QED
      BY <1>2, <1>5, <3>1, NoPathFromNull
  <2>4. at[0] = Null /\ at[0] = s.treebins[i]
    <3>1. 0 \in Depths
      BY <1>2 DEF Depths
    <3>2. at[0] = s.treebins[i]
      BY <1>1, <1>2, SearchSteps
    <3> QED
      BY <1>3, <1>8, <3>1, <3>2
  <2>5. \A w \in DOMAIN s.tree : IndexOf(s, w) # i
    BY <2>4, RootOfBin
  <2> QED
    BY <2>2, <2>3, <2>5 DEF Enough
<1>9. CASE h # 0
  <2>1. path # <<>> /\ Last(path) = at[h - 1] /\ h - 1 \in Depths /\ at[h - 1] # Null
    <3>1. h \in 1..h /\ h - 1 \in 0..WordBits /\ h - 1 < h
      BY <1>2, <1>3, <1>4, <1>9
    <3>2. path # <<>>
      <4>1. Len(<<>>) = 0
        OBVIOUS
      <4> QED
        BY <1>7, <1>9, <4>1
    <3>3. Last(path) = at[h - 1]
      BY <1>7, <3>1 DEF Last
    <3> QED
      BY <1>3, <3>1, <3>2, <3>3 DEF Depths
  <2>2. CASE SizeOf(s, at[h - 1]) = nb
    <3>1. Candidates(s, nb) = P \cup LeftmostPath(s, Null)
      BY <1>5, <1>6, <2>1, <2>2 DEF Candidates
    <3>2. LeftmostPath(s, Null) = {}
      BY <1>2, NoPathFromNull
    <3>3. at[h - 1] \in P
      BY <1>5, <2>1
    <3>4. \A u \in P : u \in DOMAIN s.tree /\ IndexOf(s, u) = i
      BY <1>1, <1>2, <1>5, OnPath DEF AtDepth
    <3>5. nb <= nb
      BY <1>2
    <3> QED
      BY <2>2, <3>1, <3>2, <3>3, <3>4, <3>5 DEF Enough
  <2>3. CASE SizeOf(s, at[h - 1]) # nb
    <3>1. PICK c : c = UntakenRight(s, path)
      OBVIOUS
    <3>2. Candidates(s, nb) = P \cup LeftmostPath(s, c)
      BY <1>5, <1>6, <2>1, <2>3, <3>1 DEF Candidates
    <3>3. Enough(s, i, nb, P \cup LeftmostPath(s, c))
      BY <1>3, <1>4, <1>5, <1>9, <2>3, <3>1, AsideIsEnough
    <3> QED
      BY <3>2, <3>3
  <2> QED
    BY <2>2, <2>3
<1> QED
  BY <1>8, <1>9

\* tmalloc_large finds the best fit in any tree.
LEMMA LargeFitIsBest ==
  ASSUME NEW s, Sound(s), NEW i \in 0..NTREEBINS - 1, NEW nb, LargeIn(i, nb)
  PROVE  Best(s, DOMAIN s.tree, nb, LargeFit(s, nb))
<1>1. PICK S, v, later : /\ S = Candidates(s, nb) /\ v = BestOf(s, S, nb)
                         /\ later = {j \in NonEmptyTrees(s) : j > i}
  OBVIOUS
<1>2. nb \in Nat /\ i = TreeIndex(nb) /\ i \in Nat
  BY DEF LargeIn
<1>3. LargeFit(s, nb) = IF v = Null /\ later # {}
                          THEN BestOf(s, LeftmostPath(s, s.treebins[Min(later)]), nb) ELSE v
  BY <1>1, <1>2 DEF LargeFit, Candidates
<1>4. Enough(s, i, nb, S)
  BY <1>1, CandidatesAreEnough
<1>5. Best(s, S, nb, v)
  <2>1. \A u \in S : SizeOf(s, u) \in Nat /\ u # Null
    BY <1>4, NodeSize DEF Enough
  <2> QED
    BY <1>1, <1>2, <2>1, BestOfIs
<1>6. ASSUME NEW w \in DOMAIN s.tree
      PROVE  /\ SizeOf(s, w) \in Nat /\ IndexOf(s, w) \in 0..NTREEBINS - 1
             /\ IndexOf(s, w) < i => SizeOf(s, w) < nb
             /\ i < IndexOf(s, w) => nb < SizeOf(s, w) /\ IndexOf(s, w) \in later
  <2>1. IndexOf(s, w) \in 0..NTREEBINS - 1 /\ SizeOf(s, w) \in Nat /\ LargeIn(IndexOf(s, w), SizeOf(s, w))
    BY NodeSize
  <2>2. IndexOf(s, w) < i => SizeOf(s, w) < nb
    BY <2>1, LaterIsLarger
  <2>3. i < IndexOf(s, w) => nb < SizeOf(s, w)
    BY <2>1, LaterIsLarger
  <2>4. i < IndexOf(s, w) => IndexOf(s, w) \in later
    BY <1>1, <1>2, <2>1, RootOfBin DEF NonEmptyTrees
  <2> QED
    BY <2>1, <2>2, <2>3, <2>4
<1>7. CASE v # Null
  <2>1. v \in DOMAIN s.tree /\ IndexOf(s, v) = i /\ nb <= SizeOf(s, v) /\ v \in S
    BY <1>4, <1>5, <1>7 DEF Best, Enough
  <2>2. LargeIn(i, SizeOf(s, v)) /\ SizeOf(s, v) \in Nat
    BY <2>1, NodeSize
  <2>3. ASSUME NEW w \in DOMAIN s.tree, nb <= SizeOf(s, w) PROVE SizeOf(s, v) <= SizeOf(s, w)
    <3>1. ~(IndexOf(s, w) < i)
      BY <1>2, <1>6, <2>3
    <3>2. CASE IndexOf(s, w) = i
      <4>1. PICK u \in S : nb <= SizeOf(s, u) /\ SizeOf(s, u) <= SizeOf(s, w)
        BY <1>4, <2>3, <3>2 DEF Enough
      <4>2. SizeOf(s, v) <= SizeOf(s, u) /\ SizeOf(s, u) \in Nat
        BY <1>4, <1>5, <1>6, <4>1 DEF Best, Enough
      <4> QED
        BY <1>6, <2>2, <4>1, <4>2
    <3>3. CASE i < IndexOf(s, w)
      <4>1. LargeIn(IndexOf(s, w), SizeOf(s, w)) /\ IndexOf(s, w) \in 0..NTREEBINS - 1
        BY NodeSize
      <4>2. SizeOf(s, v) < SizeOf(s, w)
        BY <2>2, <3>3, <4>1, LaterIsLarger
      <4> QED
        BY <1>6, <2>2, <4>2
    <3> QED
      BY <1>2, <1>6, <3>1, <3>2, <3>3
  <2>4. LargeFit(s, nb) = v
    BY <1>3, <1>7
  <2> QED
    BY <1>7, <2>1, <2>3, <2>4 DEF Best
<1>8. CASE v = Null
  <2>1. \A w \in DOMAIN s.tree : nb <= SizeOf(s, w) => i < IndexOf(s, w)
    <3> SUFFICES ASSUME NEW w \in DOMAIN s.tree, nb <= SizeOf(s, w) PROVE i < IndexOf(s, w)
      OBVIOUS
    <3>1. ~(IndexOf(s, w) < i)
      BY <1>2, <1>6
    <3>2. IndexOf(s, w) # i
      <4>1. ASSUME IndexOf(s, w) = i PROVE FALSE
        <5>1. PICK u \in S : nb <= SizeOf(s, u)
          BY <1>4, <4>1 DEF Enough
        <5> QED
          BY <1>5, <1>8, <5>1 DEF Best
      <4> QED
        BY <4>1
    <3> QED
      BY <1>2, <1>6, <3>1, <3>2
  <2>2. CASE later = {}
    <3>1. \A w \in DOMAIN s.tree : ~(nb <= SizeOf(s, w))
      BY <1>6, <2>1, <2>2
    <3>2. LargeFit(s, nb) = Null
      BY <1>3, <1>8, <2>2
    <3> QED
      BY <3>1, <3>2 DEF Best
  <2>3. CASE later # {}
    <3>1. PICK j, r, b : j = Min(later) /\ r = s.treebins[j] /\ b = BestOf(s, LeftmostPath(s, r), nb)
      OBVIOUS
    <3>2. later \in SUBSET Nat
      BY <1>1 DEF NonEmptyTrees
    <3>3. j \in later /\ \A f \in later : j <= f
      BY <2>3, <3>1, <3>2, LeastIn
    <3>4. j \in 0..NTREEBINS - 1 /\ r # Null /\ i < j
      BY <1>1, <3>1, <3>3 DEF NonEmptyTrees
    <3>5. \A t \in DOMAIN s.tree : j <= IndexOf(s, t) => nb <= SizeOf(s, t)
      <4> SUFFICES ASSUME NEW t \in DOMAIN s.tree, j <= IndexOf(s, t) PROVE nb <= SizeOf(s, t)
        OBVIOUS
      <4>1. i < IndexOf(s, t)
        BY <1>2, <1>6, <3>4
      <4> QED
        BY <1>2, <1>6, <4>1
    <3>6. /\ b # Null /\ b \in DOMAIN s.tree /\ nb <= SizeOf(s, b)
          /\ \A w \in DOMAIN s.tree : j <= IndexOf(s, w) => SizeOf(s, b) <= SizeOf(s, w)
      BY <1>2, <3>1, <3>4, <3>5, FirstTree
    <3>7. \A w \in DOMAIN s.tree : nb <= SizeOf(s, w) => j <= IndexOf(s, w)
      BY <1>6, <2>1, <3>3
    <3>8. LargeFit(s, nb) = b
      BY <1>3, <1>8, <2>3, <3>1
    <3> QED
      BY <3>6, <3>7, <3>8 DEF Best
  <2> QED
    BY <2>2, <2>3
<1> QED
  BY <1>7, <1>8

-----------------------------------------------------------------------------
(* The searches in a state that do_check_malloc_state finds in order. *)

\* The unsigned int of compute_tree_index holds every size, shifted.
SizesIndexed ==
  /\ \A q \in DOMAIN m.heap : SizeOf(m, q) < 2^(TREEBIN_SHIFT + IntBits)
  /\ \A b \in Requests : ChunkSize(b) < 2^(TREEBIN_SHIFT + IntBits)

LEMMA StateIsSound ==
  ASSUME MallocStateOK, SizesIndexed
  PROVE  /\ Sound(m)
         /\ \A t \in DOMAIN m.tree : t \in TreeBinned /\ MIN_LARGE_SIZE <= SizeOf(m, t)
         /\ \A q \in TreeBinned : /\ SizeOf(m, q) \in Nat /\ q # Null
                                  /\ \E t \in DOMAIN m.tree : SizeOf(m, q) = SizeOf(m, t)
<1>1. /\ TypeOK /\ TriesSound(m)
      /\ \A t \in DOMAIN m.tree : \A q \in ToSet(m.tree[t].chain) :
           ~is_small(SizeOf(m, q)) /\ SizeOf(m, q) = SizeOf(m, t)
  BY DEF MallocStateOK, TreesWellFormed, BinsExact
<1>2. \A t \in DOMAIN m.tree : t \in ToSet(m.tree[t].chain) /\ ToSet(m.tree[t].chain) \subseteq DOMAIN m.heap
  BY <1>1 DEF TriesSound
<1>3. ASSUME NEW q \in DOMAIN m.heap
      PROVE  /\ q \in Nat /\ q # Null /\ SizeOf(m, q) \in Nat /\ SizeOf(m, q) < SizeT
             /\ SizeOf(m, q) < 2^(TREEBIN_SHIFT + IntBits)
  <2>1. DOMAIN m.heap \subseteq Nat \ {Null} /\ m.heap[q].size \in 1..SizeT - 1
    BY <1>1 DEF TypeOK
  <2>2. SizeOf(m, q) < 2^(TREEBIN_SHIFT + IntBits)
    BY DEF SizesIndexed
  <2>3. SizeOf(m, q) \in Nat /\ SizeOf(m, q) < SizeT
    BY <2>1, SizeTFacts DEF SizeOf
  <2> QED
    BY <2>1, <2>2, <2>3
<1>4. ASSUME NEW t \in DOMAIN m.tree
      PROVE  /\ t \in DOMAIN m.heap /\ t \in TreeBinned /\ MIN_LARGE_SIZE <= SizeOf(m, t)
             /\ TreeIndex(SizeOf(m, t)) \in 0..NTREEBINS - 1
             /\ LargeIn(TreeIndex(SizeOf(m, t)), SizeOf(m, t))
  <2>1. t \in DOMAIN m.heap /\ t \in TreeBinned
    BY <1>2 DEF TreeBinned
  <2>2. ~is_small(SizeOf(m, t))
    BY <1>1, <1>2
  <2>3. PICK z : z = SizeOf(m, t) /\ z \in Nat /\ z < SizeT /\ z < 2^(TREEBIN_SHIFT + IntBits)
    BY <1>3, <2>1
  <2>4. MIN_LARGE_SIZE <= z
    <3>1. ~(z < MIN_LARGE_SIZE)
      BY <2>2, <2>3, SmallIsBelow
    <3>2. MIN_LARGE_SIZE \in Nat
      BY BinsAssumption DEF MIN_LARGE_SIZE
    <3> QED
      BY <2>3, <3>1, <3>2
  <2>5. TreeIndex(z) \in 0..NTREEBINS - 1
    BY <2>3, <2>4, IndexOfSize
  <2> QED
    BY <2>1, <2>3, <2>4, <2>5 DEF LargeIn
<1>5. Sound(m)
  <2>1. Null \notin DOMAIN m.tree /\ InBin \notin DOMAIN m.tree
    BY <1>3, <1>4 DEF Null, InBin
  <2>2. DOMAIN m.treebins = 0..NTREEBINS - 1
    BY <1>1 DEF TypeOK
  <2> QED
    BY <1>1, <1>4, <2>1, <2>2 DEF Sound
<1>6. ASSUME NEW q \in TreeBinned
      PROVE  /\ SizeOf(m, q) \in Nat /\ q # Null
             /\ \E t \in DOMAIN m.tree : SizeOf(m, q) = SizeOf(m, t)
  <2>1. PICK t \in DOMAIN m.tree : q \in ToSet(m.tree[t].chain)
    BY <1>6 DEF TreeBinned
  <2>2. q \in DOMAIN m.heap /\ SizeOf(m, q) = SizeOf(m, t)
    BY <1>1, <1>2, <2>1
  <2> QED
    BY <1>3, <2>2
<1> QED
  BY <1>4, <1>5, <1>6

\* The chunk that the searches find for nb bytes
FoundFor(nb) ==
  IF is_small(nb) THEN IF NonEmptyTrees(m) = {} THEN Null ELSE SmallFit(m, nb) ELSE LargeFit(m, nb)

LEMMA FoundIsBest ==
  ASSUME MallocStateOK, SizesIndexed, NEW nb \in Nat, nb < SizeT, nb < 2^(TREEBIN_SHIFT + IntBits)
  PROVE  Best(m, DOMAIN m.tree, nb, FoundFor(nb))
<1>1. /\ Sound(m)
      /\ \A t \in DOMAIN m.tree : t \in TreeBinned /\ MIN_LARGE_SIZE <= SizeOf(m, t)
      /\ \A q \in TreeBinned : /\ SizeOf(m, q) \in Nat /\ q # Null
                               /\ \E t \in DOMAIN m.tree : SizeOf(m, q) = SizeOf(m, t)
  BY StateIsSound
<1>2. PICK found : found = FoundFor(nb)
  OBVIOUS
<1>3. MIN_LARGE_SIZE \in Nat
  BY BinsAssumption DEF MIN_LARGE_SIZE
<1>4. CASE is_small(nb)
  <2>1. nb < MIN_LARGE_SIZE
    BY <1>4, SmallIsBelow
  <2>2. \A t \in DOMAIN m.tree : nb <= SizeOf(m, t)
    BY <1>1, <1>3, <2>1
  <2>3. CASE NonEmptyTrees(m) = {}
    <3>1. DOMAIN m.tree = {}
      <4>1. ASSUME NEW t \in DOMAIN m.tree PROVE FALSE
        BY <1>1, <2>3, NodeSize, RootOfBin DEF NonEmptyTrees
      <4> QED
        BY <4>1
    <3>2. found = Null
      BY <1>2, <1>4, <2>3 DEF FoundFor
    <3> QED
      BY <1>2, <3>1, <3>2 DEF Best
  <2>4. CASE NonEmptyTrees(m) # {}
    <3>1. found = SmallFit(m, nb)
      BY <1>2, <1>4, <2>4 DEF FoundFor
    <3> QED
      BY <1>1, <1>2, <2>2, <2>4, <3>1, SmallFitIsBest
  <2> QED
    BY <2>3, <2>4
<1>5. CASE ~is_small(nb)
  <2>1. MIN_LARGE_SIZE <= nb
    BY <1>3, <1>5, SmallIsBelow
  <2>2. PICK i : i = TreeIndex(nb)
    OBVIOUS
  <2>3. i \in 0..NTREEBINS - 1 /\ LargeIn(i, nb)
    BY <2>1, <2>2, IndexOfSize DEF LargeIn
  <2>4. found = LargeFit(m, nb)
    BY <1>2, <1>5 DEF FoundFor
  <2> QED
    BY <1>1, <1>2, <2>3, <2>4, LargeFitIsBest
<1> QED
  BY <1>2, <1>4, <1>5

\* The best fit of all chunks in the trees is what the searches find, though they look at
\* one path and one subtree only (tmalloc_large, tmalloc_small), in every state that
\* do_check_malloc_state finds in order and for every size of the trees, as long as the
\* unsigned int of compute_tree_index holds the sizes.
THEOREM SearchFindsBest == MallocStateOK /\ SizesIndexed => BestFit
<1> SUFFICES ASSUME MallocStateOK, SizesIndexed, NEW bytes \in Requests, NEW nb, nb = ChunkSize(bytes),
                    NEW best, best = BestOf(m, TreeBinned, nb),
                    NEW found, found = IF is_small(nb)
                                         THEN IF NonEmptyTrees(m) = {} THEN Null ELSE SmallFit(m, nb)
                                         ELSE LargeFit(m, nb)
             PROVE  IF best = Null THEN found = Null
                    ELSE found # Null /\ SizeOf(m, found) = SizeOf(m, best)
  BY DEF BestFit
<1>1. /\ Sound(m)
      /\ \A t \in DOMAIN m.tree : t \in TreeBinned /\ MIN_LARGE_SIZE <= SizeOf(m, t)
      /\ \A q \in TreeBinned : /\ SizeOf(m, q) \in Nat /\ q # Null
                               /\ \E t \in DOMAIN m.tree : SizeOf(m, q) = SizeOf(m, t)
  BY StateIsSound
<1>2. nb \in Nat /\ nb < SizeT /\ nb < 2^(TREEBIN_SHIFT + IntBits)
  <2>1. bytes \in 0..MAX_SIZE_T
    BY MspaceAssumption
  <2>2. nb \in 0..MAX_SIZE_T
    BY <2>1, SizeTFacts, ChunkOfRequest DEF ChunkSize
  <2> QED
    BY <2>2, SizeTFacts DEF SizesIndexed
<1>3. Best(m, TreeBinned, nb, best)
  BY <1>1, <1>2, BestOfIs
<1>4. Best(m, DOMAIN m.tree, nb, found)
  <2>1. found = FoundFor(nb)
    BY DEF FoundFor
  <2> QED
    BY <1>2, <2>1, FoundIsBest
<1>5. CASE best = Null
  <2>1. ASSUME found # Null PROVE FALSE
    BY <1>1, <1>3, <1>4, <1>5, <2>1 DEF Best
  <2> QED
    BY <1>5, <2>1
<1>6. CASE best # Null
  <2>1. best \in TreeBinned /\ nb <= SizeOf(m, best)
    BY <1>3, <1>6 DEF Best
  <2>2. PICK t \in DOMAIN m.tree : SizeOf(m, best) = SizeOf(m, t)
    BY <1>1, <2>1
  <2>3. found # Null /\ SizeOf(m, found) <= SizeOf(m, t)
    BY <1>4, <2>1, <2>2 DEF Best
  <2>4. found \in TreeBinned /\ nb <= SizeOf(m, found)
    BY <1>1, <1>4, <2>3 DEF Best
  <2>5. SizeOf(m, best) <= SizeOf(m, found)
    BY <1>3, <2>4 DEF Best
  <2>6. SizeOf(m, best) \in Nat /\ SizeOf(m, found) \in Nat
    BY <1>1, <2>1, <2>4
  <2> QED
    BY <1>6, <2>2, <2>3, <2>5, <2>6
<1> QED
  BY <1>5, <1>6

-----------------------------------------------------------------------------
(* Sizes of segments and requests, as in MallocProofs. *)

\* A sum that wraps around rounds to less than what it wrapped by.
LEMMA RoundUpWraps ==
  ASSUME NEW s \in Nat, NEW unit \in Nat \ {0}, s + unit - 1 >= SizeT, s + unit - 1 < 2 * SizeT
  PROVE  /\ RoundUp(s, unit) \in Nat /\ RoundUp(s, unit) <= s + unit - 1 - SizeT
         /\ s + unit - 1 - SizeT < unit => RoundUp(s, unit) = 0
<1> DEFINE w == s + unit - 1
           v == w - SizeT
           r == v % unit
<1>1. SizeT \in Nat \ {0} /\ w \in Nat /\ v \in 0..SizeT - 1
  BY SizeTFacts
<1>2. w % SizeT = v
  BY <1>1
<1>3. r \in 0..unit - 1 /\ (v < unit => r = v)
  BY <1>1
<1>4. RoundUp(s, unit) = v - r
  BY <1>2 DEF RoundUp
<1>5. r <= v
  <2>1. \A a, b \in Nat : b # 0 => a % b <= a
    OBVIOUS
  <2> QED
    BY <1>1, <2>1
<1> QED
  BY <1>1, <1>3, <1>4, <1>5

LEMMA FootIs == TOP_FOOT_SIZE = 80 /\ SYS_ALLOC_PADDING = 88
<1>1. SizeT \in Nat /\ 128 <= SizeT
  BY SizeTFacts
<1>2. SegmentRecordSize = 48
  BY <1>1 DEF SegmentRecordSize, pad_request, RoundUp, CHUNK_OVERHEAD, MALLOC_ALIGNMENT, SIZE_T_SIZE
<1> QED
  BY <1>2 DEF TOP_FOOT_SIZE, SYS_ALLOC_PADDING, MIN_CHUNK_SIZE, MALLOC_ALIGNMENT, SIZE_T_SIZE

\* A segment that is asked for is larger than the chunk by all that goes with it.
LEMMA SegmentOfChunk ==
  ASSUME NEW nb \in 0..MAX_SIZE_T, SegmentSize(nb) # NoSize
  PROVE  /\ SegmentSize(nb) \in Nat /\ SegmentSize(nb) > nb + TOP_FOOT_SIZE
         /\ SegmentSize(nb) % Granularity = 0
<1>1. /\ SizeT \in Nat /\ PageSize \in Nat \ {0} /\ Granularity \in Nat \ {0}
      /\ PageSize + 128 <= SizeT /\ Granularity + 128 <= SizeT /\ MAX_SIZE_T = SizeT - 1
  BY SizeTFacts, SizeLawsAssumption DEF SizeT
<1>2. TOP_FOOT_SIZE = 80 /\ SYS_ALLOC_PADDING = 88
  <2>1. SegmentRecordSize = 48
    BY <1>1 DEF SegmentRecordSize, pad_request, RoundUp, CHUNK_OVERHEAD, MALLOC_ALIGNMENT, SIZE_T_SIZE
  <2> QED
    BY <2>1 DEF TOP_FOOT_SIZE, SYS_ALLOC_PADDING, MIN_CHUNK_SIZE, MALLOC_ALIGNMENT, SIZE_T_SIZE
<1>3. SegmentSize(nb) = RoundUp(nb + 88, Granularity) /\ SegmentSize(nb) > nb
  BY <1>2 DEF SegmentSize, granularity_align
<1>4. nb + 88 + Granularity - 1 < SizeT
  <2>1. SUFFICES ASSUME nb + 88 + Granularity - 1 >= SizeT PROVE FALSE
    BY <1>1
  <2>2. RoundUp(nb + 88, Granularity) <= nb + 88 + Granularity - 1 - SizeT
    BY <1>1, <2>1, RoundUpWraps
  <2> QED
    BY <1>1, <1>3, <2>1, <2>2, RoundUpWraps
<1> QED
  BY <1>1, <1>2, <1>3, <1>4, RoundUpExact

\* memalign's request has room for the leader of either kind; nothing wraps around.
LEMMA RequestOfMemalign ==
  ASSUME NEW alignment \in Nat, NEW bytes \in Nat, MemalignRequest(alignment, bytes) # NoSize
  PROVE  /\ bytes < MAX_REQUEST
         /\ MemalignRequest(alignment, bytes) = request2size(bytes) + alignment + 16
         /\ MemalignRequest(alignment, bytes) \in 0..MAX_SIZE_T
<1>1. bytes < MAX_REQUEST - alignment /\ MAX_REQUEST = SizeT - 128 /\ SizeT \in Nat
  BY SizeTFacts DEF MemalignRequest
<1>2. /\ request2size(bytes) \in Nat
      /\ request2size(bytes) < bytes + CHUNK_OVERHEAD + MIN_CHUNK_SIZE
  BY <1>1, ChunkOfRequest
<1>3. request2size(bytes) + alignment + 16 < SizeT
  BY <1>1, <1>2 DEF MIN_CHUNK_SIZE, CHUNK_OVERHEAD, SIZE_T_SIZE
<1>4. (request2size(bytes) + alignment + 16) % SizeT = request2size(bytes) + alignment + 16
  BY <1>1, <1>2, <1>3
<1>5. MemalignRequest(alignment, bytes) = (request2size(bytes) + alignment + 16) % SizeT
  BY <1>1, <1>2 DEF MemalignRequest, MIN_CHUNK_SIZE, CHUNK_OVERHEAD, SIZE_T_SIZE
<1> QED
  BY <1>1, <1>2, <1>3, <1>4, <1>5, SizeTFacts

-----------------------------------------------------------------------------
(* Heads that are written at other places leave a head alone. *)

LEMMA WriteKeeps ==
  ASSUME NEW h, NEW a, NEW p \in DOMAIN h, NEW tag, p < a \/ p = a
  PROVE  /\ p \in DOMAIN Write(h, a, tag)
         /\ p < a /\ p # a => Write(h, a, tag)[p] = h[p]
         /\ p = a => Write(h, a, tag)[p] = tag
BY DEF Write

LEMMA WriteHere ==
  ASSUME NEW h, NEW a, NEW tag
  PROVE  a \in DOMAIN Write(h, a, tag) /\ Write(h, a, tag)[a] = tag
BY DEF Write

\* The head of a chunk that was given out is as long as it was to be.
LEMMA InuseChunk ==
  ASSUME NEW h, NEW p \in Nat, NEW nb \in Nat \ {0}, NEW g,
         g = set_size_and_pinuse_of_inuse_chunk(h, p, nb)
  PROVE  p \in DOMAIN g /\ g[p].size = nb
<1>1. PICK w : w = WriteHead(h, p, nb, TRUE, TRUE)
  OBVIOUS
<1>2. p \in DOMAIN w /\ w[p].size = nb
  BY <1>1, WriteHere DEF WriteHead
<1>3. p < p + nb /\ p # p + nb
  OBVIOUS
<1>4. g = Write(w, p + nb, [Tag(w, p + nb) EXCEPT !.foot = Footer])
  BY <1>1 DEF set_size_and_pinuse_of_inuse_chunk, SetFoot
<1> QED
  BY <1>2, <1>3, <1>4, WriteKeeps

\* A free chunk behind p
LEMMA FreeBehind ==
  ASSUME NEW h, NEW p \in Nat, p \in DOMAIN h, NEW q \in Int, p < q, NEW size \in Int, p < q + size
  PROVE  /\ p \in DOMAIN set_size_and_pinuse_of_free_chunk(h, q, size)
         /\ set_size_and_pinuse_of_free_chunk(h, q, size)[p] = h[p]
<1>1. PICK w : w = WriteHead(h, q, size, FALSE, TRUE)
  OBVIOUS
<1>2. p # q /\ p # q + size
  OBVIOUS
<1>3. p \in DOMAIN w /\ w[p] = h[p]
  BY <1>1, <1>2, WriteKeeps DEF WriteHead
<1>4. set_size_and_pinuse_of_free_chunk(h, q, size)
        = Write(w, q + size, [Tag(w, q + size) EXCEPT !.foot = size])
  BY <1>1 DEF set_size_and_pinuse_of_free_chunk, SetFoot
<1> QED
  BY <1>2, <1>3, <1>4, WriteKeeps

LEMMA FreeBehindWith ==
  ASSUME NEW h, NEW p \in Nat, p \in DOMAIN h, NEW q \in Int, p < q, NEW size \in Int, p < q + size,
         NEW next \in Int, p < next
  PROVE  /\ p \in DOMAIN set_free_with_pinuse(h, q, size, next)
         /\ set_free_with_pinuse(h, q, size, next)[p] = h[p]
<1>1. PICK w : w = SetPinuse(h, next, FALSE)
  OBVIOUS
<1>2. p \in DOMAIN w /\ w[p] = h[p]
  BY <1>1, WriteKeeps DEF SetPinuse
<1> QED
  BY <1>1, <1>2, FreeBehind DEF set_free_with_pinuse

-----------------------------------------------------------------------------
(* What the bins do not touch. *)

\* r differs from s in nothing but the bins.
BinsOnly(r, s) ==
  /\ DOMAIN s = Fields => DOMAIN r = Fields
  /\ DOMAIN s = Fields => /\ r.heap = s.heap /\ r.footprint = s.footprint /\ r.segs = s.segs
                          /\ r.top = s.top /\ r.topsize = s.topsize /\ r.home = s.home

LEMMA BinsOnlyTwice ==
  ASSUME NEW r, NEW s, NEW t, BinsOnly(r, s), BinsOnly(s, t)
  PROVE  BinsOnly(r, t)
BY DEF BinsOnly

LEMMA SmallBinsOnly ==
  ASSUME NEW s, NEW p, NEW size, NEW i
  PROVE  /\ BinsOnly(insert_small_chunk(s, p, size), s) /\ BinsOnly(unlink_small_chunk(s, p, size), s)
         /\ BinsOnly(unlink_first_small_chunk(s, i), s)
BY DEF BinsOnly, Fields, insert_small_chunk, unlink_small_chunk, unlink_first_small_chunk

LEMMA InsertLargeBinsOnly ==
  ASSUME NEW s, NEW p, NEW size
  PROVE  BinsOnly(insert_large_chunk(s, p, size), s)
BY DEF BinsOnly, Fields, insert_large_chunk

LEMMA TakePlaceBinsOnly ==
  ASSUME NEW s, NEW x, NEW r, NEW chain
  PROVE  BinsOnly(TakePlace(s, x, r, chain), s)
BY DEF BinsOnly, Fields, TakePlace

LEMMA UnlinkLargeBinsOnly ==
  ASSUME NEW s, NEW x
  PROVE  BinsOnly(unlink_large_chunk(s, x), s)
<1>1. CASE x \notin DOMAIN s.tree
  <2>1. PICK t : unlink_large_chunk(s, x) = [s EXCEPT !.tree[t].chain = Remove(@, x)]
    BY <1>1 DEF unlink_large_chunk
  <2> QED
    BY <2>1 DEF BinsOnly, Fields
<1>2. CASE x \in DOMAIN s.tree
  <2>1. PICK r, u : /\ u = [s EXCEPT !.tree[s.tree[r].parent] = SwapChild(@, r, Null)]
                    /\ r = ReplacementFor(s, x)
    OBVIOUS
  <2>2. BinsOnly(u, s)
    BY <2>1 DEF BinsOnly, Fields
  <2>3. \E y, z, chain : /\ y = s \/ y = u
                         /\ unlink_large_chunk(s, x) = TakePlace(y, x, z, chain)
    BY <1>2, <2>1 DEF unlink_large_chunk
  <2> QED
    BY <2>2, <2>3, TakePlaceBinsOnly, BinsOnlyTwice
<1> QED
  BY <1>1, <1>2

LEMMA ChunkBinsOnly ==
  ASSUME NEW s, NEW p, NEW size
  PROVE  BinsOnly(insert_chunk(s, p, size), s) /\ BinsOnly(unlink_chunk(s, p, size), s)
BY SmallBinsOnly, InsertLargeBinsOnly, UnlinkLargeBinsOnly DEF insert_chunk, unlink_chunk

-----------------------------------------------------------------------------
(* Giving memory back never makes the footprint greater. *)

\* An mspace with its fields and its segments
Formed(s) == DOMAIN s = Fields /\ s.footprint \in Int /\ s.segs \in Seq(Segments) /\ s.segs # <<>>

\* r has as much from the system as s, or less.
Shrunk(r, s) == DOMAIN r = Fields /\ r.footprint \in Int /\ r.footprint <= s.footprint

LEMMA UnmappedShrinks ==
  ASSUME NEW s, DOMAIN s = Fields, s.footprint \in Int, NEW lo \in Int, NEW hi \in Int, lo <= hi
  PROVE  Shrunk(Unmapped(s, lo, hi), s) /\ Unmapped(s, lo, hi).segs = s.segs
BY DEF Shrunk, Unmapped, Fields

LEMMA WithdrawnBinsOnly ==
  ASSUME NEW s, NEW p, DOMAIN s = Fields
  PROVE  /\ DOMAIN Withdrawn(s, p) = Fields /\ Withdrawn(s, p).footprint = s.footprint
         /\ Withdrawn(s, p).segs = s.segs
<1>1. CASE p = s.dv
  BY <1>1 DEF Withdrawn, Fields
<1>2. CASE p # s.dv
  BY <1>2, UnlinkLargeBinsOnly DEF Withdrawn, BinsOnly
<1> QED
  BY <1>1, <1>2

\* One unused segment, given back or not
LEMMA ReleaseShrinks ==
  ASSUME NEW t, DOMAIN t = Fields, t.footprint \in Int, NEW seg \in Segments, NEW refused
  PROVE  Shrunk(Release(t, seg, refused), t)
<1>1. PICK p, t1 : p = seg.base /\ t1 = Withdrawn(t, p)
  OBVIOUS
<1>2. DOMAIN t1 = Fields /\ t1.footprint = t.footprint
  BY <1>1, WithdrawnBinsOnly
<1>3. p \in Int /\ p + seg.size \in Int /\ p <= p + seg.size
  BY <1>1 DEF Segments
<1>4. CASE ~IsUnused(t, seg)
  BY <1>4 DEF Release, Shrunk
<1>5. CASE IsUnused(t, seg) /\ p \notin refused
  <2>1. PICK u : u = Unmapped(t1, p, p + seg.size)
    OBVIOUS
  <2>2. Shrunk(u, t1)
    BY <1>2, <1>3, <2>1, UnmappedShrinks
  <2>3. Release(t, seg, refused) = [u EXCEPT !.segs = Remove(@, seg)]
    BY <1>1, <1>5, <2>1 DEF Release
  <2> QED
    BY <1>2, <2>2, <2>3 DEF Shrunk, Fields
<1>6. CASE IsUnused(t, seg) /\ ~(p \notin refused)
  <2>1. Release(t, seg, refused) = insert_large_chunk(t1, p, SizeOf(t, p))
    BY <1>1, <1>6 DEF Release
  <2> QED
    BY <1>2, <2>1, InsertLargeBinsOnly DEF Shrunk, BinsOnly
<1> QED
  BY <1>4, <1>5, <1>6

\* The mspace after each of the segments.
ReleasedUpTo(f, s, refused, w) ==
  f[1] = s /\ \A k \in 1..w - 1 : f[k + 1] = Release(f[k], s.segs[k + 1], refused)

HasReleases(s, refused, l) ==
  \E f : f = [k \in 1..l |-> IF k = 1 THEN s ELSE Release(f[k - 1], s.segs[k], refused)]

\* The function of Releases exists.
LEMMA ReleasesExist ==
  ASSUME NEW s, NEW refused, NEW l \in Nat
  PROVE  l # 0 => HasReleases(s, refused, l)
<1> DEFINE T == {w \in 1..l : ~ \E f : ReleasedUpTo(f, s, refused, w)}
<1> SUFFICES ASSUME l # 0
             PROVE  \E f : f = [k \in 1..l |-> IF k = 1 THEN s ELSE Release(f[k - 1], s.segs[k], refused)]
  BY DEF HasReleases
<1>1. ASSUME T # {} PROVE FALSE
  <2>1. PICK w \in T : \A v \in T : w <= v
    <3>1. T \in SUBSET Nat
      OBVIOUS
    <3> QED
      BY <1>1, <3>1, LeastNumber
  <2>2. w \in 1..l /\ ~ \E f : ReleasedUpTo(f, s, refused, w)
    BY <2>1
  <2>3. w # 1
    <3>1. PICK f : f = [k \in 1..1 |-> s]
      OBVIOUS
    <3>2. f[1] = s /\ 1..1 - 1 = {}
      BY <3>1
    <3>3. ReleasedUpTo(f, s, refused, 1)
      BY <3>2 DEF ReleasedUpTo
    <3> QED
      BY <2>2, <3>3
  <2>4. PICK v \in Nat : v \in 1..l /\ w = v + 1 /\ ~(w <= v)
    <3>1. w - 1 \in Nat /\ w - 1 \in 1..l /\ w = (w - 1) + 1 /\ ~(w <= w - 1)
      BY <2>2, <2>3
    <3> QED
      BY <3>1
  <2>5. PICK f : ReleasedUpTo(f, s, refused, v)
    BY <2>1, <2>4
  <2>6. PICK g : g = [k \in 1..w |-> IF k <= v THEN f[k] ELSE Release(f[v], s.segs[w], refused)]
    OBVIOUS
  <2>7. g[1] = s
    BY <2>4, <2>5, <2>6 DEF ReleasedUpTo
  <2>8. ASSUME NEW k \in 1..w - 1 PROVE g[k + 1] = Release(g[k], s.segs[k + 1], refused)
    <3>1. k \in 1..w /\ k <= v /\ g[k] = f[k]
      BY <2>4, <2>6
    <3>2. CASE k = v
      <4>1. k + 1 = w /\ w \in 1..w /\ ~(w <= v)
        BY <2>4, <3>2
      <4>2. g[w] = Release(f[v], s.segs[w], refused)
        BY <2>6, <4>1
      <4> QED
        BY <3>1, <3>2, <4>1, <4>2
    <3>3. CASE k # v
      <4>1. k \in 1..v - 1 /\ k + 1 \in 1..w /\ k + 1 <= v
        BY <2>4, <3>3
      <4>2. g[k + 1] = f[k + 1]
        BY <2>6, <4>1
      <4> QED
        BY <2>5, <3>1, <4>1, <4>2 DEF ReleasedUpTo
    <3> QED
      BY <3>2, <3>3
  <2>9. ReleasedUpTo(g, s, refused, w)
    BY <2>7, <2>8 DEF ReleasedUpTo
  <2> QED
    BY <2>2, <2>9
<1>2. PICK f : ReleasedUpTo(f, s, refused, l)
  <2>1. l \in 1..l
    OBVIOUS
  <2> QED
    BY <1>1, <2>1
<1>3. PICK g : g = [k \in 1..l |-> f[k]]
  OBVIOUS
<1>4. ASSUME NEW k \in 1..l
      PROVE  g[k] = IF k = 1 THEN s ELSE Release(g[k - 1], s.segs[k], refused)
  <2>1. CASE k = 1
    BY <1>2, <1>3, <2>1 DEF ReleasedUpTo
  <2>2. CASE k # 1
    <3>1. k - 1 \in 1..l - 1 /\ k - 1 \in 1..l /\ (k - 1) + 1 = k
      BY <2>2
    <3>2. f[k] = Release(f[k - 1], s.segs[k], refused)
      BY <1>2, <3>1 DEF ReleasedUpTo
    <3> QED
      BY <1>3, <2>2, <3>1, <3>2
  <2> QED
    BY <2>1, <2>2
<1>5. g = [k \in 1..l |-> g[k]]
  BY <1>3
<1>6. g = [k \in 1..l |-> IF k = 1 THEN s ELSE Release(g[k - 1], s.segs[k], refused)]
  BY <1>4, <1>5
<1> QED
  BY <1>6

\* release_unused_segments, as each of its turns
LEMMA ReleaseUnusedShrinks ==
  ASSUME NEW s, Formed(s), NEW refused
  PROVE  Shrunk(release_unused_segments(s, refused), s)
<1>1. PICK l \in Nat : l = Len(s.segs) /\ l # 0 /\ \A k \in 1..l : s.segs[k] \in Segments
  BY DEF Formed
<1> DEFINE Is(f) == f = [k \in 1..Len(s.segs) |-> IF k = 1 THEN s ELSE Release(f[k - 1], s.segs[k], refused)]
<1>2. PICK after : after = Releases(s, refused)
  OBVIOUS
<1>3. Is(after)
  <2>1. after = CHOOSE f : Is(f)
    BY <1>2 DEF Releases
  <2>2. \E f : Is(f)
    <3>1. Len(s.segs) \in Nat /\ Len(s.segs) # 0
      BY <1>1
    <3>2. HasReleases(s, refused, Len(s.segs))
      BY <3>1, ReleasesExist
    <3> QED
      BY <3>2 DEF HasReleases
  <2> HIDE DEF Is
  <2> QED
    BY <2>1, <2>2
<1>4. after = [k \in 1..l |-> IF k = 1 THEN s ELSE Release(after[k - 1], s.segs[k], refused)]
  BY <1>1, <1>3
<1>5. /\ after[1] = s
      /\ \A k \in 2..l : after[k] = Release(after[k - 1], s.segs[k], refused)
  <2>1. 1 \in 1..l
    BY <1>1
  <2>2. \A k \in 2..l : k \in 1..l /\ k # 1
    BY <1>1
  <2> QED
    BY <1>4, <2>1, <2>2
<1> DEFINE T == {k \in 1..l : ~Shrunk(after[k], s)}
<1>6. ASSUME T # {} PROVE FALSE
  <2>1. PICK w \in T : \A v \in T : w <= v
    <3>1. T \in SUBSET Nat
      OBVIOUS
    <3> QED
      BY <1>6, <3>1, LeastNumber
  <2>2. w # 1
    <3>1. Shrunk(s, s)
      BY DEF Shrunk, Formed
    <3> QED
      BY <1>5, <2>1, <3>1
  <2>3. w \in 2..l /\ w - 1 \in 1..l /\ ~(w <= w - 1)
    BY <2>1, <2>2
  <2>4. Shrunk(after[w - 1], s)
    BY <2>1, <2>3
  <2>5. after[w] = Release(after[w - 1], s.segs[w], refused) /\ s.segs[w] \in Segments
    BY <1>1, <1>5, <2>3
  <2>6. Shrunk(after[w], after[w - 1])
    BY <2>4, <2>5, ReleaseShrinks DEF Shrunk
  <2>7. Shrunk(after[w], s)
    BY <2>4, <2>6 DEF Shrunk, Formed
  <2> QED
    BY <2>1, <2>7
<1>7. Shrunk(after[l], s)
  BY <1>1, <1>6
<1> QED
  BY <1>1, <1>2, <1>7 DEF Shrunk, Fields, release_unused_segments

\* r has the same memory from the system as s.
SameMemory(r, s) == DOMAIN r = Fields /\ r.footprint = s.footprint /\ r.segs = s.segs

LEMMA ShrinkableIs ==
  ASSUME NEW s, s.topsize \in Int, NEW pad \in Nat
  PROVE  Shrinkable(s, pad) \in Int
<1>1. Granularity \in Nat \ {0}
  BY SizeTFacts
<1>2. PICK x \in Int : x = (s.topsize - (pad + TOP_FOOT_SIZE) + Granularity - 1) \div Granularity
  <2>1. TOP_FOOT_SIZE \in Int
    BY FootIs
  <2>2. \A y \in Int : y \div Granularity \in Int
    BY <1>1
  <2> QED
    BY <1>1, <2>1, <2>2
<1>3. (x - 1) * Granularity \in Int
  BY <1>1
<1> QED
  BY <1>2, <1>3 DEF Shrinkable

\* sys_trim shrinks top, then releases what is unused.
LEMMA TrimShrinks ==
  ASSUME NEW s, Formed(s), s.topsize \in Int, NEW pad \in Nat, NEW refused
  PROVE  Shrunk(sys_trim(s, pad, refused), s)
<1>1. PICK extra, seg, end, shrinks :
        /\ extra = Shrinkable(s, pad) /\ seg = s.segs[1] /\ end = seg.base + seg.size
        /\ shrinks = (/\ extra > 0 /\ seg.base \notin refused
                      /\ ~seg.extern /\ seg.size >= extra /\ ~has_segment_link(s, seg))
  OBVIOUS
<1>2. PICK u, s1 :
        /\ u = [Unmapped(s, end - extra, end) EXCEPT !.segs[1].size = @ - extra]
        /\ s1 = IF shrinks THEN init_top(u, s.top, s.topsize - extra) ELSE s
  OBVIOUS
<1>3. extra \in Int /\ seg \in Segments
  BY <1>1, ShrinkableIs DEF Formed
<1>4. Formed(s1) /\ s1.footprint <= s.footprint
  <2>1. CASE ~shrinks
    BY <1>2, <2>1 DEF Formed
  <2>2. CASE shrinks
    <3>1. extra > 0 /\ seg.size >= extra /\ seg.size \in Nat /\ seg.base \in Nat
      BY <1>1, <1>3, <2>2 DEF Segments
    <3>2. PICK w : w = Unmapped(s, end - extra, end)
      OBVIOUS
    <3>3. Shrunk(w, s) /\ w.segs = s.segs
      <4>1. end \in Int /\ end - extra \in Int /\ end - extra <= end
        BY <1>1, <1>3, <3>1
      <4> QED
        BY <3>2, <4>1, UnmappedShrinks DEF Formed
    <3>4. u = [w EXCEPT !.segs[1].size = @ - extra]
      BY <1>2, <3>2
    <3>5. DOMAIN u = Fields /\ u.footprint = w.footprint
          /\ u.segs = [w.segs EXCEPT ![1].size = @ - extra]
      BY <3>3, <3>4 DEF Shrunk, Fields
    <3>6. u.segs \in Seq(Segments) /\ u.segs # <<>>
      <4>1. [seg EXCEPT !.size = @ - extra] \in Segments
        BY <1>3, <3>1 DEF Segments
      <4>2. u.segs = [s.segs EXCEPT ![1] = [seg EXCEPT !.size = @ - extra]]
        BY <1>1, <3>3, <3>5
      <4> QED
        BY <4>1, <4>2 DEF Formed
    <3>7. s1 = init_top(u, s.top, s.topsize - extra)
      BY <1>2, <2>2
    <3>8. DOMAIN s1 = Fields /\ s1.footprint = u.footprint /\ s1.segs = u.segs
      BY <3>5, <3>7 DEF init_top, Fields
    <3> QED
      BY <3>3, <3>5, <3>6, <3>8 DEF Formed, Shrunk
  <2> QED
    BY <1>1, <2>1, <2>2
<1>5. PICK s2 : s2 = release_unused_segments(s1, refused)
  OBVIOUS
<1>6. Shrunk(s2, s)
  BY <1>4, <1>5, ReleaseUnusedShrinks DEF Shrunk, Formed
<1>7. s1 = ShrinkTop(s, extra, refused)
  BY <1>1, <1>2 DEF ShrinkTop
<1>8. sys_trim(s, pad, refused) = IF pad >= MAX_REQUEST THEN s
                                ELSE IF s2.footprint = s.footprint /\ s2.topsize > s2.trim_check
                                THEN [s2 EXCEPT !.trim_check = MAX_SIZE_T] ELSE s2
  <2>1. s2 = release_unused_segments(ShrinkTop(s, Shrinkable(s, pad), refused), refused)
    BY <1>1, <1>5, <1>7
  <2> QED
    BY <2>1 DEF sys_trim
<1>9. CASE pad >= MAX_REQUEST
  BY <1>8, <1>9 DEF Shrunk, Formed
<1>10. CASE ~(pad >= MAX_REQUEST)
  BY <1>6, <1>8, <1>10 DEF Shrunk, Fields
<1> QED
  BY <1>9, <1>10

LEMMA BinsSameMemory ==
  ASSUME NEW s, DOMAIN s = Fields, NEW r, BinsOnly(r, s)
  PROVE  SameMemory(r, s) /\ r.topsize = s.topsize
BY DEF BinsOnly, SameMemory

LEMMA JoinsBackKeeps ==
  ASSUME NEW s, DOMAIN s = Fields, NEW p
  PROVE  SameMemory(JoinsBack(s, p), s) /\ JoinsBack(s, p).topsize = s.topsize
BY ChunkBinsOnly, BinsSameMemory DEF JoinsBack, SameMemory

\* Free, after the chunks around it have been taken from their bins.
LEMMA FreeInsertShrinks ==
  ASSUME NEW s, Formed(s), NEW t, SameMemory(t, s), NEW p, NEW size, NEW refused
  PROVE  Shrunk(InsertFreed(t, p, size, refused), s)
<1>1. PICK t1, t2 : t1 = insert_chunk(t, p, size) /\ t2 = [t1 EXCEPT !.release_checks = @ - 1]
  OBVIOUS
<1>2. SameMemory(t1, s)
  BY <1>1, ChunkBinsOnly, BinsSameMemory DEF SameMemory
<1>3. SameMemory(t2, s)
  BY <1>1, <1>2 DEF SameMemory, Fields
<1>4. Shrunk(release_unused_segments(t2, refused), t2) /\ Shrunk(t1, s) /\ Shrunk(t2, s)
  <2>1. Formed(t2)
    BY <1>3 DEF SameMemory, Formed
  <2> QED
    BY <1>2, <1>3, <2>1, ReleaseUnusedShrinks DEF SameMemory, Formed, Shrunk
<1>5. Shrunk(release_unused_segments(t2, refused), s)
  BY <1>3, <1>4 DEF SameMemory, Shrunk
<1> QED
  BY <1>1, <1>4, <1>5 DEF InsertFreed

\* free, wherever the chunk goes, and the trim or the release behind it
LEMMA FreeShrinks ==
  ASSUME NEW s, Formed(s), s.topsize \in Int, NEW mem \in Int, NEW refused,
         s.heap[mem].foot \in Int, SizeOf(s, mem) \in Int
  PROVE  Shrunk(Free(s, mem, refused), s)
<1>1. PICK p, next, psize, s1, q, s2, h, size, t :
        /\ p = (IF ~s.heap[mem].pinuse THEN mem - s.heap[mem].foot ELSE mem)
        /\ next = NextChunk(s, mem) /\ psize = next - p /\ s1 = JoinsBack(s, mem)
        /\ q = [s1 EXCEPT !.top = p, !.topsize = @ + psize,
                          !.heap = WriteHead(@, p, psize + s.topsize, FALSE, TRUE),
                          !.dv = IF @ = p THEN Null ELSE @,
                          !.dvsize = IF s.dv = p THEN 0 ELSE @]
        /\ s2 = (IF ~s.heap[next].cinuse THEN unlink_chunk(s1, next, SizeOf(s, next)) ELSE s1)
        /\ size = psize + (IF ~s.heap[next].cinuse THEN SizeOf(s, next) ELSE 0)
        /\ h = (IF ~s.heap[next].cinuse THEN set_size_and_pinuse_of_free_chunk(s2.heap, p, size)
                ELSE set_free_with_pinuse(s2.heap, p, size, next))
        /\ t = [s2 EXCEPT !.heap = h]
  OBVIOUS
<1>2. DOMAIN s = Fields
  BY DEF Formed
<1>3. SameMemory(s1, s) /\ s1.topsize = s.topsize
  BY <1>1, <1>2, JoinsBackKeeps
<1>4. SameMemory(s2, s)
  BY <1>1, <1>3, ChunkBinsOnly, BinsSameMemory DEF SameMemory
<1>5. SameMemory(t, s)
  BY <1>1, <1>4 DEF SameMemory, Fields
<1>6. Shrunk(s1, s) /\ Shrunk(s2, s) /\ Shrunk(t, s)
  BY <1>3, <1>4, <1>5 DEF SameMemory, Shrunk, Formed
<1>7. CASE next = s.top
  <2>1. psize \in Int
    BY <1>1 DEF NextChunk
  <2>2. SameMemory(q, s) /\ q.topsize = s.topsize + psize
    BY <1>1, <1>3 DEF SameMemory, Fields
  <2>3. Shrunk(sys_trim(q, 0, refused), s) /\ Shrunk(q, s)
    <3>1. Formed(q) /\ q.topsize \in Int
      BY <2>1, <2>2 DEF SameMemory, Formed
    <3>2. Shrunk(sys_trim(q, 0, refused), q)
      BY <3>1, TrimShrinks
    <3> QED
      BY <2>2, <3>2 DEF SameMemory, Shrunk, Formed
  <2>4. /\ NextChunk(s, mem) = s.top
        /\ q = [JoinsBack(s, mem) EXCEPT !.top = p, !.topsize = @ + psize,
                   !.heap = WriteHead(@, p, psize + s.topsize, FALSE, TRUE),
                   !.dv = IF @ = p THEN Null ELSE @,
                   !.dvsize = IF s.dv = p THEN 0 ELSE @]
        /\ p = (IF ~s.heap[mem].pinuse THEN mem - s.heap[mem].foot ELSE mem)
        /\ psize = NextChunk(s, mem) - p
    BY <1>1, <1>7, Zenon
  <2>5. Free(s, mem, refused) = IF q.topsize > q.trim_check THEN sys_trim(q, 0, refused) ELSE q
    BY <2>4 DEF Free
  <2> QED
    BY <2>3, <2>5
<1>8. CASE next # s.top /\ next = s.dv
  <2>1. Free(s, mem, refused) = [s1 EXCEPT !.dv = p, !.dvsize = @ + psize,
                              !.heap = set_size_and_pinuse_of_free_chunk(@, p, psize + s.dvsize)]
    BY <1>1, <1>8 DEF Free
  <2> QED
    BY <1>6, <2>1 DEF Shrunk, Fields
<1>9. CASE next # s.top /\ next # s.dv /\ p = s.dv
  <2>1. Free(s, mem, refused) = [s2 EXCEPT !.dvsize = size, !.heap = h]
    BY <1>1, <1>9 DEF Free
  <2> QED
    BY <1>6, <2>1 DEF Shrunk, Fields
<1>10. CASE next # s.top /\ next # s.dv /\ p # s.dv
  <2>1. Free(s, mem, refused) = InsertFreed(t, p, size, refused)
    BY <1>1, <1>10 DEF Free
  <2> QED
    BY <1>5, <2>1, FreeInsertShrinks
<1> QED
  BY <1>7, <1>8, <1>9, <1>10

-----------------------------------------------------------------------------
(* The chunk that comes from the system. *)

\* A new dv leaves the memory of the mspace alone.
LEMMA ReplaceDvKeeps ==
  ASSUME NEW s, DOMAIN s = Fields, NEW p, NEW size
  PROVE  SameMemory(replace_dv(s, p, size), s)
<1>1. PICK t : t = IF s.dvsize = 0 THEN s ELSE insert_small_chunk(s, s.dv, s.dvsize)
  OBVIOUS
<1>2. SameMemory(t, s)
  BY <1>1, SmallBinsOnly, BinsSameMemory DEF SameMemory
<1>3. replace_dv(s, p, size) = [t EXCEPT !.dv = p, !.dvsize = size]
  BY <1>1 DEF replace_dv
<1> QED
  BY <1>2, <1>3 DEF SameMemory, Fields

\* A chunk of a bin, of dv or of top that is given out
Served(got, s, p) == SameMemory(got.m, s) /\ got.p = p

LEMMA CarveReplaceDv ==
  ASSUME NEW s, DOMAIN s = Fields, NEW p, NEW nb
  PROVE  Served(Carve(s, p, nb, replace_dv), s, p)
<1>1. PICK h, rsize : rsize = SizeOf(s, p) - nb /\ h = set_size_and_pinuse_of_free_chunk(s.heap, p + nb, rsize)
  OBVIOUS
<1>2. PICK t, u : /\ t = [s EXCEPT !.heap = set_inuse_and_pinuse(@, p, rsize + nb)]
                  /\ u = [s EXCEPT !.heap = set_size_and_pinuse_of_inuse_chunk(h, p, nb)]
  OBVIOUS
<1>3. SameMemory(t, s) /\ SameMemory(u, s)
  BY <1>2 DEF SameMemory, Fields
<1>4. Carve(s, p, nb, replace_dv)
        = [m |-> IF rsize < MIN_CHUNK_SIZE THEN t ELSE replace_dv(u, p + nb, rsize), p |-> p]
  BY <1>1, <1>2 DEF Carve, Got
<1>5. SameMemory(replace_dv(u, p + nb, rsize), s)
  BY <1>3, ReplaceDvKeeps DEF SameMemory
<1> QED
  BY <1>3, <1>4, <1>5 DEF Served

LEMMA CarveInsert ==
  ASSUME NEW s, DOMAIN s = Fields, NEW p, NEW nb
  PROVE  Served(Carve(s, p, nb, insert_chunk), s, p)
<1>1. PICK h, rsize : rsize = SizeOf(s, p) - nb /\ h = set_size_and_pinuse_of_free_chunk(s.heap, p + nb, rsize)
  OBVIOUS
<1>2. PICK t, u : /\ t = [s EXCEPT !.heap = set_inuse_and_pinuse(@, p, rsize + nb)]
                  /\ u = [s EXCEPT !.heap = set_size_and_pinuse_of_inuse_chunk(h, p, nb)]
  OBVIOUS
<1>3. SameMemory(t, s) /\ SameMemory(u, s)
  BY <1>2 DEF SameMemory, Fields
<1>4. Carve(s, p, nb, insert_chunk)
        = [m |-> IF rsize < MIN_CHUNK_SIZE THEN t ELSE insert_chunk(u, p + nb, rsize), p |-> p]
  BY <1>1, <1>2 DEF Carve, Got
<1>5. SameMemory(insert_chunk(u, p + nb, rsize), s)
  BY <1>3, ChunkBinsOnly, BinsSameMemory DEF SameMemory
<1> QED
  BY <1>3, <1>4, <1>5 DEF Served

\* So does what dv serves.
LEMMA FromDvKeeps ==
  ASSUME NEW s, DOMAIN s = Fields, NEW nb
  PROVE  SameMemory(FromDv(s, nb).m, s)
<1>1. PICK d, h, rsize :
        /\ d = [s EXCEPT !.dv = Null, !.dvsize = 0] /\ rsize = SizeOf(d, s.dv) - nb
        /\ h = set_size_and_pinuse_of_free_chunk(d.heap, s.dv + nb, rsize)
  OBVIOUS
<1>2. PICK t, u, v : /\ t = [d EXCEPT !.heap = set_inuse_and_pinuse(@, s.dv, rsize + nb)]
                     /\ u = [d EXCEPT !.heap = set_size_and_pinuse_of_inuse_chunk(h, s.dv, nb)]
                     /\ v = [u EXCEPT !.dv = s.dv + nb, !.dvsize = rsize]
  OBVIOUS
<1>3. SameMemory(d, s)
  BY <1>1 DEF SameMemory, Fields
<1>4. SameMemory(t, s) /\ SameMemory(u, s)
  BY <1>2, <1>3 DEF SameMemory, Fields
<1>5. SameMemory(v, s)
  BY <1>2, <1>4 DEF SameMemory, Fields
<1>6. FromDv(s, nb).m = IF rsize < MIN_CHUNK_SIZE THEN t ELSE v
  BY <1>1, <1>2 DEF FromDv, Carve, Got
<1> QED
  BY <1>4, <1>5, <1>6

\* The head of the chunk that top served
LEMMA FromTopGives ==
  ASSUME NEW s, DOMAIN s = Fields, NEW nb, NEW got, got = FromTop(s, nb)
  PROVE  /\ Served(got, s, s.top)
         /\ s.top \in Nat /\ nb \in Nat \ {0} =>
              s.top \in DOMAIN got.m.heap /\ SizeOf(got.m, s.top) = nb
<1>1. PICK h : h = WriteHead(s.heap, s.top + nb, s.topsize - nb, FALSE, TRUE)
  OBVIOUS
<1>2. PICK w : /\ w = [s EXCEPT !.top = @ + nb, !.topsize = @ - nb,
                              !.heap = set_size_and_pinuse_of_inuse_chunk(
                                         WriteHead(@, s.top + nb, s.topsize - nb, FALSE, TRUE), s.top, nb)]
              /\ got = [m |-> w, p |-> s.top]
  BY DEF FromTop, Got
<1>3. SameMemory(w, s) /\ w.heap = set_size_and_pinuse_of_inuse_chunk(h, s.top, nb)
  <2>1. "heap" \in DOMAIN s
    BY DEF Fields
  <2>2. w.heap = set_size_and_pinuse_of_inuse_chunk(
                   WriteHead(s.heap, s.top + nb, s.topsize - nb, FALSE, TRUE), s.top, nb)
    BY <1>2, <2>1
  <2>3. SameMemory(w, s)
    BY <1>2 DEF SameMemory, Fields
  <2> QED
    BY <1>1, <2>2, <2>3, Zenon
<1>4. Served(got, s, s.top) /\ got.m.heap = set_size_and_pinuse_of_inuse_chunk(h, s.top, nb)
  <2>1. got.m = w /\ got.p = s.top
    BY <1>2
  <2> QED
    BY <1>3, <2>1 DEF Served
<1> QED
  BY <1>4, InuseChunk DEF SizeOf

\* A chunk of a bin
LEMMA FromBinsKeeps ==
  ASSUME NEW s, DOMAIN s = Fields, NEW nb
  PROVE  SameMemory(FromBins(s, nb).m, s)
<1>1. \A i : SameMemory(FromSmallBin(s, nb, i).m, s)
  <2> SUFFICES ASSUME NEW i PROVE SameMemory(FromSmallBin(s, nb, i).m, s)
    OBVIOUS
  <2>1. PICK t, p : t = unlink_first_small_chunk(s, i) /\ p = Head(s.smallbins[i])
    OBVIOUS
  <2>2. SameMemory(t, s)
    BY <2>1, SmallBinsOnly, BinsSameMemory
  <2>3. Served(Carve(t, p, nb, replace_dv), t, p)
    BY <2>2, CarveReplaceDv DEF SameMemory
  <2> QED
    BY <2>1, <2>2, <2>3 DEF FromSmallBin, Served, SameMemory
<1>2. SameMemory(tmalloc_small(s, nb).m, s)
  <2>1. PICK v, t : v = SmallFit(s, nb) /\ t = unlink_large_chunk(s, v)
    OBVIOUS
  <2>2. SameMemory(t, s)
    BY <2>1, UnlinkLargeBinsOnly, BinsSameMemory
  <2>3. Served(Carve(t, v, nb, replace_dv), t, v)
    BY <2>2, CarveReplaceDv DEF SameMemory
  <2> QED
    BY <2>1, <2>2, <2>3 DEF tmalloc_small, Served, SameMemory
<1>3. SameMemory(s, s) /\ None(s).m = s
  BY DEF SameMemory, None, Got
<1>4. SameMemory(tmalloc_large(s, nb).m, s)
  <2>1. PICK v, t : v = LargeFit(s, nb) /\ t = unlink_large_chunk(s, v)
    OBVIOUS
  <2>2. SameMemory(t, s)
    BY <2>1, UnlinkLargeBinsOnly, BinsSameMemory
  <2>3. Served(Carve(t, v, nb, insert_chunk), t, v)
    BY <2>2, CarveInsert DEF SameMemory
  <2> QED
    BY <1>3, <2>1, <2>2, <2>3 DEF tmalloc_large, Served, SameMemory
<1> QED
  BY <1>1, <1>2, <1>3, <1>4 DEF FromBins

\* The chunk that the system's memory serves: at top, or at the memory.
LEMMA AddSegmentTop ==
  ASSUME NEW s, DOMAIN s = Fields, NEW tbase, NEW tsize
  PROVE  /\ DOMAIN add_segment(s, tbase, tsize) = Fields
         /\ add_segment(s, tbase, tsize).top = tbase
         /\ add_segment(s, tbase, tsize).topsize = tsize - TOP_FOOT_SIZE
<1>1. PICK end, csp, s1 : /\ end = s.segs[1].base + s.segs[1].size /\ csp = RecordPlace(s, end)
                          /\ s1 = init_top(s, tbase, tsize - TOP_FOOT_SIZE)
  OBVIOUS
<1>2. DOMAIN s1 = Fields /\ s1.top = tbase /\ s1.topsize = tsize - TOP_FOOT_SIZE
  BY <1>1 DEF init_top, Fields
<1>3. PICK s2 : s2 = [s1 EXCEPT !.heap = Fenceposts(set_size_and_pinuse_of_inuse_chunk(@, csp, SegmentRecordSize),
                                                     csp + SegmentRecordSize, end),
                                 !.segs = <<[base |-> tbase, size |-> tsize, extern |-> FALSE, rec |-> Null]>>
                                            \o <<[@[1] EXCEPT !.rec = csp]>> \o Tail(@)]
  OBVIOUS
<1>4. DOMAIN s2 = Fields /\ s2.top = tbase /\ s2.topsize = tsize - TOP_FOOT_SIZE
  BY <1>2, <1>3 DEF Fields
<1>5. PICK s3 : s3 = [s2 EXCEPT !.heap = set_free_with_pinuse(@, s.top, csp - s.top, csp)]
  OBVIOUS
<1>6. DOMAIN s3 = Fields /\ s3.top = tbase /\ s3.topsize = tsize - TOP_FOOT_SIZE
  BY <1>4, <1>5 DEF Fields
<1>7. add_segment(s, tbase, tsize)
        = IF csp = s.top THEN s2 ELSE insert_chunk(s3, s.top, csp - s.top)
  BY <1>1, <1>3, <1>5 DEF add_segment
<1>8. BinsOnly(insert_chunk(s3, s.top, csp - s.top), s3)
  BY ChunkBinsOnly
<1> QED
  BY <1>4, <1>6, <1>7, <1>8 DEF BinsOnly

\* The head of the chunk that was cut from memory in front of a segment
LEMMA PrependGives ==
  ASSUME NEW s, DOMAIN s = Fields, NEW a \in Nat, NEW b \in Nat, NEW nb \in Nat \ {0}, a + nb < b,
         s.topsize \in Nat, s.dvsize \in Nat, SizeOf(s, b) \in Nat
  PROVE  LET r == prepend_alloc(s, a, b, nb) IN a \in DOMAIN r.heap /\ SizeOf(r, a) = nb
<1>1. PICK q, qsize, s1, osize :
        /\ q = a + nb /\ qsize = b - q /\ osize = SizeOf(s, b)
        /\ s1 = [s EXCEPT !.heap = set_size_and_pinuse_of_inuse_chunk(@, a, nb)]
  OBVIOUS
<1>2. PICK h : h = s1.heap
  OBVIOUS
<1>3. DOMAIN s1 = Fields /\ a \in DOMAIN h /\ h[a].size = nb
  <2>1. DOMAIN s1 = Fields /\ h = set_size_and_pinuse_of_inuse_chunk(s.heap, a, nb)
    BY <1>1, <1>2 DEF Fields
  <2> QED
    BY <2>1, InuseChunk
<1>4. /\ q \in Int /\ a < q /\ qsize \in Int /\ a < q + qsize /\ a < b /\ osize \in Nat
      /\ a < q + (qsize + s.topsize) /\ a < q + (s.topsize + qsize) /\ a < q + (qsize + s.dvsize)
      /\ a < q + (s.dvsize + qsize) /\ a < q + (qsize + osize) /\ a < b + osize
  BY <1>1
<1>5. PICK r : r = prepend_alloc(s, a, b, nb)
  OBVIOUS
<1>6. SUFFICES a \in DOMAIN r.heap /\ r.heap[a] = h[a]
  BY <1>3, <1>5 DEF SizeOf
<1>7. CASE b = s.top
  <2>1. r = [s1 EXCEPT !.top = q, !.topsize = @ + qsize,
                       !.heap = WriteHead(@, q, s.topsize + qsize, FALSE, TRUE)]
    BY <1>1, <1>5, <1>7 DEF prepend_alloc
  <2>2. r.heap = WriteHead(h, q, s.topsize + qsize, FALSE, TRUE)
    BY <1>2, <1>3, <2>1 DEF Fields
  <2>3. a # q /\ a < q /\ (a < q \/ a = q) /\ a \in DOMAIN h
    BY <1>3, <1>4
  <2>4. PICK tag : r.heap = Write(h, q, tag)
    BY <2>2 DEF WriteHead
  <2>5. a \in DOMAIN Write(h, q, tag) /\ Write(h, q, tag)[a] = h[a]
    BY <2>3, WriteKeeps
  <2> QED
    BY <2>4, <2>5
<1>8. CASE b # s.top /\ b = s.dv
  <2>1. r = [s1 EXCEPT !.dv = q, !.dvsize = @ + qsize,
                       !.heap = set_size_and_pinuse_of_free_chunk(@, q, s.dvsize + qsize)]
    BY <1>1, <1>5, <1>8 DEF prepend_alloc
  <2>2. r.heap = set_size_and_pinuse_of_free_chunk(h, q, s.dvsize + qsize)
    BY <1>2, <1>3, <2>1 DEF Fields
  <2>3. /\ s.dvsize + qsize \in Int /\ q \in Int /\ a < q /\ a < q + (s.dvsize + qsize)
        /\ a \in DOMAIN h
    BY <1>3, <1>4
  <2>4. /\ a \in DOMAIN set_size_and_pinuse_of_free_chunk(h, q, s.dvsize + qsize)
        /\ set_size_and_pinuse_of_free_chunk(h, q, s.dvsize + qsize)[a] = h[a]
    BY <2>3, FreeBehind
  <2> QED
    BY <2>2, <2>4
<1>9. CASE b # s.top /\ b # s.dv /\ s.heap[b].cinuse
  <2>1. PICK t : t = [s1 EXCEPT !.heap = set_free_with_pinuse(@, q, qsize, b)]
    OBVIOUS
  <2>2. r = insert_chunk(t, q, qsize)
    BY <1>1, <1>5, <1>9, <2>1 DEF prepend_alloc
  <2>3. DOMAIN t = Fields /\ t.heap = set_free_with_pinuse(h, q, qsize, b)
    BY <1>2, <1>3, <2>1 DEF Fields
  <2>4. r.heap = set_free_with_pinuse(h, q, qsize, b)
    BY <2>2, <2>3, ChunkBinsOnly DEF BinsOnly
  <2> QED
    BY <1>3, <1>4, <2>4, FreeBehindWith
<1>10. CASE b # s.top /\ b # s.dv /\ ~s.heap[b].cinuse
  <2>1. PICK u, t : /\ u = unlink_chunk(s1, b, osize)
                    /\ t = [u EXCEPT !.heap = set_free_with_pinuse(@, q, qsize + osize, b + osize)]
    OBVIOUS
  <2>2. r = insert_chunk(t, q, qsize + osize)
    BY <1>1, <1>5, <1>10, <2>1 DEF prepend_alloc
  <2>3. DOMAIN u = Fields /\ u.heap = h
    BY <1>2, <1>3, <2>1, ChunkBinsOnly DEF BinsOnly
  <2>4. DOMAIN t = Fields /\ t.heap = set_free_with_pinuse(h, q, qsize + osize, b + osize)
    BY <2>1, <2>3 DEF Fields
  <2>5. r.heap = set_free_with_pinuse(h, q, qsize + osize, b + osize)
    BY <2>2, <2>4, ChunkBinsOnly DEF BinsOnly
  <2>6. qsize + osize \in Int /\ b + osize \in Int
    BY <1>4
  <2> QED
    BY <1>3, <1>4, <2>5, <2>6, FreeBehindWith
<1> QED
  BY <1>7, <1>8, <1>9, <1>10

\* Where the chunk is, how long it is
Obtained(got, s, tbase, nb) ==
  /\ got.p \in {s.top, tbase} /\ got.p \in DOMAIN got.m.heap /\ SizeOf(got.m, got.p) = nb

\* The three ways of sys_alloc: the segment grows, memory is prepended, or a segment is added
LEMMA SysAllocGives ==
  ASSUME NEW s, DOMAIN s = Fields, s.segs \in Seq(Segments), s.segs # <<>>,
         s.top \in Nat, s.topsize \in Nat, s.dvsize \in Nat,
         \A k \in DOMAIN s.segs : SizeOf(s, s.segs[k].base) \in Nat,
         NEW nb \in 1..MAX_SIZE_T, NEW tbase \in Nat,
         SegmentSize(nb) # NoSize, NEW got, got = sys_alloc(s, nb, tbase)
  PROVE  Obtained(got, s, tbase, nb)
<1>1. PICK tsize : tsize = SegmentSize(nb) /\ tsize \in Nat /\ tsize > nb + TOP_FOOT_SIZE
  BY SegmentOfChunk, SizeTFacts
<1>2. nb \in Nat \ {0} /\ TOP_FOOT_SIZE = 80 /\ tbase # Fail
  BY FootIs, SizeTFacts DEF Fail
<1>3. PICK s1, touches, before :
        /\ s1 = Grown(s, tbase, tsize)
        /\ touches = (~s.segs[1].extern /\ s.segs[1].base + s.segs[1].size = tbase)
        /\ before = {k \in 1..Len(s.segs) : ~s.segs[k].extern /\ s.segs[k].base = tbase + tsize}
  OBVIOUS
<1>4. PICK s2, w : /\ w = [s1 EXCEPT !.segs[1].size = @ + tsize]
                   /\ s2 = IF touches THEN init_top(w, s.top, s.topsize + tsize)
                           ELSE add_segment(s1, tbase, tsize)
  OBVIOUS
<1>5. /\ DOMAIN s1 = Fields /\ s1.heap = s.heap /\ s1.segs = s.segs /\ s1.top = s.top
      /\ s1.topsize = s.topsize /\ s1.dvsize = s.dvsize
  BY <1>3 DEF Grown, Fields
<1>6. CASE before # {} /\ ~touches
  <2>1. PICK k : k = Min(before)
    OBVIOUS
  <2>2. k \in 1..Len(s.segs) /\ s.segs[k].base = tbase + tsize
    <3>1. before \in SUBSET Nat
      BY <1>3
    <3> QED
      BY <1>3, <1>6, <2>1, <3>1, LeastIn
  <2>3. PICK t : t = [s1 EXCEPT !.segs[k].base = tbase, !.segs[k].size = @ + tsize]
    OBVIOUS
  <2>4. got = [m |-> prepend_alloc(t, tbase, tbase + tsize, nb), p |-> tbase]
    BY <1>1, <1>2, <1>3, <1>6, <2>1, <2>3 DEF sys_alloc, Got
  <2>5. DOMAIN t = Fields /\ t.heap = s.heap /\ t.topsize = s.topsize /\ t.dvsize = s.dvsize
    BY <1>5, <2>3 DEF Fields
  <2>6. SizeOf(t, tbase + tsize) \in Nat
    BY <2>2, <2>5 DEF SizeOf
  <2>7. tbase + tsize \in Nat /\ tbase + nb < tbase + tsize
    BY <1>1, <1>2
  <2> QED
    BY <1>2, <2>4, <2>5, <2>6, <2>7, PrependGives DEF Obtained
<1>7. CASE ~(before # {} /\ ~touches)
  <2>1. got = IF FitsTop(s2, nb) THEN FromTop(s2, nb) ELSE None(s2)
    BY <1>1, <1>2, <1>3, <1>4, <1>7 DEF sys_alloc
  <2>2. /\ DOMAIN s2 = Fields /\ s2.top \in {s.top, tbase} /\ nb < s2.topsize
    <3>1. CASE touches
      <4>1. DOMAIN w = Fields
        BY <1>4, <1>5 DEF Fields
      <4>2. DOMAIN s2 = Fields /\ s2.top = s.top /\ s2.topsize = s.topsize + tsize
        BY <1>4, <3>1, <4>1 DEF init_top, Fields
      <4> QED
        BY <1>1, <1>2, <4>2
    <3>2. CASE ~touches
      <4>1. DOMAIN s2 = Fields /\ s2.top = tbase /\ s2.topsize = tsize - TOP_FOOT_SIZE
        BY <1>4, <1>5, <3>2, AddSegmentTop
      <4> QED
        BY <1>1, <1>2, <4>1
    <3> QED
      BY <3>1, <3>2
  <2>3. got = FromTop(s2, nb) /\ s2.top \in Nat
    BY <2>1, <2>2 DEF FitsTop
  <2> QED
    BY <1>2, <2>2, <2>3, FromTopGives DEF Served, Obtained
<1> QED
  BY <1>6, <1>7

-----------------------------------------------------------------------------
(* No free chunk is large enough when the system is asked. *)

\* Which chunk of the bins serves a request that dv is too small for
LEMMA FromBinsGives ==
  ASSUME NEW s, DOMAIN s = Fields, NEW nb, ~(nb <= s.dvsize), nb > s.dvsize
  PROVE  /\ is_small(nb) /\ SmallBinsFor(s, nb) # {} =>
              FromBins(s, nb).p = Head(s.smallbins[Min(SmallBinsFor(s, nb))])
         /\ is_small(nb) /\ SmallBinsFor(s, nb) = {} /\ NonEmptyTrees(s) # {} =>
              FromBins(s, nb).p = SmallFit(s, nb)
         /\ ~is_small(nb) /\ NonEmptyTrees(s) # {} /\ LargeFit(s, nb) # Null =>
              FromBins(s, nb).p = LargeFit(s, nb)
<1>1. \A i : FromSmallBin(s, nb, i).p = Head(s.smallbins[i])
  <2> SUFFICES ASSUME NEW i PROVE FromSmallBin(s, nb, i).p = Head(s.smallbins[i])
    OBVIOUS
  <2>1. PICK t, p : t = unlink_first_small_chunk(s, i) /\ p = Head(s.smallbins[i])
    OBVIOUS
  <2>2. DOMAIN t = Fields
    BY <2>1, SmallBinsOnly DEF BinsOnly
  <2>3. Served(Carve(t, p, nb, replace_dv), t, p)
    BY <2>2, CarveReplaceDv
  <2> QED
    BY <2>1, <2>3 DEF FromSmallBin, Served
<1>2. tmalloc_small(s, nb).p = SmallFit(s, nb)
  <2>1. PICK v, t : v = SmallFit(s, nb) /\ t = unlink_large_chunk(s, v)
    OBVIOUS
  <2>2. DOMAIN t = Fields
    BY <2>1, UnlinkLargeBinsOnly DEF BinsOnly
  <2>3. Served(Carve(t, v, nb, replace_dv), t, v)
    BY <2>2, CarveReplaceDv
  <2> QED
    BY <2>1, <2>3 DEF tmalloc_small, Served
<1>3. LargeFit(s, nb) # Null => tmalloc_large(s, nb).p = LargeFit(s, nb)
  <2>1. PICK v, t : v = LargeFit(s, nb) /\ t = unlink_large_chunk(s, v)
    OBVIOUS
  <2>2. DOMAIN t = Fields
    BY <2>1, UnlinkLargeBinsOnly DEF BinsOnly
  <2>3. Served(Carve(t, v, nb, insert_chunk), t, v)
    BY <2>2, CarveInsert
  <2>4. v # Null => tmalloc_large(s, nb) = Carve(t, v, nb, insert_chunk)
    BY <2>1 DEF tmalloc_large
  <2> QED
    BY <2>1, <2>3, <2>4 DEF Served
<1> QED
  BY <1>1, <1>2, <1>3 DEF FromBins

LEMMA FirstIsIn ==
  ASSUME NEW X, NEW c \in Seq(X), c # <<>>
  PROVE  Head(c) \in ToSet(c)
<1>1. 1 \in DOMAIN c /\ Head(c) = c[1]
  OBVIOUS
<1> QED
  BY <1>1 DEF ToSet

\* The size of a small bin is below that of any later bin, and of any large chunk.
LEMMA SmallBinSize ==
  ASSUME NEW i \in 0..NSMALLBINS - 1, NEW nb \in Nat, i < small_index(nb) \/ ~is_small(nb)
  PROVE  small_index2size(i) \in Nat /\ small_index2size(i) < nb
<1>1. PICK d \in Nat \ {0}, q \in Nat, r \in Nat :
        d = 2^SMALLBIN_SHIFT /\ NSMALLBINS \in Nat \ {0} /\ q = nb \div d /\ r = nb % d
  <2>1. PICK d \in Nat \ {0} : d = 2^SMALLBIN_SHIFT /\ NSMALLBINS \in Nat \ {0}
    BY BinsAssumption
  <2>2. nb \div d \in Nat /\ nb % d \in 0..d - 1
    <3>1. d \in Nat \ {0} /\ nb \in Nat
      OBVIOUS
    <3> QED
      BY <3>1, Divided
  <2>3. nb % d \in Nat
    BY <2>2
  <2> QED
    BY <2>1, <2>2, <2>3
<1>2. q \in Nat /\ r \in 0..d - 1 /\ nb = q * d + r
  BY <1>1, Divided
<1>3. i < q
  <2>1. small_index(nb) = q /\ (~is_small(nb) => ~(q < NSMALLBINS))
    BY <1>1 DEF small_index, is_small
  <2>2. i \in Nat /\ i < NSMALLBINS /\ NSMALLBINS \in Nat
    BY <1>1
  <2>3. i < q \/ ~(q < NSMALLBINS)
    BY <2>1
  <2> QED
    BY <1>2, <2>2, <2>3
<1>4. i * d + d <= q * d
  <2>1. i \in Nat /\ q \in Nat /\ d \in Nat
    BY <1>1
  <2> QED
    BY <1>3, <2>1, ProductsApart
<1>5. i * d \in Nat /\ q * d \in Nat /\ small_index2size(i) = i * d
  <2>1. small_index2size(i) = i * d
    BY <1>1 DEF small_index2size
  <2>2. i \in Nat /\ q \in Nat /\ d \in Nat
    BY <1>1
  <2>3. i * d \in Nat /\ q * d \in Nat
    BY <2>2
  <2> QED
    BY <2>1, <2>3
<1> QED
  BY <1>1, <1>2, <1>4, <1>5

\* When the bins have nothing and dv is too small, every free chunk is too small.
LEMMA NoChunkFits ==
  ASSUME MallocStateOK, SizesIndexed, NEW nb \in Nat, nb < SizeT, nb < 2^(TREEBIN_SHIFT + IntBits),
         FromBins(m, nb).p = Null, ~(nb <= m.dvsize), NEW q \in FreeChunks
  PROVE  SizeOf(m, q) < nb
<1>1. /\ TypeOK /\ FreeChunks \ {m.dv} = SmallBinned \cup TreeBinned
      /\ \A i \in DOMAIN m.smallbins : \A c \in ToSet(m.smallbins[i]) : SizeOf(m, c) = small_index2size(i)
  BY DEF MallocStateOK, BinsExact
<1>2. /\ DOMAIN m = Fields /\ m.dvsize \in Nat /\ nb > m.dvsize /\ FreeChunks \subseteq DOMAIN m.heap
      /\ DOMAIN m.heap \subseteq Nat \ {Null}
      /\ m.smallbins \in [0..NSMALLBINS - 1 -> Seq(DOMAIN m.heap)]
      /\ m.dv = Null <=> m.dvsize = 0
      /\ m.dv # Null => SizeOf(m, m.dv) = m.dvsize
  <2>1. m.dvsize \in Nat
    BY <1>1 DEF TypeOK
  <2>2. nb > m.dvsize
    BY <2>1
  <2>3. FreeChunks \subseteq DOMAIN m.heap
    BY <1>1 DEF TypeOK, FreeChunks
  <2> QED
    BY <1>1, <2>1, <2>2, <2>3 DEF TypeOK
<1>3. /\ Sound(m)
      /\ \A t \in DOMAIN m.tree : t \in TreeBinned /\ MIN_LARGE_SIZE <= SizeOf(m, t)
      /\ \A c \in TreeBinned : /\ SizeOf(m, c) \in Nat /\ c # Null
                               /\ \E t \in DOMAIN m.tree : SizeOf(m, c) = SizeOf(m, t)
  BY StateIsSound
<1>4. PICK found : found = FoundFor(nb) /\ Best(m, DOMAIN m.tree, nb, found)
  BY FoundIsBest
<1>5. NonEmptyTrees(m) = {} => TreeBinned = {}
  <2>1. SUFFICES ASSUME NonEmptyTrees(m) = {}, NEW c \in TreeBinned PROVE FALSE
    OBVIOUS
  <2>2. PICK t \in DOMAIN m.tree : TRUE
    BY <1>3, <2>1
  <2> QED
    BY <1>3, <2>1, <2>2, NodeSize, RootOfBin DEF NonEmptyTrees
<1>6. ASSUME NEW i \in 0..NSMALLBINS - 1, m.smallbins[i] # <<>> PROVE Head(m.smallbins[i]) # Null
  <2>1. m.smallbins[i] \in Seq(DOMAIN m.heap)
    BY <1>2
  <2>2. Head(m.smallbins[i]) \in ToSet(m.smallbins[i])
    BY <1>6, <2>1, FirstIsIn
  <2>3. ToSet(m.smallbins[i]) \subseteq DOMAIN m.heap
    BY <2>1 DEF ToSet
  <2> QED
    BY <1>2, <2>2, <2>3
<1>7. ASSUME NEW i \in 0..NSMALLBINS - 1, q \in ToSet(m.smallbins[i]) PROVE SizeOf(m, q) < nb
  <2>1. SizeOf(m, q) = small_index2size(i)
    BY <1>1, <1>2, <1>7
  <2>2. CASE ~is_small(nb)
    BY <2>1, <2>2, SmallBinSize
  <2>3. CASE is_small(nb)
    <3>1. SmallBinsFor(m, nb) = {}
      <4>1. SUFFICES ASSUME SmallBinsFor(m, nb) # {} PROVE FALSE
        OBVIOUS
      <4>2. SmallBinsFor(m, nb) \in SUBSET (0..NSMALLBINS - 1)
            /\ \A j \in SmallBinsFor(m, nb) : m.smallbins[j] # <<>>
        <5>1. small_index(nb) \in Nat
          BY BinsAssumption, Divided DEF small_index
        <5> QED
          BY <5>1, BinsAssumption DEF SmallBinsFor
      <4>3. Min(SmallBinsFor(m, nb)) \in SmallBinsFor(m, nb)
        <5>1. SmallBinsFor(m, nb) \in SUBSET Nat
          BY <4>2
        <5> QED
          BY <4>1, <5>1, LeastIn
      <4>4. FromBins(m, nb).p = Head(m.smallbins[Min(SmallBinsFor(m, nb))])
        BY <1>2, <2>3, <4>1, FromBinsGives
      <4> QED
        BY <1>6, <4>2, <4>3, <4>4
    <3>2. m.smallbins[i] # <<>>
      BY <1>7 DEF ToSet
    <3>3. i < small_index(nb)
      <4>1. small_index(nb) \in Nat
        BY BinsAssumption, Divided DEF small_index
      <4>2. ASSUME small_index(nb) <= i PROVE i \in SmallBinsFor(m, nb)
        BY <3>2, <4>1, <4>2, BinsAssumption DEF SmallBinsFor
      <4> QED
        BY <3>1, <4>1, <4>2
    <3> QED
      BY <2>1, <3>3, SmallBinSize
  <2> QED
    BY <2>2, <2>3
<1>8. ASSUME q \in TreeBinned PROVE SizeOf(m, q) < nb
  <2>1. NonEmptyTrees(m) # {}
    BY <1>5, <1>8
  <2>2. PICK t \in DOMAIN m.tree : SizeOf(m, q) = SizeOf(m, t) /\ SizeOf(m, q) \in Nat
    BY <1>3, <1>8
  <2>3. found = Null
    <3>1. CASE ~is_small(nb)
      BY <1>2, <1>4, <2>1, <3>1, FromBinsGives DEF FoundFor
    <3>2. CASE is_small(nb) /\ SmallBinsFor(m, nb) = {}
      BY <1>2, <1>4, <2>1, <3>2, FromBinsGives DEF FoundFor
    <3>3. CASE is_small(nb) /\ SmallBinsFor(m, nb) # {}
      <4>2. SmallBinsFor(m, nb) \in SUBSET (0..NSMALLBINS - 1)
            /\ \A j \in SmallBinsFor(m, nb) : m.smallbins[j] # <<>>
        <5>1. small_index(nb) \in Nat
          BY BinsAssumption, Divided DEF small_index
        <5> QED
          BY <5>1, BinsAssumption DEF SmallBinsFor
      <4>3. Min(SmallBinsFor(m, nb)) \in SmallBinsFor(m, nb)
        <5>1. SmallBinsFor(m, nb) \in SUBSET Nat
          BY <4>2
        <5> QED
          BY <3>3, <5>1, LeastIn
      <4>4. FromBins(m, nb).p = Head(m.smallbins[Min(SmallBinsFor(m, nb))])
        BY <1>2, <3>3, FromBinsGives
      <4> QED
        BY <1>6, <4>2, <4>3, <4>4
    <3> QED
      BY <3>1, <3>2, <3>3
  <2>4. ~(nb <= SizeOf(m, t))
    BY <1>4, <2>2, <2>3 DEF Best
  <2> QED
    BY <2>2, <2>4
<1>9. ASSUME q = m.dv PROVE SizeOf(m, q) < nb
  BY <1>2, <1>9
<1>10. q = m.dv \/ q \in TreeBinned \/ \E i \in 0..NSMALLBINS - 1 : q \in ToSet(m.smallbins[i])
  BY <1>1, <1>2 DEF SmallBinned
<1> QED
  BY <1>7, <1>8, <1>9, <1>10

-----------------------------------------------------------------------------
(* The system is asked last. *)

LEMMA ChunkSizeIs ==
  ASSUME NEW bytes \in 0..MAX_SIZE_T
  PROVE  ChunkSize(bytes) \in 1..MAX_SIZE_T
<1>1. CASE bytes >= MAX_REQUEST
  BY <1>1, SizeTFacts DEF ChunkSize
<1>2. CASE ~(bytes >= MAX_REQUEST)
  <2>1. bytes \in Nat /\ bytes < MAX_REQUEST
    BY <1>2, SizeTFacts
  <2>2. /\ request2size(bytes) \in Nat /\ MIN_CHUNK_SIZE <= request2size(bytes)
        /\ request2size(bytes) < MAX_SIZE_T
    BY <2>1, ChunkOfRequest
  <2> QED
    BY <1>2, <2>2, SizeTFacts DEF ChunkSize, MIN_CHUNK_SIZE, SIZE_T_SIZE
<1> QED
  BY <1>1, <1>2

\* What malloc comes to
LEMMA MallocWays ==
  ASSUME NEW s, DOMAIN s = Fields, NEW bytes, NEW tbase, NEW nb, nb = ChunkSize(bytes),
         NEW got, got = Malloc(s, bytes, tbase)
  PROVE  \/ SameMemory(got.m, s)
         \/ /\ FromBins(s, nb).p = Null /\ ~(nb <= s.dvsize) /\ ~FitsTop(s, nb)
            /\ SegmentSize(nb) # NoSize /\ tbase # Fail /\ got = sys_alloc(s, nb, tbase)
<1>1. got = IF FromBins(s, nb).p # Null THEN FromBins(s, nb)
            ELSE IF nb <= s.dvsize THEN FromDv(s, nb)
            ELSE IF FitsTop(s, nb) THEN FromTop(s, nb)
            ELSE sys_alloc(s, nb, tbase)
  BY DEF Malloc
<1>2. SameMemory(FromBins(s, nb).m, s) /\ SameMemory(FromDv(s, nb).m, s)
  BY FromBinsKeeps, FromDvKeeps
<1>3. SameMemory(FromTop(s, nb).m, s)
  BY FromTopGives DEF Served
<1>4. SegmentSize(nb) = NoSize \/ tbase = Fail => SameMemory(sys_alloc(s, nb, tbase).m, s)
  <2>1. SameMemory(s, s) /\ None(s).m = s
    BY DEF SameMemory, None, Got
  <2>2. SegmentSize(nb) = NoSize \/ tbase = Fail => sys_alloc(s, nb, tbase) = None(s)
    BY DEF sys_alloc
  <2> QED
    BY <2>1, <2>2
<1> QED
  BY <1>1, <1>2, <1>3, <1>4

\* What the segments hold, and how long the heads are, in every state
Ordered == MallocStateOK /\ SegmentsHold /\ SizesIndexed

\* A place that the system gives is in no segment.
LEMMA PlaceIsNew ==
  ASSUME TypeOK, NEW nb \in 1..MAX_SIZE_T, SegmentSize(nb) # NoSize,
         NEW tbase \in Places(SegmentSize(nb)), tbase # Fail
  PROVE  tbase \in Nat /\ tbase \notin DOMAIN m.heap
<1>1. PICK size \in Nat : size = SegmentSize(nb) /\ size > nb + TOP_FOOT_SIZE /\ size % Granularity = 0
  BY SegmentOfChunk, SizeTFacts
<1>2. Granularity \in Nat \ {0} /\ TOP_FOOT_SIZE = 80 /\ size > 0
  BY <1>1, FootIs, SizeTFacts
<1>3. /\ tbase \in Bases
      /\ \A u \in {tbase + k * Granularity : k \in 0..(size \div Granularity) - 1} :
           \A k \in 1..Len(m.segs) : ~Holds(m.segs[k], u)
  BY <1>1 DEF Places
<1>4. tbase \in Nat
  BY <1>3, MspaceAssumption
<1>5. size \div Granularity \in Nat /\ size = (size \div Granularity) * Granularity + (size % Granularity)
  BY <1>2, Divided
<1>6. 0 \in 0..(size \div Granularity) - 1
  <2>1. size \div Granularity # 0
    BY <1>1, <1>2, <1>5
  <2> QED
    BY <1>5, <2>1
<1>7. tbase = tbase + 0 * Granularity
  BY <1>2, <1>4
<1>8. \A k \in 1..Len(m.segs) : ~Holds(m.segs[k], tbase)
  BY <1>3, <1>6, <1>7
<1>9. \A q \in DOMAIN m.heap : \E k \in 1..Len(m.segs) : Holds(m.segs[k], q)
  BY DEF TypeOK
<1> QED
  BY <1>4, <1>8, <1>9

\* The chunk of a malloc that made the footprint greater.
LEMMA AskedLast ==
  ASSUME Ordered, NEW bytes \in 0..MAX_SIZE_T, NEW got \in Outcomes(bytes),
         got.m.footprint > m.footprint,
         \A q \in DOMAIN got.m.heap : SizeOf(got.m, q) < 2^(TREEBIN_SHIFT + IntBits)
  PROVE  /\ got.p # Null /\ got.p \notin Held
         /\ \A q \in FreeChunks : SizeOf(m, q) < SizeOf(got.m, got.p)
         /\ ~FitsTop(m, SizeOf(got.m, got.p))
<1>1. PICK nb \in 1..MAX_SIZE_T : nb = ChunkSize(bytes)
  BY ChunkSizeIs
<1>2. PICK tbase \in Places(SegmentSize(nb)) : got = Malloc(m, bytes, tbase)
  BY <1>1 DEF Outcomes
<1>3. /\ TypeOK /\ DOMAIN m = Fields /\ m.segs \in Seq(Segments) /\ m.segs # <<>>
      /\ m.topsize \in Nat /\ m.dvsize \in Nat /\ m.footprint \in Nat /\ m.top \in DOMAIN m.heap
      /\ DOMAIN m.heap \subseteq Nat \ {Null} /\ \A q \in DOMAIN m.heap : SizeOf(m, q) \in Nat
      /\ \A k \in DOMAIN m.segs : m.segs[k].base \in DOMAIN m.heap
      /\ \A p \in Held : p \in DOMAIN m.heap /\ m.heap[p].cinuse
  <2>1. TypeOK
    BY DEF Ordered, MallocStateOK
  <2>2. \A q \in DOMAIN m.heap : SizeOf(m, q) \in Nat
    <3>1. \A q \in DOMAIN m.heap : m.heap[q].size \in 1..SizeT - 1
      BY <2>1 DEF TypeOK
    <3> QED
      BY <3>1, SizeTFacts DEF SizeOf
  <2> QED
    BY <2>1, <2>2 DEF TypeOK
<1>4. ~SameMemory(got.m, m)
  BY <1>3 DEF SameMemory
<1>5. /\ FromBins(m, nb).p = Null /\ ~(nb <= m.dvsize) /\ ~FitsTop(m, nb)
      /\ SegmentSize(nb) # NoSize /\ tbase # Fail /\ got = sys_alloc(m, nb, tbase)
  BY <1>1, <1>2, <1>3, <1>4, MallocWays
<1>6. tbase \in Nat /\ tbase \notin DOMAIN m.heap
  BY <1>3, <1>5, PlaceIsNew
<1>7. Obtained(got, m, tbase, nb)
  <2>1. m.top \in Nat /\ \A k \in DOMAIN m.segs : SizeOf(m, m.segs[k].base) \in Nat
    BY <1>3
  <2> QED
    BY <1>3, <1>5, <1>6, <2>1, SysAllocGives
<1>8. got.p \in {m.top, tbase} /\ got.p \in DOMAIN got.m.heap /\ SizeOf(got.m, got.p) = nb
  BY <1>7 DEF Obtained
<1>9. ~m.heap[m.top].cinuse
  <2>1. 1 \in 1..Len(m.segs)
    BY <1>3
  <2> QED
    BY <2>1 DEF Ordered, MallocStateOK, ChunksTile
<1>10. got.p \notin Held
  BY <1>3, <1>6, <1>8, <1>9
<1>11. got.p # Null
  <2>1. tbase # Null
    BY <1>5, MspaceAssumption DEF Places
  <2> QED
    BY <1>3, <1>8, <2>1
<1>12. \A q \in FreeChunks : SizeOf(m, q) < nb
  <2>1. nb \in Nat /\ nb < SizeT /\ nb < 2^(TREEBIN_SHIFT + IntBits)
    BY <1>8, SizeTFacts
  <2>2. MallocStateOK /\ SizesIndexed
    BY DEF Ordered
  <2> QED
    BY <1>5, <2>1, <2>2, NoChunkFits
<1> QED
  BY <1>5, <1>8, <1>10, <1>11, <1>12

\* The sums of the first k numbers
SumsOf(f, c, l) == f = [k \in 0..l |-> IF k = 0 THEN 0 ELSE f[k - 1] + c[k]]

SummedUpTo(f, c, w) == f[0] = 0 /\ \A k \in 0..w - 1 : f[k + 1] = f[k] + c[k + 1]

\* The function of Totals exists.
LEMMA SumsExist ==
  ASSUME NEW c, NEW l \in Nat
  PROVE  \E f : SumsOf(f, c, l)
<1> DEFINE T == {w \in 0..l : ~ \E f : SummedUpTo(f, c, w)}
<1>1. ASSUME T # {} PROVE FALSE
  <2>1. PICK w \in T : \A v \in T : w <= v
    <3>1. T \in SUBSET Nat
      OBVIOUS
    <3> QED
      BY <1>1, <3>1, LeastNumber
  <2>2. w \in 0..l /\ ~ \E f : SummedUpTo(f, c, w)
    BY <2>1
  <2>3. w # 0
    <3>1. PICK f : f = [k \in 0..0 |-> 0]
      OBVIOUS
    <3>2. f[0] = 0 /\ 0..0 - 1 = {}
      BY <3>1
    <3>3. SummedUpTo(f, c, 0)
      BY <3>2 DEF SummedUpTo
    <3> QED
      BY <2>2, <3>3
  <2>4. PICK v \in Nat : v \in 0..l /\ w = v + 1 /\ ~(w <= v)
    <3>1. w - 1 \in Nat /\ w - 1 \in 0..l /\ w = (w - 1) + 1 /\ ~(w <= w - 1)
      BY <2>2, <2>3
    <3> QED
      BY <3>1
  <2>5. PICK f : SummedUpTo(f, c, v)
    BY <2>1, <2>4
  <2>6. PICK g : g = [k \in 0..w |-> IF k <= v THEN f[k] ELSE f[v] + c[w]]
    OBVIOUS
  <2>7. g[0] = 0
    BY <2>4, <2>5, <2>6 DEF SummedUpTo
  <2>8. ASSUME NEW k \in 0..w - 1 PROVE g[k + 1] = g[k] + c[k + 1]
    <3>1. k \in 0..w /\ k <= v /\ g[k] = f[k]
      BY <2>4, <2>6
    <3>2. CASE k = v
      <4>1. k + 1 = w /\ w \in 0..w /\ ~(w <= v)
        BY <2>4, <3>2
      <4>2. g[w] = f[v] + c[w]
        BY <2>6, <4>1
      <4> QED
        BY <3>1, <3>2, <4>1, <4>2
    <3>3. CASE k # v
      <4>1. k \in 0..v - 1 /\ k + 1 \in 0..w /\ k + 1 <= v
        BY <2>4, <3>3
      <4>2. g[k + 1] = f[k + 1]
        BY <2>6, <4>1
      <4> QED
        BY <2>5, <3>1, <4>1, <4>2 DEF SummedUpTo
    <3> QED
      BY <3>2, <3>3
  <2>9. SummedUpTo(g, c, w)
    BY <2>7, <2>8 DEF SummedUpTo
  <2> QED
    BY <2>2, <2>9
<1>2. PICK f : SummedUpTo(f, c, l)
  <2>1. l \in 0..l
    OBVIOUS
  <2> QED
    BY <1>1, <2>1
<1>3. PICK g : g = [k \in 0..l |-> f[k]]
  OBVIOUS
<1>4. ASSUME NEW k \in 0..l PROVE g[k] = IF k = 0 THEN 0 ELSE g[k - 1] + c[k]
  <2>1. CASE k = 0
    BY <1>2, <1>3, <2>1 DEF SummedUpTo
  <2>2. CASE k # 0
    <3>1. k - 1 \in 0..l - 1 /\ k - 1 \in 0..l /\ (k - 1) + 1 = k
      BY <2>2
    <3>2. f[k] = f[k - 1] + c[k]
      BY <1>2, <3>1 DEF SummedUpTo
    <3> QED
      BY <1>3, <2>2, <3>1, <3>2
  <2> QED
    BY <2>1, <2>2
<1>5. g = [k \in 0..l |-> g[k]]
  BY <1>3
<1>6. g = [k \in 0..l |-> IF k = 0 THEN 0 ELSE g[k - 1] + c[k]]
  BY <1>4, <1>5
<1> QED
  BY <1>6 DEF SumsOf

\* What ialloc adds up is a number.
LEMMA TotalIsNumber ==
  ASSUME NEW c \in Seq(Int)
  PROVE  Total(c) \in Int
<1>1. PICK l \in Nat : l = Len(c) /\ \A k \in 1..l : c[k] \in Int
  OBVIOUS
<1>2. PICK f : f = Totals(c)
  OBVIOUS
<1>3. SumsOf(f, c, Len(c))
  <2>1. f = CHOOSE g : SumsOf(g, c, Len(c))
    BY <1>2 DEF Totals, SumsOf
  <2>2. \E g : SumsOf(g, c, Len(c))
    BY <1>1, SumsExist
  <2> QED
    BY <2>1, <2>2
<1>4. f[0] = 0 /\ \A k \in 1..l : f[k] = f[k - 1] + c[k]
  <2>1. f = [k \in 0..l |-> IF k = 0 THEN 0 ELSE f[k - 1] + c[k]]
    BY <1>1, <1>3 DEF SumsOf
  <2>2. 0 \in 0..l /\ \A k \in 1..l : k \in 0..l /\ k # 0
    BY <1>1
  <2> QED
    BY <2>1, <2>2
<1> DEFINE T == {k \in 0..l : f[k] \notin Int}
<1>5. ASSUME T # {} PROVE FALSE
  <2>1. PICK w \in T : \A v \in T : w <= v
    <3>1. T \in SUBSET Nat
      OBVIOUS
    <3> QED
      BY <1>5, <3>1, LeastNumber
  <2>2. w # 0
    BY <1>4, <2>1
  <2>3. w \in 1..l /\ w - 1 \in 0..l /\ ~(w <= w - 1)
    BY <2>1, <2>2
  <2>4. f[w - 1] \in Int
    BY <2>1, <2>3
  <2>5. f[w] = f[w - 1] + c[w] /\ c[w] \in Int
    BY <1>1, <1>4, <2>3
  <2> QED
    BY <2>1, <2>4, <2>5
<1>6. f[l] \in Int
  BY <1>1, <1>5
<1>7. f[l] % SizeT \in Int
  BY <1>6, SizeTFacts
<1> QED
  BY <1>1, <1>2, <1>7 DEF Total

\* So is a padded request.
LEMMA RequestIsNumber ==
  ASSUME NEW bytes \in Int PROVE request2size(bytes) \in Int
<1>1. \A x \in Int : x % SizeT \in Int /\ x % 8 \in Int
  BY SizeTFacts
<1>2. RoundUp(bytes + 16, 8) \in Int
  BY <1>1 DEF RoundUp
<1> QED
  BY <1>2 DEF request2size, pad_request, MIN_CHUNK_SIZE, MALLOC_ALIGNMENT, CHUNK_OVERHEAD, SIZE_T_SIZE

\* What ialloc asks malloc for
LEMMA IndependentRequest ==
  ASSUME NEW batch \in Batches, NEW array \in Int,
         NEW sizes, sizes = [i \in DOMAIN batch |-> request2size(batch[i])]
  PROVE  (Total(sizes) + array - CHUNK_OVERHEAD) % SizeT \in 0..MAX_SIZE_T
<1>1. SizeT \in Nat \ {0} /\ MAX_SIZE_T = SizeT - 1
  BY SizeTFacts
<1>2. \A bytes \in Int : request2size(bytes) \in Int
  BY RequestIsNumber
<1>3. PICK l \in Nat : DOMAIN batch = 1..l /\ \A i \in 1..l : batch[i] \in Int
  <2>1. batch \in Seq(Requests)
    BY MspaceAssumption
  <2>2. Requests \subseteq Int
    BY <1>1, MspaceAssumption
  <2>3. Len(batch) \in Nat /\ DOMAIN batch = 1..Len(batch)
    BY <2>1
  <2>4. \A i \in 1..Len(batch) : batch[i] \in Requests
    BY <2>1
  <2> QED
    BY <2>2, <2>3, <2>4
<1>4. sizes \in Seq(Int)
  <2>1. sizes \in [1..l -> Int]
    BY <1>2, <1>3
  <2> QED
    BY <1>3, <2>1
<1>5. PICK x \in Int : x = Total(sizes) + array - CHUNK_OVERHEAD
  BY <1>4, TotalIsNumber DEF CHUNK_OVERHEAD, SIZE_T_SIZE
<1>6. x % SizeT \in 0..SizeT - 1
  BY <1>1
<1> QED
  BY <1>1, <1>5, <1>6

\* A call that got memory from the system and holds the chunk
LEMMA HeldByCall ==
  ASSUME DOMAIN call = Threads, NEW t \in Threads, NEW c, call' = [call EXCEPT ![t] = c],
         NEW p, p \in HeldIn(c)
  PROVE  p \in Held'
<1>1. call'[t] = c
  OBVIOUS
<1>2. p \in HeldIn(call'[t])
  BY <1>1
<1> QED
  BY <1>2 DEF Held, HeldIn

\* The step of malloc in a call that goes on with the chunk.
LEMMA MallocStep ==
  ASSUME Ordered, SizesIndexed', NEW bytes \in 0..MAX_SIZE_T, NEW got \in Outcomes(bytes), m' = got.m,
         got.p # Null /\ got.p \notin Held => got.p \in Held'
  PROVE  AsksSystemLast
<1>1. SUFFICES ASSUME m'.footprint > m.footprint
               PROVE  \E p \in Held' \ Held :
                        /\ \A q \in FreeChunks : SizeOf(m, q) < SizeOf(m', p)
                        /\ ~FitsTop(m, SizeOf(m', p))
  BY DEF AsksSystemLast
<1>2. \A q \in DOMAIN got.m.heap : SizeOf(got.m, q) < 2^(TREEBIN_SHIFT + IntBits)
  BY DEF SizesIndexed
<1>3. got.m.footprint > m.footprint
  BY <1>1
<1>4. /\ got.p # Null /\ got.p \notin Held
      /\ \A q \in FreeChunks : SizeOf(m, q) < SizeOf(got.m, got.p)
      /\ ~FitsTop(m, SizeOf(got.m, got.p))
  BY <1>2, <1>3, AskedLast
<1> QED
  BY <1>4

LEMMA MallocThenStep ==
  ASSUME Ordered, SizesIndexed', NEW t \in Threads, NEW bytes \in 0..MAX_SIZE_T,
         NEW got \in Outcomes(bytes), m' = got.m,
         NEW c, call' = IF got.p = Null THEN call ELSE [call EXCEPT ![t] = c],
         got.p \in HeldIn(c)
  PROVE  AsksSystemLast
<1>1. DOMAIN call = Threads
  BY DEF Ordered, MallocStateOK, TypeOK
<1>2. got.p # Null => got.p \in Held'
  BY <1>1, HeldByCall
<1> QED
  BY <1>2, MallocStep

\* A step that gets no memory
LEMMA NothingAsked ==
  ASSUME Ordered, Shrunk(m', m)
  PROVE  AsksSystemLast
<1>1. m.footprint \in Nat
  BY DEF Ordered, MallocStateOK, TypeOK
<1> QED
  BY <1>1 DEF Shrunk, AsksSystemLast

LEMMA OnlyHeap ==
  ASSUME Ordered, NEW h, m' = [m EXCEPT !.heap = h]
  PROVE  AsksSystemLast
<1>1. m.footprint \in Nat /\ DOMAIN m = Fields
  BY DEF Ordered, MallocStateOK, TypeOK
<1>2. m'.footprint = m.footprint
  BY <1>1 DEF Fields
<1> QED
  BY <1>1, <1>2 DEF AsksSystemLast

LEMMA FreeStep ==
  ASSUME Ordered, NEW p \in Held, NEW refused, m' = Free(m, p, refused)
  PROVE  AsksSystemLast
<1>1. /\ Formed(m) /\ m.topsize \in Int /\ p \in DOMAIN m.heap /\ p \in Int
      /\ m.heap[p].foot \in Int /\ m.heap[p].size \in 1..SizeT - 1
  <2>1. TypeOK
    BY DEF Ordered, MallocStateOK
  <2>2. p \in DOMAIN m.heap
    BY <2>1 DEF TypeOK
  <2>3. p \in Int /\ m.heap[p].foot \in Int /\ m.heap[p].size \in 1..SizeT - 1
    BY <2>1, <2>2 DEF TypeOK
  <2>4. Formed(m) /\ m.topsize \in Int
    BY <2>1 DEF TypeOK, Formed
  <2> QED
    BY <2>2, <2>3, <2>4
<1>2. SizeOf(m, p) \in Int
  BY <1>1, SizeTFacts DEF SizeOf
<1>3. Shrunk(Free(m, p, refused), m)
  BY <1>1, <1>2, FreeShrinks
<1> QED
  BY <1>3, NothingAsked

LEMMA SplitIs ==
  ASSUME NEW s, DOMAIN s = Fields, NEW p, NEW size
  PROVE  SameMemory(Split(s, p, size), s)
BY DEF Split, SameMemory, Fields

LEMMA NextAsksLast ==
  ASSUME Ordered, SizesIndexed', Next
  PROVE  AsksSystemLast
<1>1. /\ DOMAIN m = Fields /\ m.footprint \in Nat /\ m.segs \in Seq(Segments) /\ m.segs # <<>>
      /\ m.topsize \in Nat /\ DOMAIN call = Threads /\ Formed(m)
      /\ \A t \in Threads : /\ call[t].op = "move" => call[t].bytes \in Requests
                            /\ call[t].op = "free" => Head(call[t].todo) \in Held
      /\ Requests \subseteq 0..MAX_SIZE_T /\ Pads \subseteq Nat
  <2>1. TypeOK
    BY DEF Ordered, MallocStateOK
  <2> QED
    BY <2>1, MspaceAssumption DEF TypeOK, Formed
<1>2. ASSUME NEW t \in Threads, mspace_malloc(t) PROVE AsksSystemLast
  <2>0. PICK bytes \in Requests : \E got \in Outcomes(bytes) :
          m' = got.m /\ live' = IF got.p = Null THEN live ELSE Handed(got.p, bytes)
    BY <1>2 DEF mspace_malloc
  <2>1. PICK got \in Outcomes(bytes) :
          m' = got.m /\ live' = IF got.p = Null THEN live ELSE Handed(got.p, bytes)
    BY <2>0
  <2>2. got.p # Null => got.p \in DOMAIN live'
    BY <2>1 DEF Handed
  <2>3. got.p # Null => got.p \in Held'
    BY <2>2 DEF Held
  <2> QED
    BY <1>1, <2>1, <2>3, MallocStep
<1>3. ASSUME NEW t \in Threads, mspace_free(t) PROVE AsksSystemLast
  <2>1. PICK p \in DOMAIN live, refused \in Refusals : m' = Free(m, p, refused)
    BY <1>3 DEF mspace_free
  <2>2. p \in Held
    BY DEF Held
  <2> QED
    BY <2>1, <2>2, FreeStep
<1>4. ASSUME NEW t \in Threads, mspace_realloc(t) PROVE AsksSystemLast
  <2>1. PICK p, bytes : m' = ReallocInPlace(m, p, ChunkSize(bytes)).m
    BY <1>4 DEF mspace_realloc
  <2>2. PICK nb, u : /\ nb = ChunkSize(bytes)
                     /\ u = [m EXCEPT !.top = p + nb, !.topsize = SizeOf(m, p) + m.topsize - nb,
                               !.heap = WriteHead(set_inuse(@, p, nb), p + nb,
                                                  SizeOf(m, p) + m.topsize - nb, FALSE, TRUE)]
    OBVIOUS
  <2>3. m' = m \/ m' = Split(m, p, nb) \/ m' = u
    BY <2>1, <2>2 DEF ReallocInPlace
  <2>4. u.footprint = m.footprint
    BY <1>1, <2>2 DEF Fields
  <2>5. Split(m, p, nb).footprint = m.footprint
    BY <1>1, SplitIs DEF SameMemory
  <2> QED
    BY <1>1, <2>3, <2>4, <2>5 DEF AsksSystemLast
<1>5. ASSUME NEW t \in Threads, ReallocMoves(t) PROVE AsksSystemLast
  <2>1. PICK c : c = call[t]
    OBVIOUS
  <2>2. c.bytes \in 0..MAX_SIZE_T
    BY <1>1, <1>5, <2>1 DEF ReallocMoves
  <2>3. PICK got \in Outcomes(c.bytes) :
          m' = got.m /\ (got.p # Null => Finish(t, live, <<c.p>>, Block(got.p, c.bytes)))
    <3>1. \E got \in Outcomes(call[t].bytes) :
            /\ m' = got.m
            /\ IF got.p = Null THEN Finish(t, live, <<>>, Block(call[t].p, call[t].had))
               ELSE Finish(t, live, <<call[t].p>>, Block(got.p, call[t].bytes))
      BY <1>5, Zenon DEF ReallocMoves
    <3>2. PICK got \in Outcomes(call[t].bytes) :
            /\ m' = got.m
            /\ IF got.p = Null THEN Finish(t, live, <<>>, Block(call[t].p, call[t].had))
               ELSE Finish(t, live, <<call[t].p>>, Block(got.p, call[t].bytes))
      BY <3>1
    <3>3. got.p # Null => Finish(t, live, <<call[t].p>>, Block(got.p, call[t].bytes))
      BY <3>2, Zenon
    <3> QED
      BY <2>1, <3>2, <3>3
  <2>4. ASSUME got.p # Null PROVE got.p \in Held'
    <3>1. got.p \in DOMAIN Block(got.p, c.bytes)
      BY DEF Block
    <3>2. PICK ret : ret = Block(got.p, c.bytes)
      OBVIOUS
    <3>3. call' = [call EXCEPT ![t] = [op |-> "free", todo |-> <<c.p>>, ret |-> ret]]
      BY <2>3, <2>4, <3>2 DEF Finish
    <3>4. got.p \in HeldIn([op |-> "free", todo |-> <<c.p>>, ret |-> ret])
      BY <3>1, <3>2 DEF HeldIn
    <3> QED
      BY <1>1, <3>3, <3>4, HeldByCall
  <2> QED
    BY <2>2, <2>3, <2>4, MallocStep
<1>6. ASSUME NEW t \in Threads, FreeRest(t) PROVE AsksSystemLast
  <2>1. PICK refused \in Refusals : call[t].op = "free" /\ m' = Free(m, Head(call[t].todo), refused)
    BY <1>6 DEF FreeRest
  <2> QED
    BY <1>1, <2>1, FreeStep
<1>7. ASSUME NEW t \in Threads, mspace_memalign(t) PROVE AsksSystemLast
  <2>1. PICK alignment \in Alignments, bytes \in Requests :
          /\ MemalignRequest(alignment, bytes) # NoSize
          /\ MallocThen(t, MemalignRequest(alignment, bytes),
                        LAMBDA p : [op |-> "align", p |-> p, alignment |-> alignment, bytes |-> bytes])
    BY <1>7 DEF mspace_memalign
  <2>2. PICK req \in 0..MAX_SIZE_T : req = MemalignRequest(alignment, bytes)
    <3>1. alignment \in Nat /\ bytes \in Nat
      BY <1>1, SizeTFacts, MspaceAssumption
    <3> QED
      BY <2>1, <3>1, RequestOfMemalign
  <2>3. PICK got \in Outcomes(req) :
          /\ m' = got.m
          /\ call' = IF got.p = Null THEN call
                      ELSE [call EXCEPT ![t] = [op |-> "align", p |-> got.p,
                                                alignment |-> alignment, bytes |-> bytes]]
    BY <2>1, <2>2 DEF MallocThen
  <2>4. got.p \in HeldIn([op |-> "align", p |-> got.p, alignment |-> alignment, bytes |-> bytes])
    BY DEF HeldIn
  <2> QED
    BY <2>3, <2>4, MallocThenStep
<1>8. ASSUME NEW t \in Threads, MemalignAligns(t) PROVE AsksSystemLast
  <2>1. PICK p, alignment, nb : m' = Align(m, p, alignment, nb).m
    BY <1>8 DEF MemalignAligns
  <2>2. PICK pos, s1 : /\ pos = AlignedPlace(p, alignment)
                       /\ s1 = IF pos = p THEN m ELSE Split(m, p, pos - p)
    OBVIOUS
  <2>3. m' = s1 \/ m' = Split(s1, pos, nb)
    BY <2>1, <2>2 DEF Align
  <2>4. DOMAIN s1 = Fields /\ s1.footprint = m.footprint
    BY <1>1, <2>2, SplitIs DEF SameMemory
  <2>5. Split(s1, pos, nb).footprint = m.footprint
    BY <2>4, SplitIs DEF SameMemory
  <2> QED
    BY <1>1, <2>3, <2>4, <2>5 DEF AsksSystemLast
<1>9. ASSUME NEW t \in Threads, mspace_independent(t) PROVE AsksSystemLast
  <2>1. PICK batch \in Batches, withArray \in BOOLEAN :
          LET array == IF withArray THEN request2size(ArrayBytes(batch)) ELSE 0
          IN  MallocThen(t, (Total(ElementSizes(batch)) + array - CHUNK_OVERHEAD) % SizeT,
                         LAMBDA p : [op |-> "elements", p |-> p, batch |-> batch, withArray |-> withArray])
    BY <1>9 DEF mspace_independent
  <2> DEFINE sizes == ElementSizes(batch)
             array == IF withArray THEN request2size(ArrayBytes(batch)) ELSE 0
             rest(p) == [op |-> "elements", p |-> p, batch |-> batch, withArray |-> withArray]
  <2>2. PICK req \in 0..MAX_SIZE_T : req = (Total(sizes) + array - CHUNK_OVERHEAD) % SizeT
    <3>1. array \in Int
      <4>1. batch \in Seq(Requests)
        BY MspaceAssumption
      <4>2. ArrayBytes(batch) \in Int
        BY <4>1 DEF ArrayBytes, SIZE_T_SIZE
      <4> QED
        BY <4>2, RequestIsNumber
    <3> QED
      BY <3>1, IndependentRequest DEF ElementSizes
  <2>3. PICK got \in Outcomes(req) :
          /\ m' = got.m
          /\ call' = IF got.p = Null THEN call ELSE [call EXCEPT ![t] = rest(got.p)]
    BY <2>1, <2>2 DEF MallocThen
  <2>4. got.p \in HeldIn(rest(got.p))
    BY DEF HeldIn
  <2> QED
    BY <2>3, <2>4, MallocThenStep
<1>10. ASSUME NEW t \in Threads, IndependentSplits(t) PROVE AsksSystemLast
  <2>1. PICK h : m' = [m EXCEPT !.heap = h]
    BY <1>10 DEF IndependentSplits
  <2> QED
    BY <2>1, OnlyHeap
<1>11. ASSUME NEW t \in Threads, mspace_trim(t) PROVE AsksSystemLast
  <2>1. PICK pad \in Pads, refused \in Refusals : m' = sys_trim(m, pad, refused)
    BY <1>11 DEF mspace_trim
  <2>2. Shrunk(m', m)
    <3>1. pad \in Nat /\ m.topsize \in Int
      BY <1>1
    <3>2. Shrunk(sys_trim(m, pad, refused), m)
      BY <1>1, <3>1, TrimShrinks
    <3> QED
      BY <2>1, <3>2
  <2> QED
    BY <2>2, NothingAsked
<1>12. ASSUME destroy_mspace PROVE AsksSystemLast
  <2>1. PICK s \in NewMStates : m' = [s EXCEPT !.mapped = @ \cup Destroyed(m)]
    BY <1>12 DEF destroy_mspace
  <2>2. PICK b, extern : s = NewMState(b, FirstSegmentSize(0), extern)
    BY DEF NewMStates
  <2>3. s.footprint = FirstSegmentSize(0) /\ m'.footprint = s.footprint
    BY <2>1, <2>2 DEF NewMState, init_top
  <2>4. FirstSegmentSize(0) <= m.footprint
    BY DEF Ordered, SegmentsHold
  <2>5. FirstSegmentSize(0) \in Int
    BY SizeTFacts, FootIs DEF FirstSegmentSize, granularity_align, RoundUp, NoSize
  <2> QED
    BY <1>1, <2>3, <2>4, <2>5 DEF AsksSystemLast
<1> QED
  BY <1>2, <1>3, <1>4, <1>5, <1>6, <1>7, <1>8, <1>9, <1>10, <1>11, <1>12 DEF Next

\* In every behaviour whose states are in order, no request goes to the system that a
\* free chunk or top could serve (AsksSystemLast): what malloc finds nothing for in the
\* bins, dv and top (mspace_malloc, sys_alloc), no chunk anywhere is long enough for.
THEOREM SystemIsAskedLast ==
  Spec /\ [](MallocStateOK /\ SegmentsHold /\ SizesIndexed) => SystemAskedLast
<1>1. Ordered /\ Ordered' /\ [Next]_vars => [AsksSystemLast]_vars
  <2>1. Ordered' => SizesIndexed'
    BY DEF Ordered
  <2> QED
    BY <2>1, NextAsksLast
<1>2. Ordered <=> MallocStateOK /\ SegmentsHold /\ SizesIndexed
  BY DEF Ordered
<1> QED
  BY <1>1, <1>2, PTL DEF Spec, SystemAskedLast
=============================================================================
