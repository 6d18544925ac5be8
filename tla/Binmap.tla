------------------------------- MODULE Binmap -------------------------------
(***************************************************************************)
(* The searches of the bit maps of non-empty bins (malloc.c.h), on words   *)
(* of Width bits, against what they are to find.                           *)
(***************************************************************************)
EXTENDS Integers, FiniteSetsExt

CONSTANT Width  \* bits of a binmap_t

ASSUME BinmapAssumption == Width \in Nat \ {0}

Word == 2^Width
Negate(x) == (Word - x) % Word
ShiftLeft(x, n) == (x * 2^n) % Word

idx2bit(i) == 2^i
IsMarked(x, i) == (x \div 2^i) % 2 = 1
Marked(x) == {i \in 0..Width - 1 : IsMarked(x, i)}

\* The word with these bits, and the operators & and | of C
WordOf(bits) == CHOOSE x \in 0..Word - 1 : Marked(x) = bits
And(x, y) == WordOf(Marked(x) \cap Marked(y))
Or(x, y) == WordOf(Marked(x) \cup Marked(y))

least_bit(x) == And(x, Negate(x))

left_bits(x) == Or(ShiftLeft(x, 1), Negate(ShiftLeft(x, 1)))

\* bsfl
compute_bit2idx(x) == CHOOSE i \in 0..Width - 1 : IsMarked(x, i) /\ x % 2^i = 0

NoBin == Width

\* mspace_malloc: the small bin it takes a chunk from
SmallBinFor(map, i) ==
  LET smallbits == map \div 2^i
  IN  IF smallbits % 4 # 0 THEN i + (1 - (smallbits % 2))
      ELSE IF smallbits = 0 THEN NoBin
      ELSE compute_bit2idx(least_bit(And(ShiftLeft(smallbits, i), left_bits(idx2bit(i)))))

\* tmalloc_large: the next bin when that of the request has nothing that fits
TreeBinAfter(map, i) ==
  LET leftbits == And(left_bits(idx2bit(i)), map)
  IN  IF leftbits = 0 THEN NoBin ELSE compute_bit2idx(least_bit(leftbits))
=============================================================================
