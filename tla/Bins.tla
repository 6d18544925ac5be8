-------------------------------- MODULE Bins --------------------------------
(***************************************************************************)
(* Which bin a free chunk belongs to (malloc.c.h).  A small bin holds one  *)
(* size; a tree bin holds half of a power of two, as a trie over the bits  *)
(* of the size.                                                            *)
(***************************************************************************)
EXTENDS Sizes

CONSTANTS
  SMALLBIN_SHIFT, NSMALLBINS, TREEBIN_SHIFT, NTREEBINS,
  IntBits  \* bits of an unsigned int

ASSUME BinsAssumption ==
  /\ {SMALLBIN_SHIFT, NSMALLBINS, TREEBIN_SHIFT, NTREEBINS, IntBits} \subseteq Nat \ {0}
  /\ {2^SMALLBIN_SHIFT, 2^TREEBIN_SHIFT} \subseteq Nat \ {0}
  /\ 2^TREEBIN_SHIFT = NSMALLBINS * 2^SMALLBIN_SHIFT

MIN_LARGE_SIZE == 2^TREEBIN_SHIFT
MAX_SMALL_REQUEST == MIN_LARGE_SIZE - 1 - (MALLOC_ALIGNMENT - 1) - CHUNK_OVERHEAD

is_small(s) == s \div 2^SMALLBIN_SHIFT < NSMALLBINS
small_index(s) == s \div 2^SMALLBIN_SHIFT
small_index2size(i) == i * 2^SMALLBIN_SHIFT

BitOf(s, b) == IF b < 0 THEN 0 ELSE (s \div 2^b) % 2
HighestBit(x) == CHOOSE k \in 0..IntBits : 2^k <= x /\ x < 2^(k + 1)

\* compute_tree_index: the shifted size is kept in an unsigned int.
TreeIndex(s) ==
  LET X == (s \div 2^TREEBIN_SHIFT) % 2^IntBits
      K == HighestBit(X)
  IN  IF X = 0 THEN 0
      ELSE IF X > 2^(NTREEBINS \div 2) - 1 THEN NTREEBINS - 1
      ELSE 2 * K + BitOf(s, K + TREEBIN_SHIFT - 1)

minsize_for_tree_index(i) ==
  2^(i \div 2 + TREEBIN_SHIFT) + (i % 2) * 2^(i \div 2 + TREEBIN_SHIFT - 1)

\* Mutated: the root of the trie looks at the next lower bit.
TopBit_TooLow(i) ==
  IF i = NTREEBINS - 1 THEN WordBits - 1 ELSE i \div 2 + TREEBIN_SHIFT - 3

\* bit_for_tree_index and leftshift_for_tree_index: the bit of the size that
\* decides at the root of the trie of bin i
TopBit(i) ==
  IF i = NTREEBINS - 1 THEN WordBits - 1 ELSE i \div 2 + TREEBIN_SHIFT - 2

\* The child, 1 or 2, in which a size of bin i belongs, d levels below the root
ChildFor(i, size, d) == 1 + BitOf(size, TopBit(i) - d)
=============================================================================
