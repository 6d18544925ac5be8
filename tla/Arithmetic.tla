----------------------------- MODULE Arithmetic -----------------------------
(***************************************************************************)
(* What the arithmetic of Bins and Binmap is to achieve, for one number n: *)
(* a size, or a map of non-empty bins, as the topic says.                  *)
(***************************************************************************)
EXTENDS SizeLaws, Bins, Binmap

\* What a prover has to be told of ^, and TLC can compute: its values up to 2^(b + 1)
PowersUpTo(b) == 2^0 = 1 /\ \A k \in 0..b : 2^k \in Nat \ {0} /\ 2^(k + 1) = 2 * 2^k

ASSUME ArithmeticAssumption ==
  /\ PowersUpTo(Width) /\ PowersUpTo(WordBits)
  /\ PowersUpTo(TREEBIN_SHIFT + IntBits) /\ PowersUpTo(TREEBIN_SHIFT + NTREEBINS)
  /\ MIN_LARGE_SIZE > MIN_CHUNK_SIZE
  /\ MIN_LARGE_SIZE % MALLOC_ALIGNMENT = 0 /\ MALLOC_ALIGNMENT % 2^SMALLBIN_SHIFT = 0

arithmeticVars == <<topic, n>>

Topics == {"sizes", "maps"}
Numbers(t) == IF t = "sizes" THEN 0..MAX_SIZE_T ELSE 0..Word - 1

-----------------------------------------------------------------------------
(* Properties of Bins. *)

Chunk == request2size(n)
LargeSize == topic = "sizes" /\ n >= MIN_LARGE_SIZE

\* A large chunk is in the tree bin whose range its size falls in, the bins'
\* ranges meet without a gap, and the last one takes whatever is larger
\* (compute_tree_index against minsize_for_tree_index).
TreeIndexExact ==
  LargeSize =>
    LET i == TreeIndex(n)
    IN  /\ i \in 0..NTREEBINS - 1 /\ minsize_for_tree_index(i) <= n
        /\ i # NTREEBINS - 1 => n < minsize_for_tree_index(i + 1)

\* All sizes of a bin agree in the bits above the one its root looks at, so the
\* trie compares them in the order of size: whatever is in the left subtree is
\* smaller than whatever is in the right one.
TrieFollowsOrder ==
  LargeSize =>
    LET i == TreeIndex(n)
        above == 2^(TopBit(i) + 1)
    IN  i # NTREEBINS - 1 =>
          /\ n \div above = minsize_for_tree_index(i) \div above
          /\ above = minsize_for_tree_index(i + 1) - minsize_for_tree_index(i)

\* malloc's test of a request against MAX_SMALL_REQUEST and the bins' test of
\* the chunk size draw the same line, and the small bin of a chunk holds no
\* other size.
SmallOrLarge ==
  topic = "sizes" /\ n < MAX_REQUEST =>
    /\ n <= MAX_SMALL_REQUEST <=> is_small(Chunk)
    /\ is_small(Chunk) => small_index2size(small_index(Chunk)) = Chunk

-----------------------------------------------------------------------------
(* Properties of Binmap. *)

LeastOf(S) == IF S = {} THEN NoBin ELSE Min(S)

\* A small request is served from the first non-empty bin that is large enough,
\* also at the last bin of the word, where the shifts lose bits.
FirstSmallBin ==
  topic = "maps" =>
    \A i \in 0..Width - 1 : SmallBinFor(n, i) = LeastOf({j \in Marked(n) : j >= i})

\* A large request that its own bin cannot serve goes to the next non-empty one,
\* and to none from the last.
NextTreeBin ==
  topic = "maps" =>
    \A i \in 0..Width - 1 : TreeBinAfter(n, i) = LeastOf({j \in Marked(n) : j > i})

\* Index, range, trie bit and bit map of the bins, computed by macros that do not know
\* of each other, agree.
BinsAgree ==
  TreeIndexExact /\ TrieFollowsOrder /\ SmallOrLarge /\ FirstSmallBin /\ NextTreeBin
=============================================================================
