------------------------------ MODULE FreeBins ------------------------------
(***************************************************************************)
(* The chunks of an mspace and its bins of free chunks (malloc.c.h).       *)
(*                                                                         *)
(* heap maps the address of a chunk to what stands in its head and to the  *)
(* word in front of it: the size of the chunk before it when that one is   *)
(* free, the footer of the mspace otherwise.  Writing a head forgets the   *)
(* heads inside the chunk, so that reading one of them is an error of the  *)
(* model.  A small bin is the list of its chunks from fd on.  tree maps    *)
(* the chunks that are nodes of a tree bin to their links; the chunks of   *)
(* one size hang together in the chain of their node.                      *)
(***************************************************************************)
EXTENDS Bins, SequencesExt

Null == 0
Footer == -1      \* mstate ^ magic, left behind a chunk in use
InBin == -2       \* the parent of the root of a tree bin

SizeOf(s, p) == s.heap[p].size
NextChunk(s, p) == p + SizeOf(s, p)

-----------------------------------------------------------------------------
(* Heads and footers. *)

\* What may stand where no head was written yet.
Garbage == [size |-> 0, cinuse |-> FALSE, pinuse |-> FALSE, foot |-> Footer]

Tag(h, p) == IF p \in DOMAIN h THEN h[p] ELSE Garbage

Write(h, p, tag) ==
  [a \in {x \in DOMAIN h : x < p \/ x >= p + tag.size} \cup {p} |->
     IF a = p THEN tag ELSE h[a]]

SetFoot(h, p, foot) == Write(h, p, [Tag(h, p) EXCEPT !.foot = foot])

WriteHead(h, p, size, cinuse, pinuse) ==
  Write(h, p, [size |-> size, cinuse |-> cinuse, pinuse |-> pinuse, foot |-> Tag(h, p).foot])

SetPinuse(h, p, pinuse) == Write(h, p, [Tag(h, p) EXCEPT !.pinuse = pinuse])

set_inuse(h, p, size) ==
  SetFoot(SetPinuse(WriteHead(h, p, size, TRUE, Tag(h, p).pinuse), p + size, TRUE),
          p + size, Footer)

set_size_and_pinuse_of_inuse_chunk(h, p, size) ==
  SetFoot(WriteHead(h, p, size, TRUE, TRUE), p + size, Footer)

set_inuse_and_pinuse(h, p, size) ==
  SetPinuse(set_size_and_pinuse_of_inuse_chunk(h, p, size), p + size, TRUE)

set_size_and_pinuse_of_free_chunk(h, p, size) ==
  SetFoot(WriteHead(h, p, size, FALSE, TRUE), p + size, size)

set_free_with_pinuse(h, p, size, next) ==
  set_size_and_pinuse_of_free_chunk(SetPinuse(h, next, FALSE), p, size)

-----------------------------------------------------------------------------
(* Small bins. *)

insert_small_chunk(s, p, size) == [s EXCEPT !.smallbins[small_index(size)] = <<p>> \o @]

unlink_small_chunk(s, p, size) == [s EXCEPT !.smallbins[small_index(size)] = Remove(@, p)]

unlink_first_small_chunk(s, i) == [s EXCEPT !.smallbins[i] = Tail(@)]

-----------------------------------------------------------------------------
(* Tree bins. *)

NewNode(t, parent) == [child |-> <<Null, Null>>, parent |-> parent, chain |-> <<t>>]

\* Where a search for size in bin i is after d steps, which take a bit of the size each;
\* Null when it has ended.
SearchAt(s, i, size) ==
  LET at[d \in 0..WordBits] ==
        IF d = 0 THEN s.treebins[i]
        ELSE LET t == at[d - 1]
             IN  IF t = Null \/ SizeOf(s, t) = size THEN Null
                 ELSE s.tree[t].child[ChildFor(i, size, d - 1)]
  IN  at

\* From t on, the child on this side or else the other one.
DescentAt(s, t, side) ==
  LET at[d \in 0..WordBits] ==
        IF d = 0 THEN t
        ELSE IF at[d - 1] = Null THEN Null
        ELSE LET c == s.tree[at[d - 1]].child
             IN  IF c[side] # Null THEN c[side] ELSE c[3 - side]
  IN  at

\* The nodes on such a way, in this order
Passed(at) ==
  LET n == CHOOSE n \in 0..WordBits + 1 :
             (n \in DOMAIN at => at[n] = Null) /\ \A d \in 0..n - 1 : at[d] # Null
  IN  [k \in 1..n |-> at[k - 1]]

SearchPath(s, i, size) == Passed(SearchAt(s, i, size))

insert_large_chunk(s, x, size) ==
  LET i == TreeIndex(size)
      path == SearchPath(s, i, size)
      t == Last(path)
  IN  IF path = <<>>
        THEN [s EXCEPT !.treebins[i] = x, !.tree = (x :> NewNode(x, InBin)) @@ @]
      ELSE IF SizeOf(s, t) = size
        THEN [s EXCEPT !.tree[t].chain = <<t, x>> \o Tail(@)]
        ELSE [s EXCEPT !.tree = (x :> NewNode(x, t)) @@
                [@ EXCEPT ![t].child[ChildFor(i, size, Len(path) - 1)] = x]]

RightmostLeaf(s, t) == Last(Passed(DescentAt(s, t, 2)))

SwapChild(node, old, new) == [node EXCEPT !.child = [d \in 1..2 |-> IF @[d] = old THEN new ELSE @[d]]]

\* Puts r, with its chain, in the place of node x; r is Null or in no other place.
TakePlace(s, x, r, chain) ==
  LET old == s.tree[x]
      node(a) == IF a = r THEN [old EXCEPT !.chain = chain]
                 ELSE IF a = old.parent THEN SwapChild(s.tree[a], x, r)
                 ELSE IF s.tree[a].parent = x THEN [s.tree[a] EXCEPT !.parent = r]
                 ELSE s.tree[a]
      i == TreeIndex(SizeOf(s, x))
  IN  [s EXCEPT !.tree = [a \in (DOMAIN @ \cup {r}) \ {x, Null} |-> node(a)],
                !.treebins[i] = IF @ = x THEN r ELSE @]

\* The leaf that replaces a node that was the last of its size; itself if a leaf.
ReplacementFor(s, x) == RightmostLeaf(s, x)

unlink_large_chunk(s, x) ==
  IF x \notin DOMAIN s.tree
    THEN LET t == CHOOSE t \in DOMAIN s.tree : Contains(s.tree[t].chain, x)
         IN  [s EXCEPT !.tree[t].chain = Remove(@, x)]
  ELSE LET chain == s.tree[x].chain
           r == ReplacementFor(s, x)
       IN  IF Len(chain) > 1
             THEN TakePlace(s, x, Last(chain), <<Last(chain)>> \o Front(Tail(chain)))
           ELSE IF r = x THEN TakePlace(s, x, Null, <<>>)
           ELSE TakePlace([s EXCEPT !.tree[s.tree[r].parent] = SwapChild(@, r, Null)],
                          x, r, s.tree[r].chain)

insert_chunk(s, p, size) ==
  IF is_small(size) THEN insert_small_chunk(s, p, size) ELSE insert_large_chunk(s, p, size)

unlink_chunk(s, p, size) ==
  IF is_small(size) THEN unlink_small_chunk(s, p, size) ELSE unlink_large_chunk(s, p)

-----------------------------------------------------------------------------
(* Searching. *)

LeftmostPath(s, t) == ToSet(Passed(DescentAt(s, t, 1)))

\* The smallest of a set of chunks that is large enough.
BestOf(s, S, nb) ==
  LET fits == {v \in S : SizeOf(s, v) >= nb}
  IN  IF fits = {} THEN Null ELSE CHOOSE v \in fits : \A w \in fits : SizeOf(s, v) <= SizeOf(s, w)

\* The deepest right subtree that the search leaves aside.
UntakenRight(s, path) ==
  LET right(k) == s.tree[path[k]].child[2]
      left == {k \in 1..Len(path) : right(k) # Null
                                    /\ (k < Len(path) => right(k) # path[k + 1])}
  IN  IF left = {} THEN Null ELSE right(Max(left))

NonEmptyTrees(s) == {i \in 0..NTREEBINS - 1 : s.treebins[i] # Null}

\* Mutated: the subtree that the search left aside is forgotten.
LargeFit_PathOnly(s, nb) ==
  LET idx == TreeIndex(nb)
      v == BestOf(s, ToSet(SearchPath(s, idx, nb)), nb)
      later == {i \in NonEmptyTrees(s) : i > idx}
  IN  IF v = Null /\ later # {} THEN BestOf(s, LeftmostPath(s, s.treebins[Min(later)]), nb) ELSE v

\* Mutated: bins of larger chunks are not looked at.
LargeFit_OwnBin(s, nb) ==
  LET path == SearchPath(s, TreeIndex(nb), nb)
      rest == IF path = <<>> THEN Null ELSE UntakenRight(s, path)
  IN  BestOf(s, ToSet(path) \cup LeftmostPath(s, rest), nb)

\* tmalloc_large: the chunk it finds for nb, Null if none
LargeFit(s, nb) ==
  LET idx == TreeIndex(nb)
      path == SearchPath(s, idx, nb)
      exact == path # <<>> /\ SizeOf(s, Last(path)) = nb
      rest == IF path = <<>> \/ exact THEN Null ELSE UntakenRight(s, path)
      v == BestOf(s, ToSet(path) \cup LeftmostPath(s, rest), nb)
      later == {i \in NonEmptyTrees(s) : i > idx}
  IN  IF v = Null /\ later # {} THEN BestOf(s, LeftmostPath(s, s.treebins[Min(later)]), nb) ELSE v

\* tmalloc_small: the chunk it finds; there is a non-empty tree bin
SmallFit(s, nb) == BestOf(s, LeftmostPath(s, s.treebins[Min(NonEmptyTrees(s))]), nb)
=============================================================================
