------------------------------- MODULE RbTree -------------------------------
(***************************************************************************)
(* The red-black tree of ks_rbtree.c: what its operations do to the links, *)
(* the parents and the colours.                                            *)
(*                                                                         *)
(* The C code writes every step twice, once for each side; the two texts   *)
(* are mirror images, and here the side is a parameter.  d is the side the *)
(* code goes to and Opposite(d) the other one.                             *)
(***************************************************************************)
EXTENDS Integers, FiniteSets

CONSTANTS
  Nodes,  \* the nodes that exist
  Key,    \* the key of each
  Null    \* no node

ASSUME NodeAssumption == Null \notin Nodes /\ Key \in [Nodes -> Int] /\ IsFiniteSet(Nodes)

Sides == {"left", "right"}
Colors == {"red", "black"}
Opposite(d) == CHOOSE o \in Sides : o # d

Trees == [root : Nodes \cup {Null},
          link : [Sides -> [Nodes -> Nodes \cup {Null}]],
          parent : [Nodes -> Nodes \cup {Null}],
          color : [Nodes -> Colors]]

\* KS_RB_ROOT; the fields of a node outside the tree are as if they were cleared,
\* nothing reads them before ks_rb_link_node sets them.
EmptyTree == [root |-> Null,
              link |-> [d \in Sides |-> [n \in Nodes |-> Null]],
              parent |-> [n \in Nodes |-> Null],
              color |-> [n \in Nodes |-> "red"]]

IsRed(t, n) == n # Null /\ t.color[n] = "red"

\* ks_rb_set_red, ks_rb_set_black, ks_rb_set_color
Paint(t, n, c) == [t EXCEPT !.color[n] = c]

\* ks_rb_set_parent, guarded against NULL where the code guards it
SetParent(t, n, p) == IF n = Null THEN t ELSE [t EXCEPT !.parent[n] = p]

SideOf(t, p, n) == IF t.link["left"][p] = n THEN "left" ELSE "right"

\* The link of p that leads to old, or the root, is made to lead to new.
Relink(t, p, old, new) ==
  IF p = Null THEN [t EXCEPT !.root = new] ELSE [t EXCEPT !.link[SideOf(t, p, old)][p] = new]

Clear(t, n) == [t EXCEPT !.link["left"][n] = Null, !.link["right"][n] = Null,
                         !.parent[n] = Null, !.color[n] = "red"]

\* Mutated: the subtree that changes sides keeps its parent.
Rotate_KeepsParent(t, d, n) ==
  LET c     == t.link[Opposite(d)][n]
      p     == t.parent[n]
      moved == [Relink(t, p, n, c) EXCEPT !.link[Opposite(d)][n] = t.link[d][c], !.link[d][c] = n]
  IN  SetParent(SetParent(moved, c, p), n, c)

\* __rb_rotate_left, __rb_rotate_right: n goes down on side d, its child c up.
Rotate(t, d, n) ==
  LET c     == t.link[Opposite(d)][n]
      inner == t.link[d][c]
      p     == t.parent[n]
      moved == [Relink(t, p, n, c) EXCEPT !.link[Opposite(d)][n] = inner, !.link[d][c] = n]
  IN  SetParent(SetParent(SetParent(moved, inner, n), c, p), n, c)

\* ks_rb_link_node: a red leaf on side d of p
LinkNode(t, n, p, d) ==
  LET linked == IF p = Null THEN [t EXCEPT !.root = n] ELSE [t EXCEPT !.link[d][p] = n]
  IN  SetParent(Clear(linked, n), n, p)

-----------------------------------------------------------------------------
(* ks_rb_insert_color: n is red, and the loop goes on while its parent is. *)

InsertLoops(t, n) == IsRed(t, t.parent[n])

Uncle(t, n) ==
  LET p == t.parent[n]
      g == t.parent[p]
  IN  t.link[Opposite(SideOf(t, g, p))][g]

InsertRecolor(t, n) ==
  LET p == t.parent[n]
  IN  Paint(Paint(Paint(t, Uncle(t, n), "black"), p, "black"), t.parent[p], "red")

\* The uncle is black: at most one rotation makes n an outer grandchild, the
\* next one lifts its parent.  The loop goes on at the lower of the two.
InsertRotate(t, n) ==
  LET p     == t.parent[n]
      g     == t.parent[p]
      d     == SideOf(t, g, p)
      inner == t.link[Opposite(d)][p] = n
      upper == IF inner THEN n ELSE p
      outer == IF inner THEN Rotate(t, d, p) ELSE t
  IN  [tree |-> Rotate(Paint(Paint(outer, upper, "black"), g, "red"), Opposite(d), g),
       at   |-> IF inner THEN p ELSE n]

-----------------------------------------------------------------------------
(* ks_rb_erase and __rb_erase_color: the subtree n under p lacks a black.  *)

\* The last node on side d below n.
Outermost(t, d, n) ==
  LET go[m \in Nodes] == IF t.link[d][m] = Null THEN m ELSE go[t.link[d][m]]
  IN  go[n]

\* n is taken out of the tree, or its successor y, which then takes n's place.
Unlink(t, n) ==
  LET l == t.link["left"][n]
      r == t.link["right"][n]
      Splice ==
        LET child == IF l = Null THEN r ELSE l
            p     == t.parent[n]
        IN  [tree |-> Clear(Relink(SetParent(t, child, p), p, n, child), n),
             at |-> child, par |-> p, color |-> t.color[n]]
      Succeed ==
        LET y     == Outermost(t, "left", r)
            child == t.link["right"][y]
            p     == t.parent[y]
            up    == Relink(t, t.parent[n], n, y)
            freed == IF p = n THEN up
                     ELSE SetParent([SetParent(up, child, p) EXCEPT !.link["left"][p] = child,
                                                                    !.link["right"][y] = r], r, y)
            taken == [freed EXCEPT !.parent[y] = t.parent[n], !.color[y] = t.color[n],
                                   !.link["left"][y] = l]
        IN  [tree |-> Clear(SetParent(taken, l, y), n),
             at |-> child, par |-> IF p = n THEN y ELSE p, color |-> t.color[y]]
  IN  IF l = Null \/ r = Null THEN Splice ELSE Succeed

EraseLoops(t, n) == ~IsRed(t, n) /\ n # t.root

\* A red sibling is rotated away first.
EraseSibling(t, n, p) ==
  LET d == SideOf(t, p, n)
      s == t.link[Opposite(d)][p]
  IN  IF IsRed(t, s) THEN Rotate(Paint(Paint(t, s, "black"), p, "red"), d, p) ELSE t

BothNephewsBlack(t, n, p) ==
  LET s == t.link[Opposite(SideOf(t, p, n))][p]
  IN  \A d \in Sides : ~IsRed(t, t.link[d][s])

EraseRecolor(t, n, p) == Paint(t, t.link[Opposite(SideOf(t, p, n))][p], "red")

\* A red nephew: after at most two rotations nothing is lacking.
EraseRotate(t, n, p) ==
  LET d    == SideOf(t, p, n)
      o    == Opposite(d)
      s    == t.link[o][p]
      near == t.link[d][s]
      outer == IF IsRed(t, t.link[o][s]) THEN t
               ELSE Rotate(Paint(Paint(t, near, "black"), s, "red"), o, s)
      s2   == outer.link[o][p]
  IN  Rotate(Paint(Paint(Paint(outer, s2, t.color[p]), p, "black"), outer.link[o][s2], "black"), d, p)

\* After the loop
EraseEnd(t, n) == IF n = Null THEN t ELSE Paint(t, n, "black")

\* ks_rb_replace_node
Replace(t, victim, n) ==
  LET l == t.link["left"][victim]
      r == t.link["right"][victim]
      around == SetParent(SetParent(Relink(t, t.parent[victim], victim, n), l, n), r, n)
      copied == [around EXCEPT !.link["left"][n] = l, !.link["right"][n] = r,
                               !.parent[n] = t.parent[victim], !.color[n] = t.color[victim]]
  IN  Clear(copied, victim)

-----------------------------------------------------------------------------
(* Walking the tree.  Side "left" comes first. *)

\* ks_rb_first (d is "left"), ks_rb_last (d is "right")
EndOf(t, d) == IF t.root = Null THEN Null ELSE Outermost(t, d, t.root)

\* Mutated: the climb stops one node early.
Neighbour_NoClimb(t, d, n) ==
  IF t.link[d][n] # Null THEN Outermost(t, Opposite(d), t.link[d][n]) ELSE t.parent[n]

\* ks_rb_next (d is "right"), ks_rb_prev (d is "left")
Neighbour(t, d, n) ==
  LET climb[m \in Nodes] ==
        LET p == t.parent[m] IN IF p # Null /\ t.link[d][p] = m THEN climb[p] ELSE p
  IN  IF t.link[d][n] # Null THEN Outermost(t, Opposite(d), t.link[d][n]) ELSE climb[n]

Children(t, w) == {t.link[d][m] : d \in Sides, m \in w} \ {Null}

\* The nodes of the subtree n; defined even if the links went round in a circle.
Subtree(t, n) ==
  LET close[w \in SUBSET Nodes] ==
        IF Children(t, w) \subseteq w THEN w ELSE close[w \cup Children(t, w)]
  IN  close[{n} \ {Null}]

Members(t) == Subtree(t, t.root)

=============================================================================
