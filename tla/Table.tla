------------------------------- MODULE Table --------------------------------
(***************************************************************************)
(* The table of results (table.c): a red-black tree of entries, the        *)
(* greater keys on the left.  The locks around its operations are          *)
(* commented out in the code, so its users take turns.                     *)
(*                                                                         *)
(* Changing the tree and every turn of the loop that balances it again     *)
(* afterwards are steps of their own, so that the states in between can be *)
(* looked at.                                                              *)
(***************************************************************************)
EXTENDS RbTree

VARIABLES
  tree,  \* t->root and the nodes it leads to
  pc,    \* the loop that is running
  at,    \* node of ks_rb_insert_color and __rb_erase_color
  par,   \* parent of __rb_erase_color
  e      \* what the last table_add returned, or is going to return

vars == <<tree, pc, at, par, e>>

\* table_init
Init == tree = EmptyTree /\ pc = "idle" /\ at = Null /\ par = Null /\ e = TRUE

\* if (r > 0) left; else if (r < 0) right
Direction(k, n) == IF k > Key[n] THEN "left" ELSE "right"

\* Where the search for k ends: at the entry with this key, or at the one below
\* which it would be.
Position(k) ==
  LET walk[n \in Nodes] ==
        LET d == Direction(k, n)
        IN  IF k = Key[n] \/ tree.link[d][n] = Null THEN n ELSE walk[tree.link[d][n]]
  IN  IF tree.root = Null THEN Null ELSE walk[tree.root]

\* Mutated: the entry the search ended at is not compared.
Found_NotCompared(k) == Position(k) # Null

Found(k) == Position(k) # Null /\ Key[Position(k)] = k

table_get(k) == IF Found(k) THEN Position(k) ELSE Null

\* The caller brings an entry that is in no table.
table_add(te) ==
  /\ pc = "idle" /\ te \notin Members(tree)
  /\ \/ Found(Key[te]) /\ e' = FALSE /\ UNCHANGED <<tree, pc, at>>
     \/ /\ ~Found(Key[te])
        /\ LET p == Position(Key[te])
               d == IF p = Null THEN "left" ELSE Direction(Key[te], p)
           IN  tree' = LinkNode(tree, te, p, d)
        /\ pc' = "insert" /\ at' = te /\ e' = TRUE
  /\ UNCHANGED par

\* One turn of the loop of ks_rb_insert_color, or what follows the loop.
ks_rb_insert_color ==
  /\ pc = "insert"
  /\ \/ /\ InsertLoops(tree, at) /\ IsRed(tree, Uncle(tree, at))
        /\ tree' = InsertRecolor(tree, at)
        /\ at' = tree.parent[tree.parent[at]] /\ UNCHANGED pc
     \/ /\ InsertLoops(tree, at) /\ ~IsRed(tree, Uncle(tree, at))
        /\ tree' = InsertRotate(tree, at).tree
        /\ at' = InsertRotate(tree, at).at /\ UNCHANGED pc
     \/ /\ ~InsertLoops(tree, at)
        /\ tree' = Paint(tree, tree.root, "black")
        /\ pc' = "idle" /\ at' = Null
  /\ UNCHANGED <<par, e>>

\* Mutated: the colour of the entry decides, not that of the node taken out.
NeedsErase_EntryColor(te) == tree.color[te] = "black"

NeedsErase(te) == Unlink(tree, te).color = "black"

\* table_del and ks_rb_erase, up to the call of __rb_erase_color
table_del(te) ==
  /\ pc = "idle" /\ te \in Members(tree)
  /\ LET u == Unlink(tree, te)
     IN  /\ tree' = u.tree
         /\ \/ NeedsErase(te) /\ pc' = "erase" /\ at' = u.at /\ par' = u.par
            \/ ~NeedsErase(te) /\ UNCHANGED <<pc, at, par>>
  /\ UNCHANGED e

\* One turn of the loop of __rb_erase_color, or what follows the loop.
rb_erase_color ==
  /\ pc = "erase"
  /\ \/ /\ EraseLoops(tree, at)
        /\ LET t == EraseSibling(tree, at, par)
           IN  \/ /\ BothNephewsBlack(t, at, par)
                  /\ tree' = EraseRecolor(t, at, par)
                  /\ at' = par /\ par' = t.parent[par]
               \/ /\ ~BothNephewsBlack(t, at, par)
                  /\ tree' = EraseRotate(t, at, par)
                  /\ at' = tree'.root /\ UNCHANGED par
        /\ UNCHANGED pc
     \/ /\ ~EraseLoops(tree, at)
        /\ tree' = EraseEnd(tree, at)
        /\ pc' = "idle" /\ at' = Null /\ par' = Null
  /\ UNCHANGED e

\* The caller brings an entry with the same key that is in no table.
ks_rb_replace_node(victim, n) ==
  /\ pc = "idle" /\ victim \in Members(tree) /\ n \notin Members(tree)
  /\ Key[n] = Key[victim]
  /\ tree' = Replace(tree, victim, n)
  /\ UNCHANGED <<pc, at, par, e>>

Balance == ks_rb_insert_color \/ rb_erase_color

Next ==
  \/ Balance
  \/ \E te \in Nodes : \/ table_add(te)
                       \/ table_del(te)
                       \/ \E n \in Nodes : ks_rb_replace_node(te, n)

Spec == Init /\ [][Next]_vars

-----------------------------------------------------------------------------
(* Properties. *)

TypeOK ==
  /\ tree \in Trees /\ pc \in {"idle", "insert", "erase"}
  /\ at \in Nodes \cup {Null} /\ par \in Nodes \cup {Null} /\ e \in BOOLEAN
  /\ pc = "insert" => at \in Members(tree)
  /\ pc = "erase" => {at, par} \subseteq Members(tree) \cup {Null}

\* In every state, also between two turns of a loop, everything on the left of
\* an entry has a greater key and everything on the right a smaller one.
SearchOrder ==
  \A n \in Members(tree) :
    /\ \A m \in Subtree(tree, tree.link["left"][n]) : Key[m] > Key[n]
    /\ \A m \in Subtree(tree, tree.link["right"][n]) : Key[m] < Key[n]

\* Links and parents agree, and only the root has no parent: the rotations and
\* the unlinking write both ends of every edge they move.
LinksAgree ==
  /\ \A n \in Members(tree), d \in Sides :
       tree.link[d][n] # Null => tree.parent[tree.link[d][n]] = n
  /\ tree.root # Null => tree.parent[tree.root] = Null

\* A red entry has a red parent at most where the running loop is at work (a red
\* at of __rb_erase_color is about to turn black), and never once the operation
\* is over; the root is black then.
RedRedOnlyInLoop ==
  /\ pc = "idle" => ~IsRed(tree, tree.root)
  /\ \A n \in Members(tree) :
       IsRed(tree, n) /\ IsRed(tree, tree.parent[n]) =>
         \/ pc = "insert" /\ at = n
         \/ pc = "erase" /\ at \in {n, tree.parent[n]}

\* The black entries on the way from the root to n
BlackAbove(n) == {m \in Members(tree) : n \in Subtree(tree, m) /\ ~IsRed(tree, m)}

\* The blacks on the way to the empty link d of n, one more where
\* __rb_erase_color has one to make good.
BlackDepth(n, d) ==
  Cardinality(BlackAbove(n)) +
    (IF pc = "erase" /\ \/ at = Null /\ par = n /\ SideOf(tree, n, Null) = d
                        \/ at # Null /\ n \in Subtree(tree, at)
     THEN 1 ELSE 0)

\* Every way from the root to an empty link meets the same number of black
\* entries: searches stay logarithmic.  While __rb_erase_color runs, exactly the
\* subtree it works at lacks one.
BlackBalanced ==
  LET Leaves == {p \in Members(tree) \X Sides : tree.link[p[2]][p[1]] = Null}
  IN  Cardinality({BlackDepth(p[1], p[2]) : p \in Leaves}) <= 1

\* table_get finds an entry exactly if it is there, whatever was added, deleted
\* and replaced before.
GetFinds ==
  \A n \in Nodes : table_get(Key[n]) =
    IF \E m \in Members(tree) : Key[m] = Key[n]
    THEN CHOOSE m \in Members(tree) : Key[m] = Key[n] ELSE Null

\* table_for_each, as a sequence of entries that ends with Null
Visited(d) ==
  LET visit[i \in 1 .. Cardinality(Nodes) + 1] ==
        IF i = 1 THEN EndOf(tree, Opposite(d))
        ELSE LET v == visit[i - 1] IN IF v = Null THEN Null ELSE Neighbour(tree, d, v)
  IN  visit

\* table_for_each meets every entry once, from the greatest key to the smallest,
\* and then stops; ks_rb_last and ks_rb_prev go the same way back.
EachVisitedOnce ==
  \A d \in Sides :
    LET visit == Visited(d)
        size  == Cardinality(Members(tree))
    IN  /\ \A i \in 1 .. size : visit[i] \in Members(tree)
        /\ \A i, j \in 1 .. size : i < j =>
             IF d = "right" THEN Key[visit[i]] > Key[visit[j]] ELSE Key[visit[i]] < Key[visit[j]]
        /\ visit[size + 1] = Null

\* table_add, table_del and ks_rb_replace_node do to the set of entries what the
\* map promises and the balancing never changes it.
Map == INSTANCE TableMap WITH entries <- Members(tree)
ImplementsMap == Map!MapSpec

\* A binary search tree in every state, also between two turns of a loop: typed,
\* ordered, and linked both ways.
SearchTree == TypeOK /\ SearchOrder /\ LinksAgree

\* ks_rb_insert_color and __rb_erase_color keep the two rules of colours, up to the
\* place they are at work, and restore them.
RedBlack == RedRedOnlyInLoop /\ BlackBalanced

\* The two ways to read the table, table_get and table_for_each, miss nothing.
ReadsExact == GetFinds /\ EachVisitedOnce
=============================================================================
