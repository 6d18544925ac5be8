---------------------------- MODULE TableProofs -----------------------------
(***************************************************************************)
(* Proofs about the table, for any entries and keys: the red-black tree is *)
(* sound in every state (TreeInv), and so it is a search tree, balanced,   *)
(* read exactly, and an implementation of the map in TableMap.             *)
(*                                                                         *)
(* The lemmas about the operators of RbTree come first, for every tree,    *)
(* key and node: what the operations of ks_rbtree.c do to the order, to    *)
(* the links and to the two rules of colours.                              *)
(*                                                                         *)
(* Recursive functions and subtrees cannot be reasoned about by induction  *)
(* here. A function S that gives each node the nodes below it, and a       *)
(* function H that gives it the black nodes below it, are witnesses with   *)
(* local conditions; "for every node" is proved at a node with the         *)
(* smallest set that is a counterexample.                                  *)
(***************************************************************************)
EXTENDS Table, FiniteSetTheorems, WellFoundedInduction, TLAPS

-----------------------------------------------------------------------------
(* Induction over finite sets, and walks. *)

\* There are two sides, and each is the opposite of the other.
LEMMA OppositeFacts ==
  ASSUME NEW d \in Sides
  PROVE  /\ Opposite(d) \in Sides /\ Opposite(d) # d /\ Opposite(Opposite(d)) = d
         /\ Sides = {d, Opposite(d)}
<1>1. \E o \in Sides : o # d
  BY DEF Sides
<1>2. Opposite(d) \in Sides /\ Opposite(d) # d
  BY <1>1 DEF Opposite
<1>3. \E o \in Sides : o # Opposite(d)
  BY <1>2
<1>4. Opposite(Opposite(d)) \in Sides /\ Opposite(Opposite(d)) # Opposite(d)
  BY <1>3 DEF Opposite
<1> QED
  BY <1>2, <1>4 DEF Sides

\* A nonempty set of nodes that have sets of nodes has one whose set has none of the others'
\* inside it.
LEMMA SmallestSet ==
  ASSUME NEW X \in SUBSET Nodes, X # {}, NEW S \in [Nodes -> SUBSET Nodes]
  PROVE  \E n \in X : \A m \in X : S[m] \subseteq S[n] => S[m] = S[n]
<1> DEFINE C == {S[n] : n \in X}
<1>1. C \subseteq FiniteSubsetsOf(Nodes) /\ C # {}
  BY NodeAssumption, FS_Subset DEF FiniteSubsetsOf
<1>2. PICK Y \in C : \A Z \in C : ~(<<Z, Y>> \in StrictSubsetOrdering(Nodes))
  <2> HIDE DEF C
  <2> QED
    BY <1>1, FS_StrictSubsetOrderingWellFounded, WFMin
<1>3. \A Z \in C : Z \subseteq Y => Z = Y
  BY <1>1, <1>2 DEF StrictSubsetOrdering, FiniteSubsetsOf
<1> QED
  <2>1. PICK n \in X : Y = S[n]
    BY <1>2
  <2>2. \A m \in X : S[m] \in C
    OBVIOUS
  <2>3. \A m \in X : S[m] \subseteq S[n] => S[m] = S[n]
    BY <1>3, <2>1, <2>2
  <2> QED
    BY <2>3

\* The nodes a walk along F from n can end at: it goes on wherever F has a node.
Ends(F, n) ==
  {r \in Nodes :
     F[r] = Null /\ \A W \in SUBSET Nodes :
                      n \in W /\ (\A m \in W : F[m] # Null => F[m] \in W) => r \in W}

\* The end of a walk does not depend on where along it the walk is taken up.
LEMMA EndsGoOn ==
  ASSUME NEW F \in [Nodes -> Nodes \cup {Null}], NEW n \in Nodes
  PROVE  /\ F[n] = Null => Ends(F, n) = {n}
         /\ F[n] # Null => Ends(F, n) = Ends(F, F[n])
<1>1. ASSUME F[n] = Null PROVE Ends(F, n) = {n}
  <2>1. n \in Ends(F, n)
    BY <1>1 DEF Ends
  <2>2. ASSUME NEW r \in Ends(F, n) PROVE r = n
    <3>1. {n} \in SUBSET Nodes /\ n \in {n} /\ \A m \in {n} : F[m] # Null => F[m] \in {n}
      BY <1>1
    <3> QED
      BY <3>1 DEF Ends
  <2> QED
    BY <2>1, <2>2
<1>2. ASSUME F[n] # Null PROVE Ends(F, n) = Ends(F, F[n])
  <2>1. F[n] \in Nodes
    BY <1>2
  <2>2. ASSUME NEW r \in Ends(F, n) PROVE r \in Ends(F, F[n])
    <3>1. ASSUME NEW W \in SUBSET Nodes, F[n] \in W,
                 \A m \in W : F[m] # Null => F[m] \in W
          PROVE  r \in W
      <4>1. /\ W \cup {n} \in SUBSET Nodes /\ n \in W \cup {n}
            /\ \A m \in W \cup {n} : F[m] # Null => F[m] \in W \cup {n}
        BY <3>1
      <4>2. r \in W \cup {n} /\ r # n
        BY <1>2, <4>1 DEF Ends
      <4> QED
        BY <4>2
    <3> QED
      BY <3>1 DEF Ends
  <2>3. ASSUME NEW r \in Ends(F, F[n]) PROVE r \in Ends(F, n)
    BY <1>2 DEF Ends
  <2> QED
    BY <2>2, <2>3
<1> QED
  BY <1>1, <1>2

\* So a recursive function along F exists, whether or not F goes round in a circle somewhere.
LEMMA WalkExists ==
  ASSUME NEW F \in [Nodes -> Nodes \cup {Null}], NEW V
  PROVE  \E g : g = [n \in Nodes |-> IF F[n] = Null THEN V[n] ELSE g[F[n]]]
<1> DEFINE g == [n \in Nodes |-> V[CHOOSE r : r \in Ends(F, n)]]
<1>1. ASSUME NEW n \in Nodes PROVE g[n] = IF F[n] = Null THEN V[n] ELSE g[F[n]]
  <2>1. CASE F[n] = Null
    <3>1. Ends(F, n) = {n}
      BY <2>1, EndsGoOn
    <3> QED
      BY <2>1, <3>1
  <2>2. CASE F[n] # Null
    <3>1. F[n] \in Nodes
      BY <2>2
    <3>2. Ends(F, n) = Ends(F, F[n])
      BY <2>2, EndsGoOn
    <3>3. g[n] = V[CHOOSE r : r \in Ends(F, F[n])]
      BY <3>2
    <3>4. g[F[n]] = V[CHOOSE r : r \in Ends(F, F[n])]
      BY <3>1
    <3> HIDE DEF g
    <3> QED
      BY <2>2, <3>3, <3>4
  <2> QED
    BY <2>1, <2>2
<1>2. g = [n \in Nodes |-> g[n]]
  OBVIOUS
<1> HIDE DEF g
<1>3. g = [n \in Nodes |-> IF F[n] = Null THEN V[n] ELSE g[F[n]]]
  BY <1>1, <1>2
<1> QED
  BY <1>3

-----------------------------------------------------------------------------
(* The shape of a tree.  S gives each node the nodes of its subtree.  It is a *)
(* witness that the links do not go round in circles: local conditions on it  *)
(* stand for what Subtree says of whole trees.                                *)

\* The key j belongs on side d of the key k.
Beyond(d, j, k) == IF d = "left" THEN j > k ELSE j < k

Sub(S, n) == IF n = Null THEN {} ELSE S[n]

NodeShaped(t, S, n) ==
  /\ \A x : x \in S[n] <=> x = n \/ \E d \in Sides : x \in Sub(S, t.link[d][n])
  /\ \A d \in Sides :
       /\ \A m \in Sub(S, t.link[d][n]) : Beyond(d, Key[m], Key[n])
       /\ t.link[d][n] # Null => t.link[d][n] \in Sub(S, t.root) /\ t.parent[t.link[d][n]] = n

Shaped(t, S) ==
  /\ t \in Trees /\ S \in [Nodes -> SUBSET Nodes]
  /\ \A n \in Nodes : n \in S[n]
  /\ t.root # Null => t.parent[t.root] = Null
  /\ \A n \in Sub(S, t.root) : NodeShaped(t, S, n)

\* Beyond orders the keys, in one direction or the other.
LEMMA BeyondFacts ==
  ASSUME NEW d \in Sides, NEW j \in Int, NEW k \in Int
  PROVE  /\ Beyond(d, j, k) <=> Beyond(Opposite(d), k, j)
         /\ Beyond(d, j, k) => ~Beyond(Opposite(d), j, k) /\ j # k
         /\ j # k => Beyond(d, j, k) \/ Beyond(Opposite(d), j, k)
         /\ \A l \in Int : Beyond(d, j, k) /\ Beyond(d, k, l) => Beyond(d, j, l)
<1>1. Opposite(d) \in Sides /\ Opposite(d) # d
  BY OppositeFacts
<1> QED
  BY <1>1 DEF Beyond, Sides

\* Where the links, the parents and the subtrees of a shaped tree are.
LEMMA SubType ==
  ASSUME NEW t, NEW S, Shaped(t, S)
  PROVE  /\ t.root \in Nodes \cup {Null} /\ Sub(S, t.root) \in SUBSET Nodes
         /\ \A n \in Nodes, d \in Sides : t.link[d][n] \in Nodes \cup {Null}
         /\ \A n \in Nodes : t.parent[n] \in Nodes \cup {Null} /\ Key[n] \in Int /\ n # Null
         /\ \A n \in Nodes \cup {Null} : Sub(S, n) \in SUBSET Nodes
         /\ \A n \in Nodes : Sub(S, n) = S[n] /\ n \in S[n]
         /\ Sub(S, Null) = {}
  BY NodeAssumption DEF Shaped, Trees, Sub

\* What a child has to do with its parent.
LEMMA ChildFacts ==
  ASSUME NEW t, NEW S, Shaped(t, S), NEW n \in Sub(S, t.root), NEW d \in Sides,
         t.link[d][n] # Null
  PROVE  LET c == t.link[d][n]
         IN  /\ c \in Sub(S, t.root) /\ c \in Nodes /\ n \in Nodes /\ c # n /\ t.parent[c] = n
             /\ c \in S[c] /\ c \in S[n] /\ S[c] \subseteq S[n] /\ n \notin S[c] /\ n \in S[n]
             /\ \A m \in S[c] : Beyond(d, Key[m], Key[n])
<1> DEFINE c == t.link[d][n]
<1>1. n \in Nodes /\ c \in Nodes /\ Sub(S, c) = S[c] /\ c \in S[c] /\ n \in S[n]
  BY SubType
<1>2. NodeShaped(t, S, n)
  BY DEF Shaped
<1>3. c \in Sub(S, t.root) /\ t.parent[c] = n /\ S[c] \subseteq S[n]
  BY <1>1, <1>2 DEF NodeShaped
<1>4. \A m \in S[c] : Beyond(d, Key[m], Key[n])
  BY <1>1, <1>2 DEF NodeShaped
<1>5. ~Beyond(d, Key[n], Key[n])
  <2>1. Key[n] \in Int
    BY <1>1, SubType
  <2> QED
    BY <2>1, BeyondFacts
<1> QED
  BY <1>1, <1>3, <1>4, <1>5

\* A node of a subtree is its root or on one side of it, and only on one.
LEMMA NodeSides ==
  ASSUME NEW t, NEW S, Shaped(t, S), NEW n \in Sub(S, t.root)
  PROVE  /\ \A x \in S[n] : x # n => \E d \in Sides : t.link[d][n] # Null /\ x \in S[t.link[d][n]]
         /\ \A d \in Sides : \A x \in Sub(S, t.link[d][n]) :
              x \in S[n] /\ x # n /\ x \notin Sub(S, t.link[Opposite(d)][n])
         /\ \A d \in Sides : t.link[d][n] # Null => t.link[Opposite(d)][n] # t.link[d][n]
<1>1. NodeShaped(t, S, n) /\ n \in Nodes
  BY SubType DEF Shaped
<1>2. ASSUME NEW x \in S[n], x # n
      PROVE  \E d \in Sides : t.link[d][n] # Null /\ x \in S[t.link[d][n]]
  BY <1>1, <1>2 DEF NodeShaped, Sub
<1>3. ASSUME NEW d \in Sides, NEW x \in Sub(S, t.link[d][n])
      PROVE  x \in S[n] /\ x # n /\ x \notin Sub(S, t.link[Opposite(d)][n])
  <2>1. x \in S[n]
    BY <1>1 DEF NodeShaped
  <2>2. x \in Nodes /\ Key[x] \in Int /\ Key[n] \in Int
    BY <1>1, <2>1, SubType DEF Shaped
  <2>3. Beyond(d, Key[x], Key[n])
    BY <1>1 DEF NodeShaped
  <2>4. x # n /\ ~Beyond(Opposite(d), Key[x], Key[n])
    BY <2>2, <2>3, BeyondFacts
  <2> QED
    BY <1>1, <2>1, <2>4, OppositeFacts DEF NodeShaped
<1>4. ASSUME NEW d \in Sides, t.link[d][n] # Null PROVE t.link[Opposite(d)][n] # t.link[d][n]
  <2>1. t.link[d][n] \in Sub(S, t.link[d][n])
    BY <1>1, <1>4, SubType
  <2> QED
    BY <1>3, <2>1
<1> QED
  BY <1>2, <1>3, <1>4

\* The same as SmallestSet, for the subtrees of a tree: one that contains no other.
LEMMA Smallest ==
  ASSUME NEW t, NEW S, Shaped(t, S), NEW X \in SUBSET Nodes, X # {}
  PROVE  \E n \in X : \A m \in X : S[m] \subseteq S[n] => n \in S[m]
<1>1. PICK n \in X : \A m \in X : S[m] \subseteq S[n] => S[m] = S[n]
  BY SmallestSet DEF Shaped
<1> QED
  BY <1>1 DEF Shaped

\* A node's subtree lies inside every subtree the node is in.
LEMMA Nested ==
  ASSUME NEW t, NEW S, Shaped(t, S), NEW n \in Sub(S, t.root), NEW m \in S[n]
  PROVE  m \in Sub(S, t.root) /\ S[m] \subseteq S[n]
<1> DEFINE M == Sub(S, t.root)
           X == {k \in M : \E x \in S[k] : ~(x \in M /\ S[x] \subseteq S[k])}
<1>1. SUFFICES X = {}
  OBVIOUS
<1>2. SUFFICES ASSUME X # {} PROVE FALSE
  OBVIOUS
<1>3. X \in SUBSET Nodes
  BY SubType
<1>4. PICK k \in X : \A l \in X : S[l] \subseteq S[k] => k \in S[l]
  <2> HIDE DEF X
  <2> QED
    BY <1>2, <1>3, Smallest
<1>5. PICK x \in S[k] : ~(x \in M /\ S[x] \subseteq S[k])
  BY <1>4
<1>6. k \in M /\ x # k
  BY <1>4, <1>5
<1>7. PICK d \in Sides : t.link[d][k] # Null /\ x \in S[t.link[d][k]]
  BY <1>6, NodeSides
<1> DEFINE c == t.link[d][k]
<1>8. c \in M /\ S[c] \subseteq S[k] /\ k \notin S[c]
  BY <1>6, <1>7, ChildFacts
<1>9. c \notin X
  BY <1>4, <1>8
<1>10. x \in M /\ S[x] \subseteq S[c]
  BY <1>7, <1>8, <1>9
<1> QED
  BY <1>5, <1>8, <1>10

\* Two subtrees that share a node are one inside the other.
LEMMA Laminar ==
  ASSUME NEW t, NEW S, Shaped(t, S), NEW n \in Sub(S, t.root), NEW m \in Sub(S, t.root),
         NEW x, x \in S[n], x \in S[m]
  PROVE  n \in S[m] \/ m \in S[n]
<1> DEFINE M == Sub(S, t.root)
           X == {k \in M : n \in S[k] /\ m \in S[k]}
<1>1. t.root # Null /\ t.root \in X
  BY SubType DEF Sub
<1>2. X \in SUBSET Nodes /\ X # {}
  BY <1>1, SubType
<1>3. PICK k \in X : \A l \in X : S[l] \subseteq S[k] => k \in S[l]
  <2> HIDE DEF X
  <2> QED
    BY <1>2, Smallest
<1>4. SUFFICES ASSUME k # n, k # m PROVE FALSE
  BY <1>3
<1>5. PICK d \in Sides : t.link[d][k] # Null /\ n \in S[t.link[d][k]]
  BY <1>3, <1>4, NodeSides
<1>6. PICK f \in Sides : t.link[f][k] # Null /\ m \in S[t.link[f][k]]
  BY <1>3, <1>4, NodeSides
<1>7. t.link[d][k] \in M /\ S[t.link[d][k]] \subseteq S[k] /\ k \notin S[t.link[d][k]]
  BY <1>3, <1>5, ChildFacts
<1>8. t.link[f][k] \in M
  BY <1>3, <1>6, ChildFacts
<1>9. x \in S[t.link[d][k]] /\ x \in S[t.link[f][k]]
  BY <1>5, <1>6, <1>7, <1>8, Nested
<1>10. d = f
  <2>1. SUFFICES ASSUME d # f PROVE FALSE
    OBVIOUS
  <2>2. f = Opposite(d)
    BY <2>1, OppositeFacts
  <2>3. x \in Sub(S, t.link[d][k]) /\ x \in Sub(S, t.link[f][k])
    BY <1>5, <1>6, <1>9 DEF Sub
  <2> QED
    BY <1>3, <2>2, <2>3, NodeSides
<1> QED
  BY <1>3, <1>5, <1>6, <1>7, <1>10

\* Every node but the root hangs on a link of its parent, and on no other.
LEMMA ParentFacts ==
  ASSUME NEW t, NEW S, Shaped(t, S), NEW n \in Sub(S, t.root)
  PROVE  /\ t.parent[n] = Null <=> n = t.root
         /\ n # t.root => /\ t.parent[n] \in Sub(S, t.root) /\ t.parent[n] \in Nodes
                          /\ t.parent[n] # n
                          /\ \E d \in Sides : t.link[d][t.parent[n]] = n
                          /\ S[n] \subseteq S[t.parent[n]] /\ t.parent[n] \notin S[n]
         /\ \A m \in Sub(S, t.root), d \in Sides : t.link[d][m] = n => m = t.parent[n]
<1> DEFINE M == Sub(S, t.root)
<1>1. n \in Nodes /\ n # Null
  BY SubType
<1>2. t.root # Null /\ t.root \in M
  BY SubType
<1>3. ASSUME n # t.root
      PROVE  /\ t.parent[n] \in M /\ t.parent[n] \in Nodes /\ t.parent[n] # n
             /\ \E d \in Sides : t.link[d][t.parent[n]] = n
             /\ S[n] \subseteq S[t.parent[n]] /\ t.parent[n] \notin S[n]
  <2> DEFINE X == {k \in M : n \in S[k] /\ k # n}
  <2>1. t.root \in X /\ X \in SUBSET Nodes
    BY <1>2, <1>3, SubType
  <2>2. PICK k \in X : \A l \in X : S[l] \subseteq S[k] => k \in S[l]
    <3> HIDE DEF X
    <3> QED
      BY <2>1, Smallest
  <2>3. PICK d \in Sides : t.link[d][k] # Null /\ n \in S[t.link[d][k]]
    BY <2>2, NodeSides
  <2> DEFINE c == t.link[d][k]
  <2>4. c \in M /\ S[c] \subseteq S[k] /\ k \notin S[c] /\ t.parent[c] = k /\ c # k /\ k \in Nodes
    BY <2>2, <2>3, ChildFacts
  <2>5. c = n
    BY <2>2, <2>3, <2>4
  <2> QED
    BY <2>2, <2>4, <2>5
<1>4. ASSUME NEW m \in M, NEW d \in Sides, t.link[d][m] = n PROVE m = t.parent[n]
  BY <1>1, <1>4, ChildFacts
<1>5. n = t.root => t.parent[n] = Null
  BY <1>2 DEF Shaped
<1>6. n # t.root => t.parent[n] # Null
  BY <1>3, SubType
<1> QED
  BY <1>3, <1>4, <1>5, <1>6

\* No two nodes of the tree have the same key.
LEMMA KeysDiffer ==
  ASSUME NEW t, NEW S, Shaped(t, S), NEW n \in Sub(S, t.root), NEW m \in Sub(S, t.root),
         Key[n] = Key[m]
  PROVE  n = m
<1> DEFINE M == Sub(S, t.root)
           X == {k \in M : n \in S[k] /\ m \in S[k]}
<1>1. t.root # Null /\ t.root \in X
  BY SubType DEF Sub
<1>2. X \in SUBSET Nodes /\ X # {}
  BY <1>1, SubType
<1>3. PICK k \in X : \A l \in X : S[l] \subseteq S[k] => k \in S[l]
  <2> HIDE DEF X
  <2> QED
    BY <1>2, Smallest
<1>4. ASSUME NEW x \in S[k], NEW y \in S[k], x = k, y # k PROVE Key[x] # Key[y]
  <2>1. PICK d \in Sides : t.link[d][k] # Null /\ y \in S[t.link[d][k]]
    BY <1>3, <1>4, NodeSides
  <2>2. Beyond(d, Key[y], Key[k])
    BY <1>3, <2>1, ChildFacts
  <2>3. Key[y] \in Int /\ Key[k] \in Int
    BY <1>3, SubType DEF Shaped
  <2> QED
    BY <1>4, <2>2, <2>3, BeyondFacts
<1>5. SUFFICES ASSUME k # n, k # m PROVE FALSE
  BY <1>3, <1>4
<1>6. PICK d \in Sides : t.link[d][k] # Null /\ n \in S[t.link[d][k]]
  BY <1>3, <1>5, NodeSides
<1>7. PICK f \in Sides : t.link[f][k] # Null /\ m \in S[t.link[f][k]]
  BY <1>3, <1>5, NodeSides
<1>8. /\ t.link[d][k] \in M /\ S[t.link[d][k]] \subseteq S[k] /\ k \notin S[t.link[d][k]]
      /\ Beyond(d, Key[n], Key[k])
  BY <1>3, <1>6, ChildFacts
<1>9. Beyond(f, Key[m], Key[k])
  BY <1>3, <1>7, ChildFacts
<1>10. d = f
  <2>1. Key[n] \in Int /\ Key[k] \in Int
    BY <1>3, SubType
  <2>2. ~Beyond(Opposite(d), Key[n], Key[k])
    BY <1>8, <2>1, BeyondFacts
  <2> QED
    BY <1>9, <2>2, OppositeFacts
<1> QED
  BY <1>3, <1>6, <1>7, <1>8, <1>10

\* SideOf names the only link that leads to the node.
LEMMA SideOfChild ==
  ASSUME NEW t, NEW S, Shaped(t, S), NEW n \in Sub(S, t.root), n # t.root
  PROVE  LET p == t.parent[n]
             d == SideOf(t, p, n)
         IN  /\ d \in Sides /\ t.link[d][p] = n /\ t.link[Opposite(d)][p] # n
             /\ \A f \in Sides : t.link[f][p] = n => f = d
<1> DEFINE p == t.parent[n]
<1>1. p \in Sub(S, t.root) /\ n # Null
  BY ParentFacts, SubType
<1>2. PICK f \in Sides : t.link[f][p] = n
  BY ParentFacts
<1>3. t.link[Opposite(f)][p] # n
  BY <1>1, <1>2, NodeSides
<1>4. SideOf(t, p, n) = f
  BY <1>2, <1>3, OppositeFacts DEF SideOf, Sides
<1>5. \A g \in Sides : t.link[g][p] = n => g = f
  BY <1>3, OppositeFacts
<1> QED
  BY <1>2, <1>3, <1>4, <1>5

\* The closure that defines Subtree exists: the smallest closed set around w.
Closed(t, W) == \A m \in W, d \in Sides : t.link[d][m] # Null => t.link[d][m] \in W

Around(t, w) == {x \in Nodes : \A W \in SUBSET Nodes : w \subseteq W /\ Closed(t, W) => x \in W}

\* Subtree, which follows the links, arrives at the set the witness names.
LEMMA SubtreeIs ==
  ASSUME NEW t, NEW S, Shaped(t, S), NEW n \in Sub(S, t.root) \cup {Null}
  PROVE  Subtree(t, n) = Sub(S, n)
<1> DEFINE close[w \in SUBSET Nodes] ==
             IF Children(t, w) \subseteq w THEN w ELSE close[w \cup Children(t, w)]
<1>1. Subtree(t, n) = close[{n} \ {Null}]
  BY DEF Subtree
<1>2. \A w \in SUBSET Nodes : Children(t, w) \in SUBSET Nodes
  BY SubType DEF Children
<1>3. \A w \in SUBSET Nodes : Children(t, w) \subseteq w <=> Closed(t, w)
  BY DEF Closed, Children
<1> DEFINE g == [w \in SUBSET Nodes |-> Around(t, w)]
<1>4. ASSUME NEW w \in SUBSET Nodes
      PROVE  g[w] = IF Children(t, w) \subseteq w THEN w ELSE g[w \cup Children(t, w)]
  <2>1. ASSUME Children(t, w) \subseteq w PROVE Around(t, w) = w
    BY <1>3, <2>1 DEF Around
  <2>2. Around(t, w) = Around(t, w \cup Children(t, w))
    <3>1. ASSUME NEW W \in SUBSET Nodes, Closed(t, W), w \subseteq W
          PROVE  w \cup Children(t, w) \subseteq W
      BY <3>1 DEF Closed, Children
    <3> QED
      BY <3>1 DEF Around
  <2>3. w \cup Children(t, w) \in SUBSET Nodes
    BY <1>2
  <2> QED
    BY <2>1, <2>2, <2>3
<1>5. g = [w \in SUBSET Nodes |->
             IF Children(t, w) \subseteq w THEN w ELSE g[w \cup Children(t, w)]]
  <2>1. g = [w \in SUBSET Nodes |-> g[w]]
    OBVIOUS
  <2> HIDE DEF g
  <2> QED
    BY <1>4, <2>1
<1>6. close = [w \in SUBSET Nodes |->
                 IF Children(t, w) \subseteq w THEN w ELSE close[w \cup Children(t, w)]]
  <2> HIDE DEF g
  <2> QED
    BY <1>5
<1> HIDE DEF close, g
<1>7. \A w \in SUBSET Nodes :
        close[w] = IF Children(t, w) \subseteq w THEN w ELSE close[w \cup Children(t, w)]
  BY <1>6
<1>8. ASSUME NEW w \in SUBSET Nodes PROVE close[w] = Around(t, w)
  <2> DEFINE C == {v \in SUBSET Nodes : close[Nodes \ v] # Around(t, Nodes \ v)}
  <2>1. SUFFICES C = {}
    <3>1. Nodes \ (Nodes \ w) = w /\ Nodes \ w \in SUBSET Nodes
      OBVIOUS
    <3> QED
      BY <2>1, <3>1
  <2>2. SUFFICES ASSUME C # {} PROVE FALSE
    OBVIOUS
  <2>3. C \subseteq FiniteSubsetsOf(Nodes)
    BY NodeAssumption, FS_Subset DEF FiniteSubsetsOf
  <2>4. PICK v \in C : \A u \in C : ~(<<u, v>> \in StrictSubsetOrdering(Nodes))
    <3> HIDE DEF C
    <3> QED
      BY <2>2, <2>3, FS_StrictSubsetOrderingWellFounded, WFMin
  <2>5. v \in SUBSET Nodes /\ Nodes \ v \in SUBSET Nodes
    OBVIOUS
  <2> DEFINE z == Nodes \ v
  <2>6. close[z] = IF Children(t, z) \subseteq z THEN z ELSE close[z \cup Children(t, z)]
    BY <1>7
  <2>7. Around(t, z) = IF Children(t, z) \subseteq z THEN z ELSE Around(t, z \cup Children(t, z))
    <3>1. z \cup Children(t, z) \in SUBSET Nodes
      BY <1>2
    <3>2. g[z] = Around(t, z) /\ g[z \cup Children(t, z)] = Around(t, z \cup Children(t, z))
      BY <3>1 DEF g
    <3> HIDE DEF z
    <3> QED
      BY <1>4, <2>5, <3>2 DEF z
  <2>8. ~(Children(t, z) \subseteq z)
    BY <2>4, <2>6, <2>7
  <2>9. close[z \cup Children(t, z)] # Around(t, z \cup Children(t, z))
    BY <2>4, <2>6, <2>7, <2>8
  <2> DEFINE u == Nodes \ (z \cup Children(t, z))
  <2>10. u \in SUBSET Nodes /\ Nodes \ u = z \cup Children(t, z) /\ u \subseteq v /\ u # v
    BY <1>2, <2>5, <2>8
  <2>11. u \in C
    BY <2>9, <2>10
  <2>12. <<u, v>> \in StrictSubsetOrdering(Nodes)
    <3>1. IsFiniteSet(u) /\ IsFiniteSet(v)
      BY NodeAssumption, FS_Subset, <2>5, <2>10
    <3> HIDE DEF u, C
    <3> QED
      BY <2>5, <2>10, <3>1 DEF StrictSubsetOrdering, FiniteSubsetsOf
  <2> QED
    BY <2>4, <2>11, <2>12
<1>9. CASE n = Null
  <2>1. {n} \ {Null} = {} /\ {} \in SUBSET Nodes /\ Closed(t, {})
    BY <1>9 DEF Closed
  <2>2. Around(t, {}) = {}
    BY <2>1 DEF Around
  <2> QED
    BY <1>1, <1>8, <1>9, <2>1, <2>2 DEF Sub
<1>10. CASE n # Null
  <2>1. n \in Sub(S, t.root) /\ n \in Nodes /\ {n} \ {Null} = {n} /\ {n} \in SUBSET Nodes
    BY <1>10, SubType
  <2>2. S[n] \in SUBSET Nodes /\ n \in S[n] /\ S[n] = Sub(S, n)
    BY <2>1, SubType
  <2>3. Closed(t, S[n])
    <3> SUFFICES ASSUME NEW m \in S[n], NEW d \in Sides, t.link[d][m] # Null
                 PROVE  t.link[d][m] \in S[n]
      BY DEF Closed
    <3>1. m \in Sub(S, t.root) /\ S[m] \subseteq S[n]
      BY <2>1, Nested
    <3> QED
      BY <3>1, ChildFacts
  <2>4. ASSUME NEW W \in SUBSET Nodes, n \in W, Closed(t, W) PROVE S[n] \subseteq W
    <3> DEFINE X == {k \in W \cap Sub(S, t.root) : ~(S[k] \subseteq W)}
    <3>1. SUFFICES X = {}
      BY <2>1, <2>4
    <3>2. SUFFICES ASSUME X # {} PROVE FALSE
      OBVIOUS
    <3>3. PICK k \in X : \A l \in X : S[l] \subseteq S[k] => k \in S[l]
      <4>1. X \in SUBSET Nodes
        OBVIOUS
      <4> HIDE DEF X
      <4> QED
        BY <3>2, <4>1, Smallest
    <3>4. PICK x \in S[k] : x \notin W
      BY <3>3
    <3>5. PICK d \in Sides : t.link[d][k] # Null /\ x \in S[t.link[d][k]]
      BY <3>3, <3>4, NodeSides
    <3>6. /\ t.link[d][k] \in Sub(S, t.root) /\ S[t.link[d][k]] \subseteq S[k]
          /\ k \notin S[t.link[d][k]]
      BY <3>3, <3>5, ChildFacts
    <3>7. t.link[d][k] \in W
      BY <2>4, <3>3, <3>5 DEF Closed
    <3>8. t.link[d][k] \in X
      BY <3>4, <3>5, <3>6, <3>7
    <3> QED
      BY <3>3, <3>6, <3>8
  <2>5. Around(t, {n}) = S[n]
    BY <2>2, <2>3, <2>4 DEF Around
  <2> QED
    BY <1>1, <1>8, <2>1, <2>2, <2>5
<1> QED
  BY <1>9, <1>10

-----------------------------------------------------------------------------
(* What the operations do, field by field. *)

Links == Nodes \cup {Null}

\* A link is a node or Null.
LEMMA LinksAre ==
  /\ Null \in Links /\ Null \notin Nodes
  /\ \A x : x \in Links <=> x = Null \/ x \in Nodes
  BY NodeAssumption DEF Links

\* What Paint does to each field.
LEMMA PaintFields ==
  ASSUME NEW t \in Trees, NEW n \in Nodes, NEW c \in Colors
  PROVE  /\ Paint(t, n, c) \in Trees
         /\ Paint(t, n, c).root = t.root /\ Paint(t, n, c).link = t.link
         /\ Paint(t, n, c).parent = t.parent
         /\ Paint(t, n, c).color[n] = c
         /\ \A x \in Nodes : x # n => Paint(t, n, c).color[x] = t.color[x]
  BY DEF Paint, Trees

\* What SetParent does to each field.
LEMMA SetParentFields ==
  ASSUME NEW t \in Trees, NEW n \in Links, NEW p \in Links
  PROVE  LET u == SetParent(t, n, p)
         IN  /\ u \in Trees /\ u.root = t.root /\ u.link = t.link /\ u.color = t.color
             /\ \A x \in Nodes : u.parent[x] = IF x = n THEN p ELSE t.parent[x]
  BY NodeAssumption DEF SetParent, Trees, Links

\* What an assignment to one link does to each field.
LEMMA LinkFields ==
  ASSUME NEW t \in Trees, NEW d \in Sides, NEW n \in Nodes, NEW v \in Links
  PROVE  LET u == [t EXCEPT !.link[d][n] = v]
         IN  /\ u \in Trees /\ u.root = t.root /\ u.parent = t.parent /\ u.color = t.color
             /\ \A f \in Sides, x \in Nodes :
                  u.link[f][x] = IF f = d /\ x = n THEN v ELSE t.link[f][x]
<1> DEFINE u == [t EXCEPT !.link[d][n] = v]
<1>1. u = [root |-> t.root, link |-> [t.link EXCEPT ![d] = [t.link[d] EXCEPT ![n] = v]],
           parent |-> t.parent, color |-> t.color]
  BY DEF Trees, Links
<1>2. [t.link EXCEPT ![d] = [t.link[d] EXCEPT ![n] = v]] \in [Sides -> [Nodes -> Links]]
  BY DEF Trees, Links
<1>3. \A f \in Sides, x \in Nodes :
        [t.link EXCEPT ![d] = [t.link[d] EXCEPT ![n] = v]][f][x] =
          IF f = d /\ x = n THEN v ELSE t.link[f][x]
  BY DEF Trees, Links
<1> HIDE DEF u
<1> QED
  BY <1>1, <1>2, <1>3 DEF Trees, Links

\* What Relink does to each field.
LEMMA RelinkFields ==
  ASSUME NEW t \in Trees, NEW p \in Links, NEW old \in Nodes, NEW new \in Links
  PROVE  LET u == Relink(t, p, old, new)
         IN  /\ u \in Trees /\ u.parent = t.parent /\ u.color = t.color
             /\ u.root = IF p = Null THEN new ELSE t.root
             /\ \A f \in Sides, x \in Nodes :
                  u.link[f][x] = IF p # Null /\ x = p /\ f = SideOf(t, p, old) THEN new
                      ELSE t.link[f][x]
<1>1. CASE p = Null
  BY <1>1 DEF Relink, Trees, Links
<1>2. CASE p # Null
  <2>1. p \in Nodes /\ SideOf(t, p, old) \in Sides
    BY <1>2, LinksAre DEF SideOf, Sides
  <2>2. Relink(t, p, old, new) = [t EXCEPT !.link[SideOf(t, p, old)][p] = new]
    BY <1>2 DEF Relink
  <2> DEFINE d == SideOf(t, p, old)
             u == [t EXCEPT !.link[d][p] = new]
  <2>3. d \in Sides
    BY <2>1
  <2> HIDE DEF d
  <2>4. /\ u \in Trees /\ u.root = t.root /\ u.parent = t.parent /\ u.color = t.color
        /\ \A f \in Sides, x \in Nodes :
             u.link[f][x] = IF f = d /\ x = p THEN new ELSE t.link[f][x]
    BY <2>1, <2>3, LinkFields
  <2>5. Relink(t, p, old, new) = u
    BY <2>2 DEF d
  <2> HIDE DEF u
  <2> QED
    BY <1>2, <2>1, <2>4, <2>5 DEF d
<1> QED
  BY <1>1, <1>2

\* What Clear does to each field.
LEMMA ClearFields ==
  ASSUME NEW t \in Trees, NEW n \in Nodes
  PROVE  LET u == Clear(t, n)
         IN  /\ u \in Trees /\ u.root = t.root
             /\ \A f \in Sides, x \in Nodes :
                  u.link[f][x] = IF x = n THEN Null ELSE t.link[f][x]
             /\ \A x \in Nodes : u.parent[x] = IF x = n THEN Null ELSE t.parent[x]
             /\ \A x \in Nodes : u.color[x] = IF x = n THEN "red" ELSE t.color[x]
<1> DEFINE v == [t EXCEPT !.link["left"][n] = Null]
           w == [v EXCEPT !.link["right"][n] = Null]
           u == [w EXCEPT !.parent[n] = Null, !.color[n] = "red"]
<1>1. Clear(t, n) = u
  BY DEF Clear
<1>2. /\ v \in Trees /\ v.root = t.root /\ v.parent = t.parent /\ v.color = t.color
      /\ \A f \in Sides, x \in Nodes :
           v.link[f][x] = IF f = "left" /\ x = n THEN Null ELSE t.link[f][x]
  BY LinkFields, LinksAre DEF Sides
<1> HIDE DEF v
<1>3. /\ w \in Trees /\ w.root = t.root /\ w.parent = t.parent /\ w.color = t.color
      /\ \A f \in Sides, x \in Nodes :
           w.link[f][x] = IF f = "right" /\ x = n THEN Null ELSE v.link[f][x]
  BY <1>2, LinkFields, LinksAre DEF Sides
<1> HIDE DEF w
<1>4. /\ u \in Trees /\ u.root = w.root /\ u.link = w.link
      /\ \A x \in Nodes : u.parent[x] = IF x = n THEN Null ELSE w.parent[x]
      /\ \A x \in Nodes : u.color[x] = IF x = n THEN "red" ELSE w.color[x]
  BY <1>3 DEF Trees, Links, Colors
<1> HIDE DEF u
<1> QED
  BY <1>1, <1>2, <1>3, <1>4 DEF Sides

\* n goes down, c takes its place, and inner changes sides.
Swung(t, d, o, n, c, inner, p) ==
  LET moved == [Relink(t, p, n, c) EXCEPT !.link[o][n] = inner, !.link[d][c] = n]
  IN  SetParent(SetParent(SetParent(moved, inner, n), c, p), n, c)

IsRotated(u, t, d, o, n, c, inner, p) ==
  /\ u \in Trees /\ u.color = t.color
  /\ u.root = IF p = Null THEN c ELSE t.root
  /\ \A f \in Sides, x \in Nodes :
       u.link[f][x] = IF x = n /\ f = o THEN inner
                      ELSE IF x = c /\ f = d THEN n
                      ELSE IF x = p /\ f = SideOf(t, p, n) THEN c
                      ELSE t.link[f][x]
  /\ \A x \in Nodes : u.parent[x] = IF x = n THEN c ELSE IF x = c THEN p
                                    ELSE IF x = inner THEN n ELSE t.parent[x]

\* What the assignments of a rotation add up to, field by field.
LEMMA Rotated ==
  ASSUME NEW t \in Trees, NEW d \in Sides, NEW o \in Sides, o # d, NEW n \in Nodes,
         NEW c \in Nodes, c # n,
         NEW inner \in Links, inner # c, inner # n,
         NEW p \in Links, p # n, p # c
  PROVE  IsRotated(Swung(t, d, o, n, c, inner, p), t, d, o, n, c, inner, p)
<1> DEFINE r     == Relink(t, p, n, c)
           v     == [r EXCEPT !.link[o][n] = inner]
           w     == [v EXCEPT !.link[d][c] = n]
           a     == SetParent(w, inner, n)
           b     == SetParent(a, c, p)
           u     == SetParent(b, n, c)
<1>3. n \in Links /\ c \in Links
  BY LinksAre
<1>2. /\ r \in Trees /\ r.parent = t.parent /\ r.color = t.color
      /\ r.root = IF p = Null THEN c ELSE t.root
      /\ \A f \in Sides, x \in Nodes :
           r.link[f][x] = IF p # Null /\ x = p /\ f = SideOf(t, p, n) THEN c ELSE t.link[f][x]
  BY <1>3, RelinkFields
<1> HIDE DEF r
<1>4. /\ v \in Trees /\ v.root = r.root /\ v.parent = r.parent /\ v.color = r.color
      /\ \A f \in Sides, x \in Nodes :
           v.link[f][x] = IF f = o /\ x = n THEN inner ELSE r.link[f][x]
  BY <1>2, LinkFields
<1> HIDE DEF v
<1>5. /\ w \in Trees /\ w.root = v.root /\ w.parent = v.parent /\ w.color = v.color
      /\ \A f \in Sides, x \in Nodes :
           w.link[f][x] = IF f = d /\ x = c THEN n ELSE v.link[f][x]
  BY <1>3, <1>4, LinkFields
<1> HIDE DEF w
<1>15. w \in Trees
  BY <1>5
<1>6. /\ a \in Trees /\ a.root = w.root /\ a.link = w.link /\ a.color = w.color
      /\ \A x \in Nodes : a.parent[x] = IF x = inner THEN n ELSE w.parent[x]
  BY <1>3, <1>15, SetParentFields
<1> HIDE DEF a
<1>7. /\ b \in Trees /\ b.root = a.root /\ b.link = a.link /\ b.color = a.color
      /\ \A x \in Nodes : b.parent[x] = IF x = c THEN p ELSE a.parent[x]
  BY <1>3, <1>6, SetParentFields
<1> HIDE DEF b
<1>8. /\ u \in Trees /\ u.root = b.root /\ u.link = b.link /\ u.color = b.color
      /\ \A x \in Nodes : u.parent[x] = IF x = n THEN c ELSE b.parent[x]
  BY <1>3, <1>7, SetParentFields
<1>9. IsRotated(u, t, d, o, n, c, inner, p)
  <2> HIDE DEF u
  <2>1. \A x \in Nodes : x # Null
    BY NodeAssumption
  <2>2. \A f \in Sides, x \in Nodes :
         u.link[f][x] = IF x = n /\ f = o THEN inner
                        ELSE IF x = c /\ f = d THEN n
                        ELSE IF x = p /\ f = SideOf(t, p, n) THEN c
                        ELSE t.link[f][x]
    BY <1>2, <1>4, <1>5, <1>6, <1>7, <1>8, <2>1
  <2>3. \A x \in Nodes : u.parent[x] = IF x = n THEN c ELSE IF x = c THEN p
                                      ELSE IF x = inner THEN n ELSE t.parent[x]
    BY <1>2, <1>4, <1>5, <1>6, <1>7, <1>8
  <2> QED
    BY <1>2, <1>4, <1>5, <1>6, <1>7, <1>8, <2>2, <2>3 DEF IsRotated
<1> QED
  BY <1>9 DEF u, b, a, w, v, r, Swung

-----------------------------------------------------------------------------
(* Rotations keep the shape. *)

\* NodeShaped, told side by side.
LEMMA TwoSides ==
  ASSUME NEW t, NEW S, NEW n, NEW d \in Sides, NEW a, NEW b,
         a = t.link[d][n], b = t.link[Opposite(d)][n],
         \A x : x \in S[n] <=> x = n \/ x \in Sub(S, a) \/ x \in Sub(S, b),
         \A m \in Sub(S, a) : Beyond(d, Key[m], Key[n]),
         \A m \in Sub(S, b) : Beyond(Opposite(d), Key[m], Key[n]),
         \A c \in {a, b} : c # Null => c \in Sub(S, t.root) /\ t.parent[c] = n
  PROVE  NodeShaped(t, S, n)
<1>1. \A f \in Sides : f = d \/ f = Opposite(d)
  BY OppositeFacts
<1>2. d \in Sides /\ Opposite(d) \in Sides
  BY OppositeFacts
<1> QED
  BY <1>1, <1>2 DEF NodeShaped

\* And back.
LEMMA SidesOf ==
  ASSUME NEW t, NEW S, NEW n, NodeShaped(t, S, n), NEW d \in Sides
  PROVE  LET a == t.link[d][n]
             b == t.link[Opposite(d)][n]
         IN  /\ \A x : x \in S[n] <=> x = n \/ x \in Sub(S, a) \/ x \in Sub(S, b)
             /\ \A m \in Sub(S, a) : Beyond(d, Key[m], Key[n])
             /\ \A m \in Sub(S, b) : Beyond(Opposite(d), Key[m], Key[n])
             /\ \A c \in {a, b} : c # Null => c \in Sub(S, t.root) /\ t.parent[c] = n
<1>1. \A f \in Sides : f = d \/ f = Opposite(d)
  BY OppositeFacts
<1>2. d \in Sides /\ Opposite(d) \in Sides
  BY OppositeFacts
<1> QED
  BY <1>1, <1>2 DEF NodeShaped

\* A node nothing around which has changed is as well shaped as it was.
LEMMA SameNode ==
  ASSUME NEW t, NEW S, NEW u, NEW S2, NEW n, NodeShaped(t, S, n),
         S2[n] = S[n], Sub(S, t.root) \subseteq Sub(S2, u.root),
         \A f \in Sides : u.link[f][n] = t.link[f][n],
         \A f \in Sides : t.link[f][n] # Null =>
           S2[t.link[f][n]] = S[t.link[f][n]] /\ u.parent[t.link[f][n]] = t.parent[t.link[f][n]]
  PROVE  NodeShaped(u, S2, n)
<1>1. \A f \in Sides : Sub(S2, u.link[f][n]) = Sub(S, t.link[f][n])
  BY DEF Sub
<1> QED
  BY <1>1 DEF NodeShaped

\* The subtrees after n went down on side d
Turned(t, S, d, n) ==
  [S EXCEPT ![t.link[Opposite(d)][n]] = S[n],
            ![n] = {n} \cup Sub(S, t.link[d][n]) \cup Sub(S, t.link[d][t.link[Opposite(d)][n]])]

\* What Rotate does to a tree in which it is possible.
LEMMA RotateFields ==
  ASSUME NEW t, NEW S, Shaped(t, S), NEW n \in Sub(S, t.root), NEW d \in Sides,
         NEW o, o = Opposite(d), NEW c, c = t.link[o][n], c # Null,
         NEW inner, inner = t.link[d][c], NEW p, p = t.parent[n],
         NEW u, u = Rotate(t, d, n)
  PROVE  /\ n \in Nodes /\ c \in Nodes /\ c \in Sub(S, t.root) /\ c # n
         /\ inner # c /\ inner # n /\ p # n /\ p # c /\ o \in Sides /\ o # d
         /\ IsRotated(u, t, d, o, n, c, inner, p)
<1>1. o \in Sides /\ o # d
  BY OppositeFacts
<1>2. c \in Sub(S, t.root) /\ c \in Nodes /\ n \in Nodes /\ c # n /\ n \notin S[c] /\ c \in S[n]
  BY <1>1, ChildFacts
<1>3. inner # c /\ inner # n
  <2>1. inner # Null => inner \in S[c] /\ inner # c
    BY <1>2, ChildFacts
  <2> QED
    BY <1>2, <2>1, LinksAre
<1>4. p # n /\ p # c
  <2>1. n = t.root => p = Null
    BY ParentFacts
  <2>2. n # t.root => p # n /\ p \notin S[n]
    BY ParentFacts
  <2> QED
    BY <1>2, <2>1, <2>2, LinksAre
<1>5. t \in Trees /\ inner \in Links /\ p \in Links
  BY <1>2, SubType DEF Shaped, Links
<1>8. n \in Nodes /\ c \in Nodes /\ c # n /\ inner # c /\ inner # n /\ p # n /\ p # c
  BY <1>2, <1>3, <1>4
<1> DEFINE v == Swung(t, d, o, n, c, inner, p)
<1>6. u = v
  BY DEF Rotate, Swung
<1>7. IsRotated(v, t, d, o, n, c, inner, p)
  BY <1>1, <1>5, <1>8, Rotated
<1> HIDE DEF v
<1> QED
  BY <1>1, <1>2, <1>6, <1>7, <1>8

\* A rotation keeps the order and both ends of every link, and loses no node.
LEMMA RotateShaped ==
  ASSUME NEW t, NEW S, Shaped(t, S), NEW n \in Sub(S, t.root), NEW d \in Sides,
         t.link[Opposite(d)][n] # Null
  PROVE  /\ Shaped(Rotate(t, d, n), Turned(t, S, d, n))
         /\ Sub(Turned(t, S, d, n), Rotate(t, d, n).root) = Sub(S, t.root)
<1> DEFINE M == Sub(S, t.root)
<1>1. PICK o, c, inner, p, u, S2, b, g :
        /\ o = Opposite(d) /\ c = t.link[o][n] /\ inner = t.link[d][c] /\ p = t.parent[n]
        /\ u = Rotate(t, d, n) /\ S2 = Turned(t, S, d, n) /\ b = t.link[d][n] /\ g = t.link[o][c]
  OBVIOUS
<1>2. /\ n \in Nodes /\ c \in Nodes /\ c \in M /\ c # n
      /\ inner # c /\ inner # n /\ p # n /\ p # c /\ o \in Sides /\ o # d
      /\ u \in Trees /\ u.root = IF p = Null THEN c ELSE t.root
      /\ \A f \in Sides, x \in Nodes :
           u.link[f][x] = IF x = n /\ f = o THEN inner
                          ELSE IF x = c /\ f = d THEN n
                          ELSE IF x = p /\ f = SideOf(t, p, n) THEN c
                          ELSE t.link[f][x]
      /\ \A x \in Nodes : u.parent[x] = IF x = n THEN c ELSE IF x = c THEN p
                                        ELSE IF x = inner THEN n ELSE t.parent[x]
  BY <1>1, RotateFields DEF IsRotated
<1>3. /\ S2 \in [Nodes -> SUBSET Nodes] /\ S2[c] = S[n]
      /\ S2[n] = {n} \cup Sub(S, b) \cup Sub(S, inner)
      /\ \A x \in Nodes : x # n /\ x # c => S2[x] = S[x]
  <2>1. S2 = [S EXCEPT ![c] = S[n], ![n] = {n} \cup Sub(S, b) \cup Sub(S, inner)]
    BY <1>1 DEF Turned
  <2>2. {n} \cup Sub(S, b) \cup Sub(S, inner) \in SUBSET Nodes
    BY <1>1, <1>2, SubType
  <2>3. S \in [Nodes -> SUBSET Nodes]
    BY DEF Shaped
  <2> QED
    BY <1>2, <2>1, <2>2, <2>3
<1>4. /\ \A x : x \in S[n] <=> x = n \/ x \in Sub(S, b) \/ x \in Sub(S, c)
      /\ \A m \in Sub(S, b) : Beyond(d, Key[m], Key[n])
      /\ \A m \in Sub(S, c) : Beyond(o, Key[m], Key[n])
      /\ b # Null => b \in M /\ t.parent[b] = n
      /\ t.parent[c] = n
  <2>1. NodeShaped(t, S, n)
    BY DEF Shaped
  <2> QED
    <3>1. o = Opposite(d) /\ c = t.link[o][n] /\ b = t.link[d][n] /\ c # n /\ c \in M
      BY <1>1, <1>2
    <3> QED
      BY <2>1, <3>1, SidesOf
<1>5. /\ \A x : x \in S[c] <=> x = c \/ x \in Sub(S, inner) \/ x \in Sub(S, g)
      /\ \A m \in Sub(S, inner) : Beyond(d, Key[m], Key[c])
      /\ \A m \in Sub(S, g) : Beyond(o, Key[m], Key[c])
      /\ inner # Null => inner \in M /\ t.parent[inner] = c
      /\ g # Null => g \in M /\ t.parent[g] = c
  <2>1. NodeShaped(t, S, c)
    BY <1>2 DEF Shaped
  <2> QED
    <3>1. o = Opposite(d) /\ inner = t.link[d][c] /\ g = t.link[o][c]
      BY <1>1
    <3> QED
      BY <2>1, <3>1, SidesOf
<1>6. /\ b # Null => b # n /\ b # c /\ b # inner
      /\ g # Null => g # n /\ g # c /\ g # inner
  <2>1. b # Null => b # n /\ b # c
    <3>1. /\ b # Null => b # n
          /\ t.link[d][n] # Null => t.link[Opposite(d)][n] # t.link[d][n]
      BY <1>1, ChildFacts, NodeSides
    <3> QED
      BY <1>1, <3>1
  <2>2. b # Null => b # inner
    BY <1>2, <1>4, <1>5
  <2>3. g # Null => g # c /\ g # n
    <3>1. c \in Sub(S, t.root) /\ n \in S[n] /\ n \notin S[c] /\ o \in Sides /\ g = t.link[o][c]
      <4>1. c \in Sub(S, t.root) /\ n \in S[n] /\ n \notin S[c]
        BY <1>1, <1>2, ChildFacts
      <4>2. o \in Sides
        BY <1>2
      <4> QED
        BY <1>1, <4>1, <4>2, Zenon
    <3> QED
      BY <3>1, ChildFacts
  <2>4. g # Null => g # inner
    <3>1. c \in Sub(S, t.root) /\ inner = t.link[d][c] /\ g = t.link[Opposite(d)][c]
      BY <1>1, <1>2
    <3>2. t.link[d][c] # Null => t.link[Opposite(d)][c] # t.link[d][c]
      BY <3>1, NodeSides
    <3> QED
      BY <3>1, <3>2
  <2> QED
    BY <2>1, <2>2, <2>3, <2>4
<1>7. Sub(S, c) = S[c] /\ Sub(S2, c) = S[n] /\ Sub(S2, n) = S2[n]
  BY <1>2, <1>3, LinksAre DEF Sub
<1>8. /\ Sub(S2, b) = Sub(S, b) /\ Sub(S2, g) = Sub(S, g) /\ Sub(S2, inner) = Sub(S, inner)
      /\ b \in Links /\ g \in Links /\ inner \in Links /\ p \in Links
  <2>1. b \in Links /\ g \in Links /\ inner \in Links /\ p \in Links
    BY <1>1, <1>2, SubType DEF Links
  <2> QED
    BY <1>2, <1>3, <1>6, <2>1, LinksAre DEF Sub
<1>9. p = Null <=> n = t.root
  BY <1>1, ParentFacts
<1>10. n # t.root => /\ p \in M /\ p \in Nodes /\ p # n /\ SideOf(t, p, n) \in Sides
                     /\ t.link[SideOf(t, p, n)][p] = n
                     /\ t.link[Opposite(SideOf(t, p, n))][p] # n
  BY <1>1, ParentFacts, SideOfChild
<1>11. M \subseteq Nodes /\ t.root \in Links /\ t.root # Null
  BY SubType, LinksAre DEF Links, Sub
<1>12. Sub(S2, u.root) = M
  <2>1. CASE n = t.root
    BY <1>2, <1>7, <1>9, <2>1 DEF Sub
  <2>2. CASE n # t.root
    <3>1. t.root # c /\ t.root \in Nodes
      <4>1. t.parent[t.root] = Null
        BY <1>11 DEF Shaped
      <4> QED
        BY <1>2, <1>4, <1>11, <4>1, LinksAre
    <3> QED
      BY <1>2, <1>3, <1>9, <2>2, <3>1 DEF Sub
  <2> QED
    BY <2>1, <2>2
<1>13. NodeShaped(u, S2, n)
  <2>1. u.link[d][n] = b /\ u.link[o][n] = inner
    BY <1>1, <1>2
  <2>2. \A m \in Sub(S, inner) : Beyond(o, Key[m], Key[n])
    BY <1>4, <1>5, <1>7
  <2>3. b # Null => b \in M /\ u.parent[b] = n
    BY <1>2, <1>4, <1>6, <1>11
  <2>4. inner # Null => inner \in M /\ u.parent[inner] = n
    BY <1>2, <1>5, <1>11
  <2>5. \A x : x \in S2[n] <=> x = n \/ x \in Sub(S2, b) \/ x \in Sub(S2, inner)
    BY <1>3, <1>8
  <2>6. b = u.link[d][n] /\ inner = u.link[Opposite(d)][n]
    BY <1>1, <2>1
  <2>7. /\ \A m \in Sub(S2, b) : Beyond(d, Key[m], Key[n])
        /\ \A m \in Sub(S2, inner) : Beyond(Opposite(d), Key[m], Key[n])
    BY <1>1, <1>4, <1>8, <2>2
  <2>8. \A k \in {b, inner} : k # Null => k \in Sub(S2, u.root) /\ u.parent[k] = n
    BY <1>12, <2>3, <2>4
  <2> QED
    BY <2>5, <2>6, <2>7, <2>8, TwoSides
<1>14. NodeShaped(u, S2, c)
  <2>1. u.link[d][c] = n /\ u.link[o][c] = g
    BY <1>1, <1>2
  <2>2. ASSUME NEW m \in S2[n] PROVE Beyond(d, Key[m], Key[c])
    <3>1. m \in Nodes /\ Key[m] \in Int /\ Key[n] \in Int /\ Key[c] \in Int
      BY <1>2, <1>3, SubType
    <3>2. Beyond(d, Key[n], Key[c])
      <4>1. Beyond(o, Key[c], Key[n])
        BY <1>4, <1>5, <1>7
      <4> QED
        BY <1>1, <3>1, <4>1, BeyondFacts
    <3>3. CASE m \in Sub(S, b)
      BY <1>4, <3>1, <3>2, <3>3, BeyondFacts
    <3>4. CASE m \in Sub(S, inner)
      BY <1>5, <3>4
    <3> QED
      BY <1>3, <3>2, <3>3, <3>4
  <2>3. g # Null => g \in M /\ u.parent[g] = c
    BY <1>2, <1>5, <1>6, <1>11
  <2>4. n \in M /\ u.parent[n] = c
    BY <1>2
  <2>5. \A x : x \in S2[c] <=> x = c \/ x \in Sub(S2, n) \/ x \in Sub(S2, g)
    BY <1>3, <1>4, <1>5, <1>7, <1>8
  <2>6. \A m \in Sub(S2, n) : Beyond(d, Key[m], Key[c])
    BY <1>7, <2>2
  <2>7. n = u.link[d][c] /\ g = u.link[Opposite(d)][c]
    BY <1>1, <2>1
  <2>8. \A m \in Sub(S2, g) : Beyond(Opposite(d), Key[m], Key[c])
    BY <1>1, <1>5, <1>8
  <2>9. \A k \in {n, g} : k # Null => k \in Sub(S2, u.root) /\ u.parent[k] = c
    BY <1>12, <2>3, <2>4
  <2> QED
    BY <2>5, <2>6, <2>7, <2>8, <2>9, TwoSides
<1>15. ASSUME n # t.root PROVE NodeShaped(u, S2, p)
  <2>1. PICK f \in Sides : f = SideOf(t, p, n)
    BY <1>10, <1>15
  <2>2. PICK q : q = t.link[Opposite(f)][p]
    OBVIOUS
  <2>3. Opposite(f) \in Sides /\ Opposite(f) # f
    BY OppositeFacts
  <2>4. u.link[f][p] = c /\ u.link[Opposite(f)][p] = q
    BY <1>2, <1>10, <1>15, <2>1, <2>2, <2>3
  <2>5. NodeShaped(t, S, p) /\ p # c /\ p # n
    BY <1>2, <1>10, <1>15 DEF Shaped
  <2>6. /\ \A x : x \in S[p] <=> x = p \/ x \in Sub(S, n) \/ x \in Sub(S, q)
        /\ \A m \in Sub(S, n) : Beyond(f, Key[m], Key[p])
        /\ \A m \in Sub(S, q) : Beyond(Opposite(f), Key[m], Key[p])
        /\ q # Null => q \in M /\ t.parent[q] = p
    BY <1>10, <1>15, <2>1, <2>2, <2>5, SidesOf
  <2>7. q # Null => q # n /\ q # c /\ q # inner
    BY <1>2, <1>4, <1>5, <1>10, <1>15, <2>1, <2>2, <2>6
  <2>8. q \in Links
    BY <2>6, <1>11, LinksAre
  <2>9. Sub(S2, q) = Sub(S, q) /\ S2[p] = S[p] /\ Sub(S, n) = S[n]
    BY <1>2, <1>3, <1>10, <1>15, <2>7, <2>8, LinksAre DEF Sub
  <2>10. u.parent[c] = p /\ (q # Null => u.parent[q] = p)
    BY <1>2, <1>11, <2>6, <2>7
  <2>11. \A x : x \in S2[p] <=> x = p \/ x \in Sub(S2, c) \/ x \in Sub(S2, q)
    BY <1>7, <2>6, <2>9
  <2>12. /\ \A m \in Sub(S2, c) : Beyond(f, Key[m], Key[p])
         /\ \A m \in Sub(S2, q) : Beyond(Opposite(f), Key[m], Key[p])
    BY <1>7, <2>6, <2>9
  <2>13. \A k \in {c, q} : k # Null => k \in Sub(S2, u.root) /\ u.parent[k] = p
    BY <1>2, <1>12, <2>6, <2>10
  <2>14. c = u.link[f][p] /\ q = u.link[Opposite(f)][p]
    BY <2>4
  <2> QED
    BY <2>11, <2>12, <2>13, <2>14, TwoSides
<1>16. ASSUME NEW x \in M, x # n, x # c, x # p PROVE NodeShaped(u, S2, x)
  <2>1. x \in Nodes /\ NodeShaped(t, S, x) /\ S2[x] = S[x]
    BY <1>3, <1>11, <1>16 DEF Shaped
  <2>2. \A f \in Sides : u.link[f][x] = t.link[f][x]
    BY <1>2, <1>16, <2>1
  <2>3. ASSUME NEW f \in Sides, t.link[f][x] # Null
        PROVE  S2[t.link[f][x]] = S[t.link[f][x]] /\ u.parent[t.link[f][x]] = t.parent[t.link[f][x]]
    <3>1. t.link[f][x] \in M /\ t.parent[t.link[f][x]] = x
      BY <1>16, <2>3, ChildFacts
    <3>2. t.link[f][x] # n /\ t.link[f][x] # c /\ t.link[f][x] # inner
      BY <1>1, <1>4, <1>5, <1>16, <2>3, <3>1
    <3> QED
      BY <1>2, <1>3, <1>11, <3>1, <3>2
  <2> QED
    BY <1>12, <2>1, <2>2, <2>3, SameNode
<1>17. \A x \in Nodes : x \in S2[x]
  BY <1>2, <1>3, <1>4, <1>5, <1>7, SubType
<1>18. u.root # Null /\ u.parent[u.root] = Null
  <2>1. CASE n = t.root
    BY <1>2, <1>9, <2>1, LinksAre
  <2>2. CASE n # t.root
    <3>1. u.root = t.root /\ t.parent[t.root] = Null /\ t.root \in Nodes
      BY <1>2, <1>9, <1>11, <2>2, LinksAre DEF Shaped
    <3>2. t.root # c /\ t.root # inner
      <4>1. t.parent[c] = n /\ (inner # Null => t.parent[inner] = c)
        BY <1>4, <1>5
      <4> QED
        BY <1>2, <1>11, <3>1, <4>1, LinksAre
    <3>3. u.parent[t.root] = t.parent[t.root]
      BY <1>2, <2>2, <3>1, <3>2
    <3> QED
      BY <1>11, <3>1, <3>3
  <2> QED
    BY <2>1, <2>2
<1>19. \A x \in M : NodeShaped(u, S2, x)
  <2>1. p \in M => n # t.root
    BY <1>9, <1>11, LinksAre
  <2> QED
    BY <1>13, <1>14, <1>15, <1>16, <2>1
<1>20. Shaped(u, S2)
  BY <1>2, <1>3, <1>12, <1>17, <1>18, <1>19 DEF Shaped
<1> QED
  BY <1>1, <1>12, <1>20

-----------------------------------------------------------------------------
(* The two rules of colours, node by node. *)

\* A child is a node of the tree, and knows its parent.
LEMMA ChildOf ==
  ASSUME NEW t, NEW S, Shaped(t, S), NEW M, M = Sub(S, t.root), NEW n \in M, NEW d \in Sides,
         NEW c, c = t.link[d][n], c # Null
  PROVE  c \in M /\ c \in Nodes /\ c # n /\ t.parent[c] = n /\ n \in Nodes
  BY ChildFacts

\* The links of every node after n went down on side d and c up
LinksTurned(u, t, M, d, o, n, c) ==
  /\ u.color = t.color
  /\ u.link[d][n] = t.link[d][n] /\ u.link[o][n] = t.link[d][c]
  /\ u.link[d][c] = n /\ u.link[o][c] = t.link[o][c]
  /\ t.link[d][c] # n /\ t.link[d][c] # c
  /\ u.root = IF n = t.root THEN c ELSE t.root
  /\ u.parent[n] = c /\ u.parent[c] = t.parent[n]
  /\ \A x \in M, f \in Sides : x # n /\ x # c =>
       /\ t.link[f][x] # c
       /\ u.link[f][x] = IF t.link[f][x] = n THEN c ELSE t.link[f][x]

\* A rotation, told by what hangs on which link.
LEMMA RotateLinks ==
  ASSUME NEW t, NEW S, Shaped(t, S), NEW n \in Sub(S, t.root), NEW d \in Sides,
         NEW o, o = Opposite(d), NEW c, c = t.link[o][n], c # Null,
         NEW u, u = Rotate(t, d, n)
  PROVE  LinksTurned(u, t, Sub(S, t.root), d, o, n, c)
<1> DEFINE M == Sub(S, t.root)
<1>1. PICK inner, p : inner = t.link[d][c] /\ p = t.parent[n]
  OBVIOUS
<1>2. /\ n \in Nodes /\ c \in Nodes /\ c \in M /\ c # n
      /\ inner # c /\ inner # n /\ p # n /\ p # c /\ o \in Sides /\ o # d
      /\ IsRotated(u, t, d, o, n, c, inner, p)
  BY <1>1, RotateFields
<1>3. /\ u.root = IF p = Null THEN c ELSE t.root
      /\ \A f \in Sides, x \in Nodes :
           u.link[f][x] = IF x = n /\ f = o THEN inner
                          ELSE IF x = c /\ f = d THEN n
                          ELSE IF x = p /\ f = SideOf(t, p, n) THEN c
                          ELSE t.link[f][x]
      /\ \A x \in Nodes : u.parent[x] = IF x = n THEN c ELSE IF x = c THEN p
                                        ELSE IF x = inner THEN n ELSE t.parent[x]
      /\ u.color = t.color
  BY <1>2 DEF IsRotated
<1>4. p = Null <=> n = t.root
  BY <1>1, ParentFacts
<1>5. M \subseteq Nodes
  BY SubType
<1>6. ASSUME NEW x \in M, NEW f \in Sides, x # n, x # c
      PROVE  /\ t.link[f][x] # c
             /\ u.link[f][x] = IF t.link[f][x] = n THEN c ELSE t.link[f][x]
  <2>1. t.link[f][x] # c
    <3>1. t.parent[c] = n
      BY <1>2, ChildFacts
    <3> QED
      BY <1>2, <1>6, <3>1, ParentFacts
  <2>2. CASE t.link[f][x] = n
    <3>1. x = p
      BY <1>1, <2>2, ParentFacts
    <3>2. n # t.root
      BY <1>4, <1>5, <3>1, LinksAre
    <3>3. f = SideOf(t, p, n)
      BY <1>1, <2>2, <3>1, <3>2, SideOfChild
    <3> QED
      BY <1>3, <1>5, <1>6, <2>1, <2>2, <3>1, <3>3
  <2>3. CASE t.link[f][x] # n
    <3>1. ~(x = p /\ f = SideOf(t, p, n))
      <4>1. SUFFICES ASSUME x = p, f = SideOf(t, p, n) PROVE FALSE
        OBVIOUS
      <4>2. n # t.root
        BY <1>4, <1>5, <4>1, LinksAre
      <4> QED
        BY <1>1, <2>3, <4>1, <4>2, SideOfChild
    <3> QED
      BY <1>3, <1>5, <1>6, <2>1, <2>3, <3>1
  <2> QED
    BY <2>1, <2>2, <2>3
<1>7. u.root = IF n = t.root THEN c ELSE t.root
  BY <1>3, <1>4
<1>8. u.parent[n] = c /\ u.parent[c] = t.parent[n]
  BY <1>1, <1>2, <1>3
<1>9. /\ u.link[d][n] = t.link[d][n] /\ u.link[o][n] = t.link[d][c]
      /\ u.link[d][c] = n /\ u.link[o][c] = t.link[o][c]
  BY <1>1, <1>2, <1>3
<1>10. t.link[d][c] # n /\ t.link[d][c] # c
  BY <1>1, <1>2
<1> QED
  BY <1>3, <1>6, <1>7, <1>8, <1>9, <1>10 DEF LinksTurned

\* The black nodes on every way from n to an empty link: H gives them.  The way over
\* link f of q lacks one.
Blacks(t, n) == IF t.color[n] = "black" THEN 1 ELSE 0
High(H, n) == IF n = Null THEN 0 ELSE H[n]

Short(q, f, n, d) == IF n = q /\ d = f THEN 1 ELSE 0

LevelAt(t, H, q, f, n) ==
  \A d \in Sides : H[n] = High(H, t.link[d][n]) + Short(q, f, n, d) + Blacks(t, n)

\* A red node has a red parent only if it is x or its parent is y.
CalmAt(t, x, y, n) ==
  \A d \in Sides : IsRed(t, n) /\ IsRed(t, t.link[d][n]) => t.link[d][n] = x \/ n = y
Levelled(t, M, H, q, f) == \A n \in M : LevelAt(t, H, q, f, n)

Calm(t, M, x, y) == \A n \in M : CalmAt(t, x, y, n)

\* The numbers the rule of black nodes is stated with.
LEMMA ColorTypes ==
  ASSUME NEW t \in Trees, NEW H \in [Nodes -> Nat]
  PROVE  /\ \A n : Blacks(t, n) \in {0, 1}
         /\ \A n \in Nodes : t.color[n] \in {"red", "black"}
         /\ \A n \in Nodes : IsRed(t, n) <=> t.color[n] = "red"
         /\ \A n \in Nodes : Blacks(t, n) = IF IsRed(t, n) THEN 0 ELSE 1
         /\ ~IsRed(t, Null)
         /\ \A n \in Links : High(H, n) \in Nat
         /\ High(H, Null) = 0
         /\ \A n \in Nodes : High(H, n) = H[n]
         /\ \A q, f, n, d : Short(q, f, n, d) \in {0, 1}
         /\ \A f, d : \A n \in Nodes : Short(Null, f, n, d) = 0
<1>1. \A n \in Nodes : t.color[n] \in {"red", "black"}
  BY DEF Trees, Colors
<1>2. \A n \in Nodes : n # Null
  BY NodeAssumption
<1>3. \A n \in Nodes : H[n] \in Nat
  OBVIOUS
<1> QED
  BY <1>1, <1>2, <1>3, LinksAre DEF Blacks, IsRed, High, Short

\* LevelAt, told side by side.
LEMMA TwoLevels ==
  ASSUME NEW t, NEW H, NEW q, NEW f, NEW n, NEW d \in Sides,
         H[n] = High(H, t.link[d][n]) + Short(q, f, n, d) + Blacks(t, n),
         H[n] = High(H, t.link[Opposite(d)][n]) + Short(q, f, n, Opposite(d)) + Blacks(t, n)
  PROVE  LevelAt(t, H, q, f, n)
<1>1. \A g \in Sides : g = d \/ g = Opposite(d)
  BY OppositeFacts
<1> QED
  BY <1>1 DEF LevelAt

\* n can go down on side d, and c goes up.
CanTurn(t, S, M, d, o, n, c) ==
  /\ Shaped(t, S) /\ M = Sub(S, t.root) /\ n \in M
  /\ d \in Sides /\ o = Opposite(d) /\ c = t.link[o][n] /\ c # Null

\* The levels are right at the two nodes that turn, and were right everywhere else.
LevelsTurn(t, M, H, q, f, H2, q2, f2, d, o, n, c) ==
  /\ H \in [Nodes -> Nat] /\ H2 \in [Nodes -> Nat]
  /\ \A x \in M : x # n /\ x # c => H2[x] = H[x]
  /\ \A x \in M : x # n /\ x # c => LevelAt(t, H, q, f, x)
  /\ (q2 = q /\ f2 = f) \/ (q = n /\ q2 = Null)
  /\ n # t.root => H2[c] = H[n]
  /\ H2[n] = High(H, t.link[d][n]) + Short(q2, f2, n, d) + Blacks(t, n)
  /\ H2[n] = High(H, t.link[d][c]) + Short(q2, f2, n, o) + Blacks(t, n)
  /\ H2[c] = H2[n] + Short(q2, f2, c, d) + Blacks(t, c)
  /\ H2[c] = High(H, t.link[o][c]) + Short(q2, f2, c, o) + Blacks(t, c)

\* A rotation keeps the levels if they are right at the two nodes that turn.
LEMMA RotateLevels ==
  ASSUME NEW t, NEW S, NEW M, NEW d, NEW o, NEW n, NEW c, CanTurn(t, S, M, d, o, n, c),
         NEW H, NEW q, NEW f, NEW H2, NEW q2, NEW f2,
         LevelsTurn(t, M, H, q, f, H2, q2, f2, d, o, n, c)
  PROVE  Levelled(Rotate(t, d, n), M, H2, q2, f2)
<1>a. SUFFICES
      ASSUME Shaped(t, S), M = Sub(S, t.root), n \in Sub(S, t.root),
             d \in Sides, o = Opposite(d), c = t.link[o][n], c # Null,
             H \in [Nodes -> Nat], H2 \in [Nodes -> Nat],
             \A x \in M : x # n /\ x # c => H2[x] = H[x],
             \A x \in M : x # n /\ x # c => LevelAt(t, H, q, f, x),
             (q2 = q /\ f2 = f) \/ (q = n /\ q2 = Null),
             n # t.root => H2[c] = H[n],
             H2[n] = High(H, t.link[d][n]) + Short(q2, f2, n, d) + Blacks(t, n),
             H2[n] = High(H, t.link[d][c]) + Short(q2, f2, n, o) + Blacks(t, n),
             H2[c] = H2[n] + Short(q2, f2, c, d) + Blacks(t, c),
             H2[c] = High(H, t.link[o][c]) + Short(q2, f2, c, o) + Blacks(t, c)
      PROVE  Levelled(Rotate(t, d, n), M, H2, q2, f2)
  BY DEF CanTurn, LevelsTurn
<1>b. /\ Shaped(t, S) /\ M = Sub(S, t.root) /\ n \in M /\ d \in Sides
      /\ o = Opposite(d) /\ c = t.link[o][n] /\ c # Null
  BY <1>a
<1>c. /\ \A x \in M : x # n /\ x # c => H2[x] = H[x] /\ LevelAt(t, H, q, f, x)
      /\ (q2 = q /\ f2 = f) \/ (q = n /\ q2 = Null)
      /\ n # t.root => H2[c] = H[n]
  BY <1>a
<1>d. /\ H2[n] = High(H, t.link[d][n]) + Short(q2, f2, n, d) + Blacks(t, n)
      /\ H2[n] = High(H, t.link[d][c]) + Short(q2, f2, n, o) + Blacks(t, n)
      /\ H2[c] = H2[n] + Short(q2, f2, c, d) + Blacks(t, c)
      /\ H2[c] = High(H, t.link[o][c]) + Short(q2, f2, c, o) + Blacks(t, c)
  BY <1>a
<1>1. PICK u : u = Rotate(t, d, n)
  OBVIOUS
<1>2. /\ u.color = t.color
      /\ u.link[d][n] = t.link[d][n] /\ u.link[o][n] = t.link[d][c]
      /\ u.link[d][c] = n /\ u.link[o][c] = t.link[o][c]
      /\ \A x \in M, g \in Sides : x # n /\ x # c =>
           /\ t.link[g][x] # c
           /\ u.link[g][x] = IF t.link[g][x] = n THEN c ELSE t.link[g][x]
      /\ t.link[d][c] # n /\ t.link[d][c] # c
  <2>1. LinksTurned(u, t, M, d, o, n, c)
    BY <1>b, <1>1, RotateLinks
  <2> QED
    BY <2>1 DEF LinksTurned
<1>3. c \in M /\ c \in Nodes /\ n \in Nodes /\ c # n /\ o \in Sides
  <2>1. o \in Sides
    BY <1>b, OppositeFacts
  <2> QED
    BY <1>b, <2>1, ChildFacts
<1>4. \A g \in Sides, x \in M : t.link[g][x] # Null => t.link[g][x] \in M /\ t.link[g][x] # x
                                                       /\ t.parent[t.link[g][x]] = x
  BY <1>b, ChildFacts
<1>5. \A x : Blacks(u, x) = Blacks(t, x)
  BY <1>2 DEF Blacks
<1>6. High(H2, n) = H2[n] /\ High(H2, c) = H2[c]
  BY <1>3, LinksAre DEF High
<1>7. \A x : x = Null \/ (x \in M /\ x # n /\ x # c) => High(H2, x) = High(H, x)
  BY <1>c DEF High
<1>8. LevelAt(u, H2, q2, f2, n)
  <2>1. t.link[d][n] = Null \/ (t.link[d][n] \in M /\ t.link[d][n] # n /\ t.link[d][n] # c)
    <3>1. t.link[d][n] # Null => t.link[d][n] # c
      <4>1. n \in Sub(S, t.root) /\ Shaped(t, S) /\ d \in Sides
        BY <1>b
      <4>2. t.link[d][n] # Null => t.link[Opposite(d)][n] # t.link[d][n]
        BY <4>1, NodeSides
      <4> QED
        BY <1>b, <4>2
    <3> QED
      BY <1>b, <1>4, <3>1
  <2>2. t.link[d][c] = Null \/ (t.link[d][c] \in M /\ t.link[d][c] # n /\ t.link[d][c] # c)
    <3>1. t.link[d][c] # Null => t.link[d][c] \in M
      <4>1. \A x \in M : t.link[d][x] # Null => t.link[d][x] \in M
        BY <1>b, <1>4
      <4> QED
        BY <1>3, <4>1
    <3> QED
      BY <1>2, <3>1
  <2>3. High(H2, u.link[d][n]) = High(H, t.link[d][n])
    <3>1. u.link[d][n] = t.link[d][n]
      BY <1>2
    <3> QED
      BY <1>7, <2>1, <3>1
  <2>4. High(H2, u.link[o][n]) = High(H, t.link[d][c])
    <3>1. u.link[o][n] = t.link[d][c]
      BY <1>2
    <3> QED
      BY <1>7, <2>2, <3>1
  <2>5. H2[n] = High(H2, u.link[d][n]) + Short(q2, f2, n, d) + Blacks(u, n)
    BY <1>5, <1>d, <2>3
  <2>6. H2[n] = High(H2, u.link[Opposite(d)][n]) + Short(q2, f2, n, Opposite(d)) + Blacks(u, n)
    BY <1>5, <1>b, <1>d, <2>4
  <2> QED
    BY <1>b, <2>5, <2>6, TwoLevels
<1>9. LevelAt(u, H2, q2, f2, c)
  <2>1. t.link[o][c] = Null \/ (t.link[o][c] \in M /\ t.link[o][c] # n /\ t.link[o][c] # c)
    <3>1. ASSUME t.link[o][c] = n PROVE FALSE
      <4>1. c \in S[n] /\ n \notin S[c] /\ n \in S[n]
        <5>1. /\ Shaped(t, S) /\ n \in Sub(S, t.root) /\ o \in Sides
              /\ c = t.link[o][n] /\ c # Null
          BY <1>b, <1>3
        <5> QED
          BY <5>1, ChildFacts
      <4>2. n \in S[c]
        <5>1. Shaped(t, S) /\ c \in Sub(S, t.root) /\ o \in Sides /\ t.link[o][c] # Null
          BY <1>b, <1>3, <3>1, LinksAre
        <5> QED
          BY <3>1, <5>1, ChildFacts
      <4> QED
        BY <4>1, <4>2
    <3> QED
      BY <1>3, <1>4, <3>1
  <2>2. High(H2, u.link[o][c]) = High(H, t.link[o][c])
    BY <1>2, <1>7, <2>1
  <2>3. H2[c] = High(H2, u.link[d][c]) + Short(q2, f2, c, d) + Blacks(u, c)
    <3>1. High(H2, u.link[d][c]) = H2[n]
      BY <1>2, <1>6
    <3> QED
      BY <1>5, <1>d, <3>1
  <2>4. H2[c] = High(H2, u.link[Opposite(d)][c]) + Short(q2, f2, c, Opposite(d)) + Blacks(u, c)
    BY <1>5, <1>b, <1>d, <2>2
  <2> QED
    BY <1>b, <2>3, <2>4, TwoLevels
<1>10. ASSUME NEW x \in M, x # n, x # c PROVE LevelAt(u, H2, q2, f2, x)
  <2>1. LevelAt(t, H, q, f, x) /\ H2[x] = H[x]
    BY <1>c, <1>10
  <2>2. ASSUME NEW g \in Sides
        PROVE  H2[x] = High(H2, u.link[g][x]) + Short(q2, f2, x, g) + Blacks(u, x)
    <3>1. High(H2, u.link[g][x]) = High(H, t.link[g][x])
      <4>1. CASE t.link[g][x] = n
        <5>1. n # t.root
          <6>1. x = t.parent[n] /\ x \in Nodes
            <7>1. Shaped(t, S) /\ n \in Sub(S, t.root) /\ x \in Sub(S, t.root) /\ g \in Sides
              BY <1>b
            <7> QED
              BY <4>1, <7>1, ParentFacts, SubType
          <6> QED
            BY <1>b, <6>1, LinksAre, ParentFacts
        <5>2. u.link[g][x] = c /\ H2[c] = H[n] /\ High(H, n) = H[n]
          <6>1. u.link[g][x] = c
            BY <1>2, <1>10, <4>1
          <6>2. H2[c] = H[n]
            BY <1>c, <5>1
          <6>3. High(H, n) = H[n]
            BY <1>3, LinksAre DEF High
          <6> QED
            BY <6>1, <6>2, <6>3
        <5> QED
          BY <1>6, <4>1, <5>2
      <4>2. CASE t.link[g][x] # n
        <5>1. t.link[g][x] # c /\ u.link[g][x] = t.link[g][x]
          BY <1>2, <1>10, <4>2
        <5>2. t.link[g][x] = Null \/ t.link[g][x] \in M
          BY <1>4
        <5> QED
          BY <1>7, <4>2, <5>1, <5>2
      <4> QED
        BY <4>1, <4>2
    <3>2. Short(q2, f2, x, g) = Short(q, f, x, g)
      <4>1. x # Null
        BY <1>b, SubType, LinksAre
      <4> QED
        BY <1>10, <1>c, <4>1 DEF Short
    <3>3. H[x] = High(H, t.link[g][x]) + Short(q, f, x, g) + Blacks(t, x)
      BY <2>1 DEF LevelAt
    <3> QED
      BY <1>5, <2>1, <3>1, <3>2, <3>3
  <2> QED
    BY <2>2 DEF LevelAt
<1> QED
  BY <1>1, <1>8, <1>9, <1>10 DEF Levelled

\* CalmAt, told side by side.
LEMMA TwoCalms ==
  ASSUME NEW t, NEW x, NEW y, NEW n, NEW d \in Sides,
         IsRed(t, n) /\ IsRed(t, t.link[d][n]) => t.link[d][n] = x \/ n = y,
         IsRed(t, n) /\ IsRed(t, t.link[Opposite(d)][n]) => t.link[Opposite(d)][n] = x \/ n = y
  PROVE  CalmAt(t, x, y, n)
<1>1. \A g \in Sides : g = d \/ g = Opposite(d)
  BY OppositeFacts
<1> QED
  BY <1>1 DEF CalmAt

\* Likewise for two reds in a row
CalmTurns(t, M, x, y, d, o, n, c) ==
  /\ \A m \in M, f \in Sides :
       m # n /\ m # c /\ t.link[f][m] # n /\ IsRed(t, m) /\ IsRed(t, t.link[f][m]) =>
         t.link[f][m] = x \/ m = y
  /\ IsRed(t, n) /\ IsRed(t, t.link[d][n]) => t.link[d][n] = x \/ n = y
  /\ IsRed(t, n) /\ IsRed(t, t.link[d][c]) => t.link[d][c] = x \/ n = y
  /\ IsRed(t, c) /\ IsRed(t, n) => n = x \/ c = y
  /\ IsRed(t, c) /\ IsRed(t, t.link[o][c]) => t.link[o][c] = x \/ c = y
  /\ n # t.root /\ IsRed(t, t.parent[n]) /\ IsRed(t, c) => c = x \/ t.parent[n] = y

\* Nor does it put two reds in a row, but where the code allows for them.
LEMMA RotateCalm ==
  ASSUME NEW t, NEW S, NEW M, NEW d, NEW o, NEW n, NEW c, CanTurn(t, S, M, d, o, n, c),
         NEW x, NEW y, CalmTurns(t, M, x, y, d, o, n, c)
  PROVE  Calm(Rotate(t, d, n), M, x, y)
<1> SUFFICES
      ASSUME Shaped(t, S), M = Sub(S, t.root), n \in Sub(S, t.root),
             d \in Sides, o = Opposite(d), c = t.link[o][n], c # Null,
             \A m \in M, f \in Sides :
               m # n /\ m # c /\ t.link[f][m] # n /\ IsRed(t, m) /\ IsRed(t, t.link[f][m]) =>
                 t.link[f][m] = x \/ m = y,
             IsRed(t, n) /\ IsRed(t, t.link[d][n]) => t.link[d][n] = x \/ n = y,
             IsRed(t, n) /\ IsRed(t, t.link[d][c]) => t.link[d][c] = x \/ n = y,
             IsRed(t, c) /\ IsRed(t, n) => n = x \/ c = y,
             IsRed(t, c) /\ IsRed(t, t.link[o][c]) => t.link[o][c] = x \/ c = y,
             n # t.root /\ IsRed(t, t.parent[n]) /\ IsRed(t, c) => c = x \/ t.parent[n] = y
      PROVE  Calm(Rotate(t, d, n), M, x, y)
  BY DEF CanTurn, CalmTurns
<1>1. PICK u : u = Rotate(t, d, n) /\ M = Sub(S, t.root)
  OBVIOUS
<1>2. /\ u.color = t.color
      /\ u.link[d][n] = t.link[d][n] /\ u.link[o][n] = t.link[d][c]
      /\ u.link[d][c] = n /\ u.link[o][c] = t.link[o][c]
      /\ \A m \in M, g \in Sides : m # n /\ m # c =>
           /\ t.link[g][m] # c
           /\ u.link[g][m] = IF t.link[g][m] = n THEN c ELSE t.link[g][m]
  <2>1. LinksTurned(u, t, M, d, o, n, c)
    BY <1>1, RotateLinks
  <2> QED
    BY <2>1 DEF LinksTurned
<1>3. \A m : IsRed(u, m) <=> IsRed(t, m)
  BY <1>2 DEF IsRed
<1>4. CalmAt(u, x, y, n)
  <2>1. IsRed(u, n) /\ IsRed(u, u.link[d][n]) => u.link[d][n] = x \/ n = y
    BY <1>2, <1>3
  <2>2. IsRed(u, n) /\ IsRed(u, u.link[Opposite(d)][n]) => u.link[Opposite(d)][n] = x \/ n = y
    BY <1>2, <1>3
  <2> QED
    BY <2>1, <2>2, TwoCalms
<1>5. CalmAt(u, x, y, c)
  <2>1. IsRed(u, c) /\ IsRed(u, u.link[d][c]) => u.link[d][c] = x \/ c = y
    BY <1>2, <1>3
  <2>2. IsRed(u, c) /\ IsRed(u, u.link[Opposite(d)][c]) => u.link[Opposite(d)][c] = x \/ c = y
    BY <1>2, <1>3
  <2> QED
    BY <2>1, <2>2, TwoCalms
<1>6. ASSUME NEW m \in M, m # n, m # c PROVE CalmAt(u, x, y, m)
  <2>1. \A f \in Sides :
          t.link[f][m] # n /\ IsRed(t, m) /\ IsRed(t, t.link[f][m]) => t.link[f][m] = x \/ m = y
    BY <1>1, <1>6
  <2>2. ASSUME NEW g \in Sides, IsRed(u, m), IsRed(u, u.link[g][m])
        PROVE  u.link[g][m] = x \/ m = y
    <3>1. CASE t.link[g][m] = n
      <4>1. m = t.parent[n] /\ n # t.root
        <5>1. m = t.parent[n]
          BY <1>1, <3>1, ParentFacts
        <5>2. m # Null
          BY <1>1, SubType, LinksAre
        <5> QED
          BY <5>1, <5>2, ParentFacts
      <4> QED
        BY <1>2, <1>3, <1>6, <2>2, <3>1, <4>1
    <3>2. CASE t.link[g][m] # n
      BY <1>2, <1>3, <1>6, <2>1, <2>2, <3>2
    <3> QED
      BY <3>1, <3>2
  <2> QED
    BY <2>2 DEF CalmAt
<1> QED
  BY <1>1, <1>4, <1>5, <1>6 DEF Calm

\* A node is on one link of its parent only.
LEMMA OtherSide ==
  ASSUME NEW t, NEW S, Shaped(t, S), NEW M, M = Sub(S, t.root), NEW n \in M, NEW d \in Sides,
         NEW o, o = Opposite(d), NEW c, c = t.link[d][n], c # Null
  PROVE  t.link[o][n] # c
  BY NodeSides

\* A red node that is not excepted has black children.
LEMMA CalmChild ==
  ASSUME NEW t, NEW x, NEW y, NEW n, CalmAt(t, x, y, n), NEW d \in Sides,
         NEW c, c = t.link[d][n], IsRed(t, n), c # x, n # y
  PROVE  ~IsRed(t, c)
  BY DEF CalmAt

\* Where the nodes of a rotation are.
LEMMA TurnFacts ==
  ASSUME NEW t, NEW S, NEW M, NEW d, NEW o, NEW n, NEW c, CanTurn(t, S, M, d, o, n, c)
  PROVE  /\ Shaped(t, S) /\ t \in Trees /\ M = Sub(S, t.root) /\ M \subseteq Nodes
         /\ n \in M /\ n \in Nodes /\ d \in Sides /\ o \in Sides /\ o # d /\ o = Opposite(d)
         /\ c = t.link[o][n] /\ c \in M /\ c \in Nodes /\ c # n /\ t.parent[c] = n
         /\ t.root \in M
<1>1. /\ Shaped(t, S) /\ M = Sub(S, t.root) /\ n \in M
      /\ d \in Sides /\ o = Opposite(d) /\ c = t.link[o][n] /\ c # Null
  BY DEF CanTurn
<1>2. o \in Sides /\ o # d
  BY <1>1, OppositeFacts
<1>3. c \in M /\ c \in Nodes /\ c # n /\ t.parent[c] = n /\ n \in Nodes
  BY <1>1, <1>2, ChildOf
<1>4. M \subseteq Nodes
  BY <1>1, SubType
<1>5. t \in Trees
  BY <1>1 DEF Shaped
<1>6. t.root # Null
  BY <1>1 DEF Sub
<1>7. t.root \in M
  BY <1>1, <1>6, SubType
<1> QED
  BY <1>1, <1>2, <1>3, <1>4, <1>5, <1>7

\* The rotation of the tree, its shape and its links together.
LEMMA TurnDone ==
  ASSUME NEW t, NEW S, NEW M, NEW d, NEW o, NEW n, NEW c, CanTurn(t, S, M, d, o, n, c)
  PROVE  /\ Shaped(Rotate(t, d, n), Turned(t, S, d, n))
         /\ Sub(Turned(t, S, d, n), Rotate(t, d, n).root) = M
         /\ LinksTurned(Rotate(t, d, n), t, M, d, o, n, c)
<1>1. /\ Shaped(t, S) /\ M = Sub(S, t.root) /\ n \in M
      /\ d \in Sides /\ o = Opposite(d) /\ c = t.link[o][n] /\ c # Null
  BY DEF CanTurn
<1>2. PICK u : u = Rotate(t, d, n)
  OBVIOUS
<1>3. n \in Sub(S, t.root)
  BY <1>1
<1>4. LinksTurned(u, t, Sub(S, t.root), d, o, n, c)
  BY <1>1, <1>2, <1>3, RotateLinks
<1>5. t.link[Opposite(d)][n] # Null
  BY <1>1
<1>6. /\ Shaped(Rotate(t, d, n), Turned(t, S, d, n))
      /\ Sub(Turned(t, S, d, n), Rotate(t, d, n).root) = Sub(S, t.root)
  BY <1>1, <1>3, <1>5, RotateShaped
<1> QED
  BY <1>1, <1>2, <1>4, <1>6

-----------------------------------------------------------------------------
(* ks_rb_insert_color. *)

\* Colours do not matter to the shape.
LEMMA PaintShaped ==
  ASSUME NEW t, NEW S, Shaped(t, S), NEW n \in Nodes, NEW c \in Colors
  PROVE  Shaped(Paint(t, n, c), S)
<1>1. PICK u : u = Paint(t, n, c)
  OBVIOUS
<1>2. t \in Trees
  BY DEF Shaped
<1>3. u \in Trees /\ u.root = t.root /\ u.link = t.link /\ u.parent = t.parent
  BY <1>1, <1>2, PaintFields
<1>4. \A x : NodeShaped(t, S, x) => NodeShaped(u, S, x)
  BY <1>3 DEF NodeShaped
<1> QED
  BY <1>1, <1>3, <1>4 DEF Shaped

IsPainted(u, t, S, n, c) ==
  /\ Shaped(u, S) /\ u \in Trees /\ u.root = t.root /\ u.link = t.link /\ u.parent = t.parent
  /\ \A x \in Nodes : u.color[x] = IF x = n THEN c ELSE t.color[x]

\* What Paint does to a shaped tree.
LEMMA Painted ==
  ASSUME NEW t, NEW S, Shaped(t, S), NEW n \in Nodes, NEW c \in Colors
  PROVE  IsPainted(Paint(t, n, c), t, S, n, c)
<1>1. t \in Trees
  BY DEF Shaped
<1>2. PICK u : u = Paint(t, n, c)
  OBVIOUS
<1>3. Shaped(u, S)
  BY <1>2, PaintShaped
<1>4. /\ u \in Trees /\ u.root = t.root /\ u.link = t.link /\ u.parent = t.parent
      /\ u.color[n] = c /\ \A x \in Nodes : x # n => u.color[x] = t.color[x]
  BY <1>1, <1>2, PaintFields
<1> QED
  BY <1>2, <1>3, <1>4 DEF IsPainted

\* The state in which ks_rb_insert_color starts a turn at n
Inserting(t, S, H, n) ==
  /\ Shaped(t, S) /\ H \in [Nodes -> Nat]
  /\ n \in Sub(S, t.root) /\ IsRed(t, n)
  /\ Levelled(t, Sub(S, t.root), H, Null, "left") /\ Calm(t, Sub(S, t.root), n, Null)
  /\ IsRed(t, t.root) => n = t.root

\* A red parent is not the root, so there is a grandparent, and that is black.
LEMMA InsertPlace ==
  ASSUME NEW t, NEW S, NEW H, NEW n, Inserting(t, S, H, n), InsertLoops(t, n),
         NEW p, p = t.parent[n], NEW g, g = t.parent[p], NEW d, d = SideOf(t, g, p)
  PROVE  /\ p \in Sub(S, t.root) /\ g \in Sub(S, t.root) /\ d \in Sides
         /\ IsRed(t, p) /\ ~IsRed(t, g) /\ ~IsRed(t, t.root)
         /\ t.link[d][g] = p /\ t.link[Opposite(d)][g] # p
         /\ p # n /\ g # p /\ g # n
         /\ t.link[d][p] = n \/ t.link[Opposite(d)][p] = n
<1> DEFINE M == Sub(S, t.root)
<1>1. Shaped(t, S) /\ n \in M /\ t \in Trees
  BY DEF Inserting, Shaped
<1>2. IsRed(t, p) /\ p # Null
  BY DEF InsertLoops, IsRed
<1>3. p \in M /\ p # n /\ n # t.root /\ p \in Nodes
  <2>1. n # t.root
    BY <1>1, <1>2, ParentFacts
  <2> QED
    BY <1>1, <2>1, ParentFacts
<1>4. ~IsRed(t, t.root)
  BY <1>3 DEF Inserting
<1>5. p # t.root
  BY <1>2, <1>4
<1>6. g \in M /\ g # p /\ g \in Nodes
  BY <1>1, <1>3, <1>5, ParentFacts
<1>7. d \in Sides /\ t.link[d][g] = p /\ t.link[Opposite(d)][g] # p
  BY <1>1, <1>3, <1>5, SideOfChild
<1>8. ~IsRed(t, g)
  <2>1. CalmAt(t, n, Null, g)
    BY <1>6 DEF Inserting, Calm
  <2> QED
    BY <1>2, <1>3, <1>6, <1>7, <2>1, LinksAre DEF CalmAt
<1>9. g # n
  BY <1>8 DEF Inserting
<1>10. t.link[d][p] = n \/ t.link[Opposite(d)][p] = n
  <2>1. \E f \in Sides : t.link[f][p] = n
    BY <1>1, <1>3, ParentFacts
  <2> QED
    BY <1>7, <2>1, OppositeFacts
<1> QED
  BY <1>2, <1>3, <1>4, <1>6, <1>7, <1>8, <1>9, <1>10

\* A red uncle: the conflict moves up two levels.
LEMMA InsertRecolors ==
  ASSUME NEW t, NEW S, NEW H, NEW n, Inserting(t, S, H, n), InsertLoops(t, n),
         IsRed(t, Uncle(t, n))
  PROVE  \E H2 : /\ Inserting(InsertRecolor(t, n), S, H2, t.parent[t.parent[n]])
                 /\ InsertRecolor(t, n).root = t.root
<1>1. PICK p, g, d, o, k, u, M :
        /\ p = t.parent[n] /\ g = t.parent[p] /\ d = SideOf(t, g, p) /\ o = Opposite(d)
        /\ k = t.link[o][g] /\ u = InsertRecolor(t, n) /\ M = Sub(S, t.root)
  OBVIOUS
<1>2. /\ p \in M /\ g \in M /\ d \in Sides
      /\ IsRed(t, p) /\ ~IsRed(t, g) /\ ~IsRed(t, t.root)
      /\ t.link[d][g] = p /\ k # p /\ p # n /\ g # p /\ g # n
  BY <1>1, InsertPlace
<1>3. k = Uncle(t, n) /\ IsRed(t, k) /\ k # Null
  BY <1>1 DEF Uncle, IsRed
<1>4. Shaped(t, S) /\ t \in Trees /\ H \in [Nodes -> Nat] /\ n \in M /\ M \subseteq Nodes
      /\ o \in Sides
  <2>1. o \in Sides
    BY <1>1, <1>2, OppositeFacts
  <2>2. Shaped(t, S) /\ H \in [Nodes -> Nat] /\ n \in M
    BY <1>1 DEF Inserting
  <2>3. M \subseteq Nodes
    BY <1>1, <2>2, SubType
  <2>4. t \in Trees
    BY <2>2 DEF Shaped
  <2> QED
    BY <2>1, <2>2, <2>3, <2>4
<1>5. k \in M /\ k # g /\ t.parent[k] = g
  <2>1. Shaped(t, S) /\ o \in Sides /\ g \in M /\ M = Sub(S, t.root) /\ k = t.link[o][g]
    BY <1>1, <1>2, <1>4
  <2> QED
    BY <1>3, <2>1, ChildOf
<1>6. u = Paint(Paint(Paint(t, k, "black"), p, "black"), g, "red")
  BY <1>1, <1>3 DEF InsertRecolor
<1>7. /\ Shaped(u, S) /\ u.root = t.root /\ u.link = t.link
      /\ \A x \in Nodes : u.color[x] = IF x = g THEN "red"
                                       ELSE IF x = p \/ x = k THEN "black" ELSE t.color[x]
  <2>1. PICK a, b : a = Paint(t, k, "black") /\ b = Paint(a, p, "black")
    OBVIOUS
  <2>2. "black" \in Colors /\ "red" \in Colors
    BY DEF Colors
  <2>3. p \in Nodes /\ g \in Nodes /\ k \in Nodes
    BY <1>2, <1>4, <1>5
  <2>4. IsPainted(a, t, S, k, "black")
    BY <1>4, <2>1, <2>2, <2>3, Painted
  <2>5. Shaped(a, S)
    BY <2>4 DEF IsPainted
  <2>6. IsPainted(b, a, S, p, "black")
    BY <2>1, <2>2, <2>3, <2>5, Painted
  <2>7. Shaped(b, S) /\ u = Paint(b, g, "red")
    BY <1>6, <2>1, <2>6 DEF IsPainted
  <2>8. IsPainted(u, b, S, g, "red")
    BY <2>2, <2>3, <2>7, Painted
  <2> QED
    BY <1>2, <2>4, <2>6, <2>8 DEF IsPainted
<1> DEFINE H2 == [H EXCEPT ![p] = H[p] + 1, ![k] = H[k] + 1]
<1>8. /\ H2 \in [Nodes -> Nat] /\ H2[p] = H[p] + 1 /\ H2[k] = H[k] + 1
      /\ \A x \in Nodes : x # p /\ x # k => H2[x] = H[x]
  BY <1>2, <1>4, <1>5
<1> HIDE DEF H2
<1>9. \A x \in Nodes : IsRed(u, x) <=> x = g \/ (IsRed(t, x) /\ x # p /\ x # k)
  BY <1>2, <1>5, <1>7, LinksAre DEF IsRed
<1>10. ASSUME NEW x \in M PROVE LevelAt(u, H2, Null, "left", x)
  <2>1. LevelAt(t, H, Null, "left", x) /\ x \in Nodes
    BY <1>1, <1>4, <1>10 DEF Inserting, Levelled
  <2>2. SUFFICES ASSUME NEW f \in Sides
                 PROVE  H2[x] = High(H2, t.link[f][x]) + Short(Null, "left", x, f) + Blacks(u, x)
    BY <1>7 DEF LevelAt
  <2>3. H[x] = High(H, t.link[f][x]) + Short(Null, "left", x, f) + Blacks(t, x)
    BY <2>1 DEF LevelAt
  <2>4. t.link[f][x] = Null \/ (t.link[f][x] \in M /\ t.parent[t.link[f][x]] = x)
    BY <1>1, <1>4, <1>10, ChildFacts
  <2>5. t.parent[p] = g /\ t.parent[k] = g
    BY <1>1, <1>5
  <2>6. High(H, t.link[f][x]) \in Nat /\ Short(Null, "left", x, f) = 0 /\ H[x] \in Nat
        /\ Blacks(t, x) \in {0, 1}
    BY <1>4, <2>1, <2>4, ColorTypes, LinksAre
  <2>7. CASE x = g
    <3>1. t.link[f][x] = p \/ t.link[f][x] = k
      <4>1. d \in Sides /\ o = Opposite(d) /\ t.link[d][g] = p /\ t.link[o][g] = k
        BY <1>1, <1>2
      <4> QED
        BY <2>7, <4>1, OppositeFacts
    <3>2. High(H2, t.link[f][x]) = High(H, t.link[f][x]) + 1
      BY <1>2, <1>4, <1>5, <1>8, <3>1, LinksAre DEF High
    <3>3. Blacks(t, x) = 1 /\ Blacks(u, x) = 0 /\ H2[x] = H[x]
      BY <1>2, <1>4, <1>5, <1>7, <1>8, <2>7, ColorTypes DEF Blacks
    <3> QED
      BY <2>3, <2>6, <3>2, <3>3
  <2>8. CASE x # g
    <3>1. High(H2, t.link[f][x]) = High(H, t.link[f][x])
      BY <1>4, <1>8, <2>4, <2>5, <2>8, LinksAre DEF High
    <3>2. CASE x = p \/ x = k
      <4>1. Blacks(t, x) = 0 /\ Blacks(u, x) = 1 /\ H2[x] = H[x] + 1
        BY <1>2, <1>3, <1>4, <1>5, <1>7, <1>8, <2>8, <3>2, ColorTypes DEF Blacks
      <4> QED
        BY <2>3, <2>6, <3>1, <4>1
    <3>3. CASE x # p /\ x # k
      BY <1>7, <1>8, <2>1, <2>3, <2>8, <3>1, <3>3 DEF Blacks
    <3> QED
      BY <3>2, <3>3
  <2> QED
    BY <2>7, <2>8
<1>11. ASSUME NEW x \in M PROVE CalmAt(u, g, Null, x)
  <2>1. CalmAt(t, n, Null, x) /\ x \in Nodes
    BY <1>1, <1>4, <1>11 DEF Inserting, Calm
  <2>2. SUFFICES ASSUME NEW f \in Sides, IsRed(u, x), IsRed(u, t.link[f][x]), t.link[f][x] # g
                 PROVE  FALSE
    BY <1>7 DEF CalmAt
  <2>3. t.link[f][x] # Null
    BY <2>2 DEF IsRed
  <2>4. t.link[f][x] \in M /\ t.parent[t.link[f][x]] = x
    BY <1>1, <1>4, <1>11, <2>3, ChildFacts
  <2>5. IsRed(t, t.link[f][x]) /\ t.link[f][x] # p /\ t.link[f][x] # k
    BY <1>4, <1>9, <2>2, <2>4
  <2>6. x # g
    <3>1. /\ d \in Sides /\ o = Opposite(d) /\ t.link[d][g] = p /\ t.link[o][g] = k
          /\ t.link[f][x] # p /\ t.link[f][x] # k
      BY <1>1, <1>2, <2>5
    <3> QED
      BY <3>1, OppositeFacts
  <2>7. IsRed(t, x) /\ x # p
    BY <1>9, <2>1, <2>2, <2>6
  <2>8. t.link[f][x] = n
    BY <2>1, <2>5, <2>7, LinksAre DEF CalmAt
  <2> QED
    BY <1>1, <2>4, <2>7, <2>8
<1>12. IsRed(u, u.root) => g = u.root
  <2>1. t.root \in Nodes
    BY <1>1, <1>4, LinksAre, SubType DEF Sub
  <2> QED
    BY <1>2, <1>7, <1>9, <2>1
<1>13. IsRed(u, g)
  BY <1>2, <1>4, <1>9
<1>14. Inserting(u, S, H2, g)
  BY <1>1, <1>2, <1>7, <1>8, <1>10, <1>11, <1>12, <1>13, Zenon DEF Inserting, Levelled, Calm
<1> QED
  BY <1>1, <1>7, <1>14

\* What is known at the start of a turn, part by part.
LEMMA InsertTypes ==
  ASSUME NEW t, NEW S, NEW H, NEW n, Inserting(t, S, H, n), NEW M, M = Sub(S, t.root)
  PROVE  /\ Shaped(t, S) /\ t \in Trees /\ H \in [Nodes -> Nat] /\ n \in M /\ M \subseteq Nodes
         /\ IsRed(t, n) /\ t.root # Null /\ t.root \in M
         /\ \A x \in M : LevelAt(t, H, Null, "left", x) /\ CalmAt(t, n, Null, x)
<1>1. Shaped(t, S) /\ H \in [Nodes -> Nat] /\ n \in M /\ IsRed(t, n)
  BY DEF Inserting
<1>2. M \subseteq Nodes
  BY <1>1, SubType
<1>3. t \in Trees
  BY <1>1 DEF Shaped
<1>4. t.root # Null
  BY <1>1 DEF Sub
<1>5. t.root \in M
  BY <1>1, <1>4, SubType
<1>6. \A x \in M : LevelAt(t, H, Null, "left", x) /\ CalmAt(t, n, Null, x)
  BY DEF Inserting, Levelled, Calm
<1> QED
  BY <1>1, <1>2, <1>3, <1>4, <1>5, <1>6

\* The parent, the grandparent, and the side of the parent
Elders(t, n, p, g, d, o) ==
  p = t.parent[n] /\ g = t.parent[p] /\ d = SideOf(t, g, p) /\ o = Opposite(d)

\* Where the parent and the grandparent of a red node with a red parent are
Placed(t, S, n, p, g, d) ==
  /\ p \in Sub(S, t.root) /\ g \in Sub(S, t.root) /\ d \in Sides
  /\ IsRed(t, p) /\ ~IsRed(t, g) /\ ~IsRed(t, t.root)
  /\ t.link[d][g] = p /\ t.link[Opposite(d)][g] # p
  /\ p # n /\ g # p /\ g # n

LEMMA EldersPlaced ==
  ASSUME NEW t, NEW S, NEW H, NEW n, Inserting(t, S, H, n), InsertLoops(t, n),
         NEW p, NEW g, NEW d, NEW o, Elders(t, n, p, g, d, o)
  PROVE  Placed(t, S, n, p, g, d)
<1>1. p = t.parent[n] /\ g = t.parent[p] /\ d = SideOf(t, g, p)
  BY DEF Elders
<1>2. SUFFICES ASSUME NEW q, q = t.parent[n], NEW h, h = t.parent[q],
                      NEW c, c = SideOf(t, h, q)
               PROVE  Placed(t, S, n, q, h, c)
  <2>1. PICK q, h, c : q = p /\ h = g /\ c = d
    OBVIOUS
  <2>2. q = t.parent[n] /\ h = t.parent[q] /\ c = SideOf(t, h, q)
    BY <1>1, <2>1
  <2>3. Placed(t, S, n, q, h, c)
    BY <1>2, <2>2
  <2> QED
    BY <2>1, <2>3
<1> QED
  BY <1>2, InsertPlace DEF Placed

\* n is a red outer grandchild with a red parent and a black uncle.
Lined(t, M, n, p, g, d, o) ==
  /\ p \in M /\ g \in M /\ p = t.parent[n] /\ d \in Sides /\ o = Opposite(d)
  /\ t.link[d][g] = p /\ t.link[d][p] = n
  /\ IsRed(t, p) /\ ~IsRed(t, g) /\ ~IsRed(t, t.root) /\ ~IsRed(t, t.link[o][g])

\* A red inner grandchild changes places with its parent.
LEMMA InsertInner ==
  ASSUME NEW t, NEW S, NEW H, NEW n, Inserting(t, S, H, n), InsertLoops(t, n),
         NEW p, NEW g, NEW d, NEW o, Elders(t, n, p, g, d, o),
         t.link[o][p] = n, ~IsRed(t, t.link[o][g])
  PROVE  \E S2 : /\ Inserting(Rotate(t, d, p), S2, H, p)
                 /\ Sub(S2, Rotate(t, d, p).root) = Sub(S, t.root)
                 /\ Lined(Rotate(t, d, p), Sub(S, t.root), p, n, g, d, o)
<1>0. SUFFICES
      ASSUME NEW u, u = Rotate(t, d, p),
             p = t.parent[n], g = t.parent[p], d = SideOf(t, g, p), o = Opposite(d)
      PROVE  \E S2 : /\ Inserting(u, S2, H, p) /\ Sub(S2, u.root) = Sub(S, t.root)
                     /\ Lined(u, Sub(S, t.root), p, n, g, d, o)
  BY DEF Elders
<1>1. PICK M, S2, b, c : /\ M = Sub(S, t.root) /\ S2 = Turned(t, S, d, p)
                         /\ b = t.link[d][p] /\ c = t.link[d][n]
                         /\ p = t.parent[n] /\ g = t.parent[p] /\ d = SideOf(t, g, p)
                         /\ o = Opposite(d) /\ u = Rotate(t, d, p)
  BY <1>0
<1>2. /\ Shaped(t, S) /\ t \in Trees /\ H \in [Nodes -> Nat] /\ n \in M /\ M \subseteq Nodes
      /\ IsRed(t, n) /\ t.root # Null /\ t.root \in M
      /\ \A x \in M : LevelAt(t, H, Null, "left", x) /\ CalmAt(t, n, Null, x)
  BY <1>1, InsertTypes
<1>3. /\ p \in M /\ g \in M /\ d \in Sides
      /\ IsRed(t, p) /\ ~IsRed(t, g) /\ ~IsRed(t, t.root)
      /\ t.link[d][g] = p /\ t.link[o][g] # p
      /\ p # n /\ g # p /\ g # n
  <2>1. p = t.parent[n] /\ g = t.parent[p] /\ d = SideOf(t, g, p)
    BY <1>1
  <2>2. Placed(t, S, n, p, g, d)
    BY EldersPlaced
  <2>3. M = Sub(S, t.root) /\ o = Opposite(d)
    BY <1>1
  <2> QED
    BY <2>2, <2>3, Zenon DEF Placed
<1>4. o \in Sides /\ o # d /\ n # Null /\ n \in Nodes /\ p \in Nodes /\ n = t.link[o][p]
  <2>1. /\ d \in Sides /\ o = Opposite(d) /\ n \in Nodes /\ p \in Nodes /\ n = t.link[o][p]
    BY <1>1, <1>2, <1>3
  <2> QED
    BY <2>1, OppositeFacts, LinksAre
<1>5. CanTurn(t, S, M, d, o, p, n)
  BY <1>1, <1>2, <1>3, <1>4, Zenon DEF CanTurn
<1>6. Shaped(u, S2) /\ Sub(S2, u.root) = M /\ LinksTurned(u, t, M, d, o, p, n)
  <2>1. u = Rotate(t, d, p) /\ S2 = Turned(t, S, d, p)
    BY <1>1
  <2> QED
    BY <1>5, <2>1, TurnDone
<1>7. b # n /\ c # n /\ p # t.root
  <2>1. b # n
    <3>1. Shaped(t, S)
      BY <1>2
    <3>2. M = Sub(S, t.root) /\ p \in M /\ o \in Sides /\ d = Opposite(o) /\ n = t.link[o][p]
              /\ n # Null
      BY <1>1, <1>3, <1>4, OppositeFacts, Zenon
    <3>3. t.link[d][p] # n
      BY <3>1, <3>2, OtherSide
    <3> QED
      BY <1>1, <3>3
  <2> QED
    BY <1>1, <1>3, <1>6, <2>1, Zenon DEF LinksTurned
<1>8. ~IsRed(t, b) /\ ~IsRed(t, c)
  <2>1. CalmAt(t, n, Null, p) /\ CalmAt(t, n, Null, n)
    BY <1>2, <1>3
  <2>2. IsRed(t, p) /\ IsRed(t, n) /\ p # Null /\ n # Null
    BY <1>2, <1>3, <1>4, LinksAre
  <2>3. ~IsRed(t, b)
    <3>1. CalmAt(t, n, Null, p) /\ d \in Sides /\ b = t.link[d][p] /\ IsRed(t, p) /\ b # n /\ p # Null
      BY <1>1, <1>3, <1>7, <2>1, <2>2
    <3> QED
      BY <3>1, CalmChild
  <2>4. ~IsRed(t, c)
    <3>1. CalmAt(t, n, Null, n) /\ d \in Sides /\ c = t.link[d][n] /\ IsRed(t, n) /\ c # n /\ n # Null
      BY <1>1, <1>3, <1>7, <2>1, <2>2
    <3> QED
      BY <3>1, CalmChild
  <2> QED
    BY <2>3, <2>4
<1>9. Levelled(u, M, H, Null, "left")
  <2>1. /\ H[p] = High(H, b) + Short(Null, "left", p, d) + Blacks(t, p)
        /\ H[p] = High(H, n) + Short(Null, "left", p, o) + Blacks(t, p)
        /\ H[n] = High(H, c) + Short(Null, "left", n, d) + Blacks(t, n)
        /\ H[n] = High(H, t.link[o][n]) + Short(Null, "left", n, o) + Blacks(t, n)
    <3>1. LevelAt(t, H, Null, "left", p) /\ LevelAt(t, H, Null, "left", n)
      BY <1>2, <1>3
    <3> QED
      BY <1>1, <1>3, <1>4, <3>1, Zenon DEF LevelAt
  <2>2. Blacks(t, p) = 0 /\ Blacks(t, n) = 0
    BY <1>2, <1>3, <1>4, ColorTypes
  <2>3. /\ Short(Null, "left", p, d) = 0 /\ Short(Null, "left", p, o) = 0
        /\ Short(Null, "left", n, d) = 0 /\ Short(Null, "left", n, o) = 0
    BY <1>2, <1>4, ColorTypes
  <2>4. High(H, n) = H[n] /\ H[n] \in Nat /\ H[p] \in Nat
    BY <1>2, <1>4, ColorTypes
  <2>5. /\ H[p] = High(H, b) + Short(Null, "left", p, d) + Blacks(t, p)
        /\ H[p] = High(H, c) + Short(Null, "left", p, o) + Blacks(t, p)
        /\ H[n] = H[p] + Short(Null, "left", n, d) + Blacks(t, n)
        /\ H[n] = High(H, t.link[o][n]) + Short(Null, "left", n, o) + Blacks(t, n)
    <3>1. H[p] = H[n]
      BY <2>1, <2>2, <2>3, <2>4
    <3> QED
      BY <2>1, <2>2, <2>3, <2>4, <3>1
  <2>6. p # t.root => H[n] = H[p]
    BY <2>1, <2>2, <2>3, <2>4
  <2>7. /\ H[p] = High(H, t.link[d][p]) + Short(Null, "left", p, d) + Blacks(t, p)
        /\ H[p] = High(H, t.link[d][n]) + Short(Null, "left", p, o) + Blacks(t, p)
    BY <1>1, <2>5
  <2>8. LevelsTurn(t, M, H, Null, "left", H, Null, "left", d, o, p, n)
    BY <1>2, <2>5, <2>6, <2>7 DEF LevelsTurn
  <2> QED
    BY <1>1, <1>5, <2>8, RotateLevels
<1>10. Calm(u, M, p, Null)
  <2>1. \A m \in M, f \in Sides :
          m # p /\ m # n /\ t.link[f][m] # p /\ IsRed(t, m) /\ IsRed(t, t.link[f][m]) =>
            t.link[f][m] = p \/ m = Null
    <3>1. SUFFICES ASSUME NEW m \in M, NEW f \in Sides, m # p, m # n, IsRed(t, m),
                          IsRed(t, t.link[f][m])
                   PROVE  FALSE
      OBVIOUS
    <3>2. CalmAt(t, n, Null, m) /\ m # Null
      BY <1>2, LinksAre
    <3>3. t.link[f][m] = n
      BY <3>1, <3>2 DEF CalmAt
    <3>4. m = p
      <4>1. Shaped(t, S) /\ n \in Sub(S, t.root) /\ m \in Sub(S, t.root) /\ p = t.parent[n]
        BY <1>1, <1>2
      <4> QED
        BY <3>3, <4>1, ParentFacts
    <3> QED
      BY <3>1, <3>4
  <2>3. /\ IsRed(t, p) /\ IsRed(t, t.link[d][p]) => t.link[d][p] = p \/ p = Null
        /\ IsRed(t, p) /\ IsRed(t, t.link[d][n]) => t.link[d][n] = p \/ p = Null
        /\ IsRed(t, n) /\ IsRed(t, p) => p = p \/ n = Null
    BY <1>1, <1>8
  <2>4. IsRed(t, n) /\ IsRed(t, t.link[o][n]) => t.link[o][n] = p \/ n = Null
    <3>1. CalmAt(t, n, Null, n)
      BY <1>2
    <3>2. t.link[o][n] # n
      <4>1. Shaped(t, S) /\ n \in M
        BY <1>2
      <4>2. M = Sub(S, t.root) /\ o \in Sides
        BY <1>1, <1>4, Zenon
      <4>3. ASSUME NEW x, x = t.link[o][n], x # Null PROVE x # n
        BY <4>1, <4>2, <4>3, ChildOf
      <4> QED
        BY <1>4, <4>3
    <3>3. IsRed(t, n)
      BY <1>2
    <3> QED
      BY <1>4, <3>1, <3>2, <3>3, CalmChild
  <2>5. p # t.root /\ IsRed(t, t.parent[p]) /\ IsRed(t, n) => n = p \/ t.parent[p] = Null
    BY <1>1, <1>3
  <2>6. CalmTurns(t, M, p, Null, d, o, p, n)
    BY <2>1, <2>3, <2>4, <2>5 DEF CalmTurns
  <2> QED
    BY <1>1, <1>5, <2>6, RotateCalm
<1>11. /\ u.color = t.color /\ u.root = t.root /\ u.parent[p] = n /\ u.parent[n] = g
       /\ u.link[d][n] = p /\ u.link[d][g] = n /\ u.link[o][g] = t.link[o][g]
  BY <1>1, <1>3, <1>4, <1>6, <1>7, Zenon DEF LinksTurned
<1>12. \A x : IsRed(u, x) <=> IsRed(t, x)
  BY <1>11 DEF IsRed
<1>13. Inserting(u, S2, H, p)
  BY <1>2, <1>3, <1>6, <1>9, <1>10, <1>11, <1>12 DEF Inserting
<1>14. Lined(u, M, p, n, g, d, o)
  BY <1>1, <1>2, <1>3, <1>11, <1>12, Zenon DEF Lined
<1> QED
  BY <1>1, <1>6, <1>13, <1>14

\* A red outer grandchild stays where it is, and its parent goes up.
LEMMA InsertOuter ==
  ASSUME NEW t, NEW S, NEW H, NEW n, Inserting(t, S, H, n), NEW M, M = Sub(S, t.root),
         NEW p, NEW g, NEW d, NEW o, Lined(t, M, n, p, g, d, o),
         NEW u, u = Rotate(Paint(Paint(t, p, "black"), g, "red"), o, g)
  PROVE  \E S2, H2 : Inserting(u, S2, H2, n) /\ Sub(S2, u.root) = M
<1> SUFFICES
      ASSUME p \in M, g \in M, p = t.parent[n], d \in Sides, o = Opposite(d),
             t.link[d][g] = p, t.link[d][p] = n,
             IsRed(t, p), ~IsRed(t, g), ~IsRed(t, t.root), ~IsRed(t, t.link[o][g]),
             NEW v, v = Paint(Paint(t, p, "black"), g, "red"), u = Rotate(v, o, g)
      PROVE  \E S2, H2 : Inserting(u, S2, H2, n) /\ Sub(S2, u.root) = M
  BY DEF Lined
<1>1. PICK S2, k, b : /\ S2 = Turned(v, S, o, g)
                      /\ k = t.link[o][g] /\ b = t.link[o][p]
  OBVIOUS
<1>2. /\ Shaped(t, S) /\ t \in Trees /\ H \in [Nodes -> Nat] /\ n \in M /\ M \subseteq Nodes
      /\ IsRed(t, n) /\ t.root # Null /\ t.root \in M
      /\ \A x \in M : LevelAt(t, H, Null, "left", x) /\ CalmAt(t, n, Null, x)
  BY InsertTypes
<1>3. Shaped(t, S)
  BY <1>2
<1>4. /\ o \in Sides /\ o # d /\ d = Opposite(o) /\ n # Null /\ p # Null /\ g # Null
      /\ n \in Nodes /\ p \in Nodes /\ g \in Nodes
  BY <1>2, OppositeFacts, LinksAre
<1>5. p # n /\ p # g /\ n # g
  <2>1. p # n /\ p # g
    BY <1>3, <1>4, ChildOf
  <2> QED
    BY <1>2, <2>1
<1>6. k # p /\ b # n
  BY <1>1, <1>3, <1>4, OtherSide
<1>7. /\ Shaped(v, S) /\ v \in Trees /\ v.root = t.root /\ v.link = t.link
      /\ v.parent = t.parent
      /\ \A x \in Nodes : v.color[x] = IF x = g THEN "red"
                                       ELSE IF x = p THEN "black" ELSE t.color[x]
  <2>1. PICK a : a = Paint(t, p, "black")
    OBVIOUS
  <2>2. "black" \in Colors /\ "red" \in Colors
    BY DEF Colors
  <2>3. IsPainted(a, t, S, p, "black")
    BY <1>3, <1>4, <2>1, <2>2, Painted
  <2>4. Shaped(a, S)
    BY <2>3 DEF IsPainted
  <2>5. IsPainted(v, a, S, g, "red")
    BY <1>4, <2>1, <2>2, <2>4, Painted
  <2> QED
    BY <2>3, <2>5 DEF IsPainted
<1>8. /\ \A x \in Nodes : IsRed(v, x) <=> x = g \/ (IsRed(t, x) /\ x # p)
      /\ ~IsRed(v, Null)
  BY <1>4, <1>5, <1>7, LinksAre DEF IsRed
<1>9. CanTurn(v, S, M, o, d, g, p)
  BY <1>4, <1>7 DEF CanTurn
<1>10. Shaped(u, S2) /\ Sub(S2, u.root) = M /\ LinksTurned(u, v, M, o, d, g, p)
  BY <1>1, <1>9, TurnDone
<1> DEFINE H2 == [H EXCEPT ![g] = H[g] - 1, ![p] = H[p] + 1]
<1>11. /\ H[g] = High(H, k) + 1 /\ H[g] = H[p] + 1 /\ H[p] = High(H, b) /\ H[p] = H[n]
       /\ H[g] \in Nat /\ H[p] \in Nat /\ H[n] \in Nat
  <2>1. LevelAt(t, H, Null, "left", g) /\ LevelAt(t, H, Null, "left", p)
    BY <1>2
  <2>2. /\ H[g] = High(H, k) + Short(Null, "left", g, o) + Blacks(t, g)
        /\ H[g] = High(H, p) + Short(Null, "left", g, d) + Blacks(t, g)
        /\ H[p] = High(H, b) + Short(Null, "left", p, o) + Blacks(t, p)
        /\ H[p] = High(H, n) + Short(Null, "left", p, d) + Blacks(t, p)
    BY <1>1, <1>4, <2>1 DEF LevelAt
  <2>3. /\ Blacks(t, g) = 1 /\ Blacks(t, p) = 0
        /\ High(H, p) = H[p] /\ High(H, n) = H[n]
    BY <1>2, <1>4, ColorTypes
  <2>4. /\ Short(Null, "left", g, o) = 0 /\ Short(Null, "left", g, d) = 0
        /\ Short(Null, "left", p, o) = 0 /\ Short(Null, "left", p, d) = 0
    BY <1>2, <1>4, ColorTypes
  <2>5. k \in Links /\ b \in Links
    BY <1>1, <1>2, <1>4, SubType DEF Links
  <2>6. High(H, k) \in Nat /\ High(H, b) \in Nat
    BY <1>2, <2>5, ColorTypes
  <2>7. H[g] \in Nat /\ H[p] \in Nat /\ H[n] \in Nat
    BY <1>2, <1>4
  <2> QED
    BY <2>2, <2>3, <2>4, <2>6, <2>7
<1>12. /\ H2 \in [Nodes -> Nat] /\ H2[p] = H[g] /\ H2[g] = H[p]
       /\ \A x \in Nodes : x # p /\ x # g => H2[x] = H[x]
  <2>1. H[g] - 1 \in Nat /\ H[p] + 1 \in Nat
    BY <1>11
  <2> QED
    BY <1>2, <1>4, <1>5, <1>11, <2>1
<1> HIDE DEF H2
<1>13. Levelled(u, M, H2, Null, "left")
  <2>1. \A x \in M : x # g /\ x # p => H2[x] = H[x]
    BY <1>2, <1>12
  <2>2. ASSUME NEW x \in M, x # g, x # p PROVE LevelAt(v, H, Null, "left", x)
    <3>1. LevelAt(t, H, Null, "left", x) /\ x \in Nodes
      BY <1>2
    <3>2. Blacks(v, x) = Blacks(t, x)
      BY <1>7, <2>2, <3>1 DEF Blacks
    <3> QED
      BY <1>7, <3>1, <3>2 DEF LevelAt
  <2>3. Blacks(v, g) = 0 /\ Blacks(v, p) = 1
    BY <1>4, <1>5, <1>7 DEF Blacks
  <2>4. /\ Short(Null, "left", g, o) = 0 /\ Short(Null, "left", g, d) = 0
        /\ Short(Null, "left", p, o) = 0 /\ Short(Null, "left", p, d) = 0
    BY <1>2, <1>4, ColorTypes
  <2>5. v.link[o][g] = k /\ v.link[o][p] = b /\ v.link[d][p] = n /\ High(H, n) = H[n]
    BY <1>1, <1>2, <1>4, <1>7, ColorTypes
  <2>6. High(H, k) = H[p] /\ High(H, b) = H[p]
    <3>1. k \in Links
      BY <1>1, <1>2, <1>4, SubType DEF Links
    <3>2. High(H, k) \in Nat
      BY <1>2, <3>1, ColorTypes
    <3> QED
      BY <1>11, <3>2
  <2>7. /\ H2[g] = High(H, v.link[o][g]) + Short(Null, "left", g, o) + Blacks(v, g)
        /\ H2[g] = High(H, v.link[o][p]) + Short(Null, "left", g, d) + Blacks(v, g)
        /\ H2[p] = H2[g] + Short(Null, "left", p, o) + Blacks(v, p)
        /\ H2[p] = High(H, v.link[d][p]) + Short(Null, "left", p, d) + Blacks(v, p)
    <3>1. H2[g] = H[p] /\ H2[p] = H[p] + 1 /\ H[n] = H[p] /\ H[p] \in Nat
      BY <1>11, <1>12
    <3> QED
      BY <2>3, <2>4, <2>5, <2>6, <3>1
  <2>8. LevelsTurn(v, M, H, Null, "left", H2, Null, "left", o, d, g, p)
    BY <1>2, <1>12, <2>1, <2>2, <2>7 DEF LevelsTurn
  <2> QED
    BY <1>9, <2>8, RotateLevels
<1>14. ~IsRed(v, k) /\ ~IsRed(v, b)
  <2>1. ~IsRed(t, b)
    <3>1. CalmAt(t, n, Null, p)
      BY <1>2
    <3> QED
      BY <1>1, <1>4, <1>6, <3>1, CalmChild
  <2>2. k # g /\ b # g /\ k \in Links /\ b \in Links
    <3>1. k \in Links /\ b \in Links
      BY <1>1, <1>2, <1>4, SubType DEF Links
    <3>2. k # Null => k # g
      BY <1>1, <1>3, <1>4, ChildOf
    <3>3. b # Null => t.parent[b] = p
      BY <1>1, <1>3, <1>4, ChildOf
    <3>4. t.parent[g] # p
      <4>1. p \in S[g] /\ g \notin S[p]
        <5>1. g \in Sub(S, t.root) /\ d \in Sides /\ t.link[d][g] # Null
          BY <1>4
        <5> QED
          BY <1>3, <5>1, ChildFacts
      <4>2. t.parent[g] = p => g \in S[p]
        <5>1. ASSUME t.parent[g] = p PROVE g \in S[p]
          <6>1. g # t.root
            BY <1>2, <1>4, <5>1, ParentFacts
          <6>2. S[g] \subseteq S[t.parent[g]] /\ g \in S[g]
            <7>1. g \in Sub(S, t.root)
              OBVIOUS
            <7> QED
              BY <1>3, <1>4, <6>1, <7>1, ParentFacts, SubType
          <6> QED
            BY <5>1, <6>2
        <5> QED
          BY <5>1
      <4> QED
        BY <4>1, <4>2
    <3> QED
      BY <1>4, <3>1, <3>2, <3>3, <3>4
  <2> QED
    BY <1>1, <1>8, <2>1, <2>2, LinksAre
<1>15. Calm(u, M, n, Null)
  <2>1. ASSUME NEW m \in M, NEW f \in Sides, m # g, m # p, v.link[f][m] # g,
               IsRed(v, m), IsRed(v, v.link[f][m])
        PROVE  v.link[f][m] = n \/ m = Null
    <3>1. CalmAt(t, n, Null, m) /\ m # Null /\ m \in Nodes
      BY <1>2, LinksAre
    <3>2. IsRed(t, m)
      BY <1>8, <2>1, <3>1
    <3>3. IsRed(t, t.link[f][m])
      <4>1. t.link[f][m] # Null
        BY <1>7, <2>1 DEF IsRed
      <4>2. t.link[f][m] \in Nodes
        BY <1>3, <4>1, ChildOf
      <4> QED
        BY <1>7, <1>8, <2>1, <4>2
    <3> QED
      BY <1>7, <3>1, <3>2, <3>3 DEF CalmAt
  <2>2. ~IsRed(v, p)
    BY <1>4, <1>5, <1>8
  <2>3. ~IsRed(v, v.link[o][g]) /\ ~IsRed(v, v.link[o][p])
    BY <1>1, <1>7, <1>14
  <2>4. CalmTurns(v, M, n, Null, o, d, g, p)
    BY <2>1, <2>2, <2>3 DEF CalmTurns
  <2> QED
    BY <1>9, <2>4, RotateCalm
<1>16. /\ u.color = v.color /\ u.root = IF g = t.root THEN p ELSE t.root
       /\ u.parent[n] = p
  <2>1. u.color = v.color /\ u.root = IF g = t.root THEN p ELSE t.root
    <3>1. u.color = v.color /\ u.root = IF g = v.root THEN p ELSE v.root
      BY <1>10 DEF LinksTurned
    <3>2. v.root = t.root
      BY <1>7
    <3> QED
      BY <3>1, <3>2
  <2>2. u.link[d][p] = n
    BY <1>7, <1>10 DEF LinksTurned
  <2>3. p \in Sub(S2, u.root)
    BY <1>10
  <2>4. u.parent[n] = p
    BY <1>4, <1>10, <2>2, <2>3, ChildOf
  <2> QED
    BY <2>1, <2>4
<1>17. /\ \A x : IsRed(u, x) <=> IsRed(v, x)
       /\ ~IsRed(u, p) /\ IsRed(u, n) /\ ~IsRed(u, u.root)
  <2>1. \A x : IsRed(u, x) <=> IsRed(v, x)
    BY <1>16 DEF IsRed
  <2>2. ~IsRed(v, p) /\ IsRed(v, n)
    BY <1>2, <1>4, <1>5, <1>8
  <2>3. g # t.root => ~IsRed(v, t.root)
    BY <1>2, <1>8
  <2> QED
    BY <1>16, <2>1, <2>2, <2>3
<1>18. Inserting(u, S2, H2, n)
  BY <1>2, <1>10, <1>12, <1>13, <1>15, <1>17 DEF Inserting
<1> QED
  BY <1>10, <1>18

\* A black uncle: one or two rotations, and the loop ends.
LEMMA InsertRotates ==
  ASSUME NEW t, NEW S, NEW H, NEW n, Inserting(t, S, H, n), InsertLoops(t, n),
         ~IsRed(t, Uncle(t, n)), NEW r, r = InsertRotate(t, n)
  PROVE  \E S2, H2 : /\ Inserting(r.tree, S2, H2, r.at)
                     /\ Sub(S2, r.tree.root) = Sub(S, t.root)
<1>1. PICK p, g, d, o, M : /\ p = t.parent[n] /\ g = t.parent[p] /\ d = SideOf(t, g, p)
                           /\ o = Opposite(d) /\ M = Sub(S, t.root)
  OBVIOUS
<1>2. /\ p \in M /\ g \in M /\ d \in Sides
      /\ IsRed(t, p) /\ ~IsRed(t, g) /\ ~IsRed(t, t.root)
      /\ t.link[d][g] = p /\ p # n /\ g # p /\ g # n
      /\ t.link[d][p] = n \/ t.link[o][p] = n
  BY <1>1, InsertPlace
<1>3. ~IsRed(t, t.link[o][g])
  BY <1>1 DEF Uncle
<1>4. CASE t.link[o][p] = n
  <2>1. PICK w, v : w = Rotate(t, d, p) /\ v = Paint(Paint(w, n, "black"), g, "red")
    OBVIOUS
  <2>2. r.tree = Rotate(v, o, g) /\ r.at = p
    BY <1>1, <1>4, <2>1 DEF InsertRotate
  <2>3. Elders(t, n, p, g, d, o)
    BY <1>1 DEF Elders
  <2>4. PICK S1 : /\ Inserting(w, S1, H, p) /\ Sub(S1, w.root) = Sub(S, t.root)
                  /\ Lined(w, Sub(S, t.root), p, n, g, d, o)
    BY <1>3, <1>4, <2>1, <2>3, InsertInner
  <2>5. PICK u : u = Rotate(v, o, g)
    OBVIOUS
  <2>6. PICK S2, H2 : Inserting(u, S2, H2, p) /\ Sub(S2, u.root) = M
    <3>1. M = Sub(S1, w.root) /\ Lined(w, M, p, n, g, d, o)
      BY <1>1, <2>4
    <3> QED
      BY <2>1, <2>4, <2>5, <3>1, InsertOuter
  <2> QED
    BY <1>1, <2>2, <2>5, <2>6
<1>5. CASE t.link[o][p] # n
  <2>1. PICK v, u : v = Paint(Paint(t, p, "black"), g, "red") /\ u = Rotate(v, o, g)
    OBVIOUS
  <2>2. r.tree = u /\ r.at = n
    BY <1>1, <1>5, <2>1 DEF InsertRotate
  <2>3. PICK S2, H2 : Inserting(u, S2, H2, n) /\ Sub(S2, u.root) = M
    <3>1. Lined(t, M, n, p, g, d, o)
      BY <1>1, <1>2, <1>3, <1>5 DEF Lined
    <3> QED
      BY <1>1, <2>1, <3>1, InsertOuter
  <2> QED
    BY <1>1, <2>2, <2>3
<1> QED
  BY <1>4, <1>5

-----------------------------------------------------------------------------
(* __rb_erase_color. *)

\* The state in which __rb_erase_color starts a turn at n: on side d of p a black is lacking.
Lacking(t, S, H, n, p, d) ==
  /\ Shaped(t, S) /\ H \in [Nodes -> Nat]
  /\ p \in Sub(S, t.root) /\ d \in Sides /\ n = t.link[d][p]
  /\ Levelled(t, Sub(S, t.root), H, p, d) /\ Calm(t, Sub(S, t.root), n, n)
  /\ ~IsRed(t, t.root)

\* The sibling on side o
HasSibling(t, H, M, n, p, d, o, s) ==
  /\ o = Opposite(d) /\ o \in Sides /\ o # d /\ d = Opposite(o)
  /\ s = t.link[o][p] /\ s \in M /\ s \in Nodes /\ s # Null /\ s # p /\ s # n /\ t.parent[s] = p
  /\ n \in Links /\ n # p /\ n # t.root /\ p # Null /\ p \in Nodes
  /\ SideOf(t, p, n) = d
  /\ High(H, n) \in Nat /\ H[s] = High(H, n) + 1 /\ H[p] = H[s] + Blacks(t, p)

\* What is known at the start of a turn, part by part.
LEMMA LackTypes ==
  ASSUME NEW t, NEW S, NEW H, NEW n, NEW p, NEW d, Lacking(t, S, H, n, p, d),
         NEW M, M = Sub(S, t.root)
  PROVE  /\ Shaped(t, S) /\ t \in Trees /\ H \in [Nodes -> Nat] /\ p \in M /\ M \subseteq Nodes
         /\ d \in Sides /\ n = t.link[d][p] /\ t.root # Null /\ t.root \in M /\ ~IsRed(t, t.root)
         /\ \A x \in M : LevelAt(t, H, p, d, x) /\ CalmAt(t, n, n, x)
<1>1. Shaped(t, S) /\ H \in [Nodes -> Nat] /\ p \in M /\ d \in Sides /\ n = t.link[d][p]
      /\ ~IsRed(t, t.root)
  BY DEF Lacking
<1>2. M \subseteq Nodes
  BY <1>1, SubType
<1>3. t \in Trees
  BY <1>1 DEF Shaped
<1>4. t.root # Null
  BY <1>1 DEF Sub
<1>5. t.root \in M
  BY <1>1, <1>4, SubType
<1>6. \A x \in M : LevelAt(t, H, p, d, x) /\ CalmAt(t, n, n, x)
  BY DEF Lacking, Levelled, Calm
<1> QED
  BY <1>1, <1>2, <1>3, <1>4, <1>5, <1>6

\* The side that does not lack a black is not empty.
LEMMA LackSibling ==
  ASSUME NEW t, NEW S, NEW H, NEW n, NEW p, NEW d, Lacking(t, S, H, n, p, d)
  PROVE  HasSibling(t, H, Sub(S, t.root), n, p, d, Opposite(d), t.link[Opposite(d)][p])
<1>1. PICK M, o, s : M = Sub(S, t.root) /\ o = Opposite(d) /\ s = t.link[o][p]
  OBVIOUS
<1>2. /\ Shaped(t, S) /\ t \in Trees /\ H \in [Nodes -> Nat] /\ p \in M /\ M \subseteq Nodes
      /\ d \in Sides /\ n = t.link[d][p] /\ t.root # Null /\ t.root \in M /\ ~IsRed(t, t.root)
      /\ \A x \in M : LevelAt(t, H, p, d, x) /\ CalmAt(t, n, n, x)
  BY <1>1, LackTypes
<1>3. Shaped(t, S)
  BY <1>2
<1>4. o \in Sides /\ o # d /\ p # Null /\ p \in Nodes /\ d = Opposite(o)
  BY <1>1, <1>2, OppositeFacts, LinksAre
<1>5. n \in Links /\ s \in Links
  BY <1>1, <1>2, <1>4, SubType DEF Links
<1>6. High(H, n) \in Nat /\ High(H, s) \in Nat
  BY <1>2, <1>5, ColorTypes
<1>7. High(H, s) = High(H, n) + 1 /\ H[p] = High(H, s) + Blacks(t, p)
  <2>1. LevelAt(t, H, p, d, p)
    BY <1>2
  <2>2. /\ H[p] = High(H, n) + Short(p, d, p, d) + Blacks(t, p)
        /\ H[p] = High(H, s) + Short(p, d, p, o) + Blacks(t, p)
    BY <1>1, <1>2, <1>4, <2>1 DEF LevelAt
  <2>3. Short(p, d, p, d) = 1 /\ Short(p, d, p, o) = 0
    BY <1>4 DEF Short
  <2>4. Blacks(t, p) \in {0, 1}
    BY <1>2, ColorTypes
  <2> QED
    BY <1>6, <2>2, <2>3, <2>4
<1>8. s # Null
  BY <1>6, <1>7 DEF High
<1>9. s \in M /\ s \in Nodes /\ s # p /\ t.parent[s] = p
  BY <1>1, <1>2, <1>4, <1>8, ChildOf
<1>10. s # n
  BY <1>1, <1>2, <1>4, <1>8, OtherSide
<1>11. High(H, s) = H[s]
  BY <1>8 DEF High
<1>12. n # p /\ n # t.root
  <2>1. CASE n = Null
    BY <1>2, <1>4, <2>1
  <2>2. CASE n # Null
    <3>1. n # p /\ t.parent[n] = p
      BY <1>1, <1>2, <2>2, ChildOf
    <3>2. t.parent[t.root] = Null
      BY <1>2, <1>3 DEF Shaped
    <3> QED
      BY <1>4, <3>1, <3>2
  <2> QED
    BY <2>1, <2>2
<1>13. SideOf(t, p, n) = d
  BY <1>1, <1>2, <1>4, <1>10, OppositeFacts DEF SideOf, Sides
<1> QED
  BY <1>1, <1>2, <1>4, <1>5, <1>6, <1>7, <1>8, <1>9, <1>10, <1>11, <1>12, <1>13 DEF HasSibling

\* If n is black, no red has a red parent.
LEMMA LackCalm ==
  ASSUME NEW t, NEW n, ~IsRed(t, n), NEW x, CalmAt(t, n, n, x), NEW y, NEW z
  PROVE  CalmAt(t, y, z, x)
  BY DEF CalmAt

\* A red sibling goes up; the lacking subtree stays under p, which is red now.
LEMMA EraseSiblings ==
  ASSUME NEW t, NEW S, NEW H, NEW n, NEW p, NEW d, Lacking(t, S, H, n, p, d), ~IsRed(t, n),
         NEW o, o = Opposite(d)
  PROVE  \E S2, H2 : LET u == EraseSibling(t, n, p)
                     IN  /\ Lacking(u, S2, H2, n, p, d) /\ ~IsRed(u, n)
                         /\ Sub(S2, u.root) = Sub(S, t.root) /\ ~IsRed(u, u.link[o][p])
<1>1. PICK M, s, u, v, S2, b, g :
        /\ M = Sub(S, t.root) /\ s = t.link[o][p] /\ u = EraseSibling(t, n, p)
        /\ v = Paint(Paint(t, s, "black"), p, "red") /\ S2 = Turned(v, S, d, p)
        /\ b = t.link[d][s] /\ g = t.link[o][s]
  OBVIOUS
<1>2. /\ Shaped(t, S) /\ t \in Trees /\ H \in [Nodes -> Nat] /\ p \in M /\ M \subseteq Nodes
      /\ d \in Sides /\ n = t.link[d][p] /\ t.root # Null /\ t.root \in M /\ ~IsRed(t, t.root)
      /\ \A x \in M : LevelAt(t, H, p, d, x) /\ CalmAt(t, n, n, x)
  BY <1>1, LackTypes
<1>3. HasSibling(t, H, M, n, p, d, o, s)
  BY <1>1, LackSibling
<1>4. /\ o = Opposite(d) /\ o \in Sides /\ o # d /\ d = Opposite(o)
      /\ s = t.link[o][p] /\ s \in M /\ s \in Nodes /\ s # Null /\ s # p /\ s # n
      /\ t.parent[s] = p
      /\ n \in Links /\ n # p /\ n # t.root /\ p # Null /\ p \in Nodes
      /\ SideOf(t, p, n) = d
      /\ High(H, n) \in Nat /\ H[s] = High(H, n) + 1 /\ H[p] = H[s] + Blacks(t, p)
  BY <1>3 DEF HasSibling
<1>5. u = IF IsRed(t, s) THEN Rotate(v, d, p) ELSE t
  BY <1>1, <1>4 DEF EraseSibling
<1>6. CASE ~IsRed(t, s)
  BY <1>1, <1>5, <1>6
<1>7. CASE IsRed(t, s)
  <2>1. ~IsRed(t, p)
    <3>1. CalmAt(t, n, n, p)
      BY <1>2
    <3>2. CalmAt(t, Null, Null, p)
      BY <3>1, LackCalm
    <3>3. ASSUME IsRed(t, p) PROVE FALSE
      <4>1. ~IsRed(t, s)
        <5>1. o \in Sides /\ s = t.link[o][p] /\ s # Null /\ p # Null
          BY <1>4
        <5> QED
          BY <3>2, <3>3, <5>1, CalmChild
      <4> QED
        BY <1>7, <4>1
    <3> QED
      BY <3>3
  <2>2. s # t.root
    BY <1>2, <1>7
  <2>3. /\ Shaped(v, S) /\ v \in Trees /\ v.root = t.root /\ v.link = t.link
        /\ v.parent = t.parent
        /\ \A x \in Nodes : v.color[x] = IF x = p THEN "red"
                                         ELSE IF x = s THEN "black" ELSE t.color[x]
    <3>1. PICK a : a = Paint(t, s, "black")
      OBVIOUS
    <3>2. "black" \in Colors /\ "red" \in Colors
      BY DEF Colors
    <3>3. Shaped(t, S)
      BY <1>2
    <3>4. IsPainted(a, t, S, s, "black")
      BY <1>4, <3>1, <3>2, <3>3, Painted
    <3>5. Shaped(a, S) /\ v = Paint(a, p, "red")
      BY <1>1, <3>1, <3>4 DEF IsPainted
    <3>6. IsPainted(v, a, S, p, "red")
      BY <1>4, <3>2, <3>5, Painted
    <3> QED
      BY <3>4, <3>6 DEF IsPainted
  <2>4. /\ \A x \in Nodes : IsRed(v, x) <=> x = p \/ (IsRed(t, x) /\ x # s)
        /\ ~IsRed(v, Null)
    BY <1>4, <2>3, LinksAre DEF IsRed
  <2>5. CanTurn(v, S, M, d, o, p, s)
    BY <1>1, <1>2, <1>4, <2>3 DEF CanTurn
  <2>6. Shaped(u, S2) /\ Sub(S2, u.root) = M /\ LinksTurned(u, v, M, d, o, p, s)
    BY <1>1, <1>5, <1>7, <2>5, TurnDone
  <2>7. b \in Links /\ g \in Links
    BY <1>1, <1>2, <1>4, SubType DEF Links
  <2>8. /\ H[s] = High(H, b) /\ H[s] = High(H, g)
        /\ H[p] = High(H, n) + 2 /\ H[p] \in Nat /\ H[s] \in Nat
    <3>1. LevelAt(t, H, p, d, s)
      BY <1>2, <1>4
    <3>2. /\ H[s] = High(H, b) + Short(p, d, s, d) + Blacks(t, s)
          /\ H[s] = High(H, g) + Short(p, d, s, o) + Blacks(t, s)
      BY <1>1, <1>2, <1>4, <3>1 DEF LevelAt
    <3>3. Short(p, d, s, d) = 0 /\ Short(p, d, s, o) = 0
      BY <1>4 DEF Short
    <3>4. Blacks(t, s) = 0 /\ Blacks(t, p) = 1
      BY <1>2, <1>4, <1>7, <2>1, ColorTypes
    <3>5. High(H, b) \in Nat /\ High(H, g) \in Nat
      BY <1>2, <2>7, ColorTypes
    <3> QED
      BY <1>4, <3>2, <3>3, <3>4, <3>5
  <2> DEFINE H2 == [H EXCEPT ![p] = H[s], ![s] = H[p]]
  <2>9. /\ H2 \in [Nodes -> Nat] /\ H2[p] = H[s] /\ H2[s] = H[p]
        /\ \A x \in Nodes : x # p /\ x # s => H2[x] = H[x]
    BY <1>2, <1>4, <2>8
  <2> HIDE DEF H2
  <2>10. Levelled(u, M, H2, p, d)
    <3>1. \A x \in M : x # p /\ x # s => H2[x] = H[x]
      BY <1>2, <2>9
    <3>2. ASSUME NEW x \in M, x # p, x # s PROVE LevelAt(v, H, p, d, x)
      <4>1. LevelAt(t, H, p, d, x) /\ x \in Nodes
        BY <1>2
      <4>2. Blacks(v, x) = Blacks(t, x)
        BY <2>3, <3>2, <4>1 DEF Blacks
      <4> QED
        BY <2>3, <4>1, <4>2 DEF LevelAt
    <3>3. Blacks(v, p) = 0 /\ Blacks(v, s) = 1
      BY <1>4, <2>3 DEF Blacks
    <3>4. /\ Short(p, d, p, d) = 1 /\ Short(p, d, p, o) = 0
          /\ Short(p, d, s, o) = 0 /\ Short(p, d, s, d) = 0
      BY <1>4 DEF Short
    <3>5. v.link[d][p] = n /\ v.link[d][s] = b /\ v.link[o][s] = g
      BY <1>1, <1>2, <2>3
    <3>6. /\ H2[p] = H[s] /\ H2[s] = H[s] + 1 /\ H[s] \in Nat
          /\ High(H, n) + 1 = H[s] /\ High(H, b) = H[s] /\ High(H, g) = H[s]
          /\ High(H, n) \in Nat
      BY <1>4, <2>8, <2>9
    <3>7. /\ H2[p] = High(H, v.link[d][p]) + Short(p, d, p, d) + Blacks(v, p)
          /\ H2[p] = High(H, v.link[d][s]) + Short(p, d, p, o) + Blacks(v, p)
          /\ H2[s] = H2[p] + Short(p, d, s, d) + Blacks(v, s)
          /\ H2[s] = High(H, v.link[o][s]) + Short(p, d, s, o) + Blacks(v, s)
      BY <3>3, <3>4, <3>5, <3>6
    <3>8. LevelsTurn(v, M, H, p, d, H2, p, d, d, o, p, s)
      BY <1>2, <2>9, <3>1, <3>2, <3>7 DEF LevelsTurn
    <3> QED
      BY <1>5, <1>7, <2>5, <3>8, RotateLevels
  <2>11. ~IsRed(v, b) /\ ~IsRed(v, g) /\ ~IsRed(v, n)
    <3>0. CalmAt(t, n, n, s)
      BY <1>2, <1>4
    <3>1. CalmAt(t, Null, Null, s)
      BY <3>0, LackCalm
    <3>2. ASSUME NEW f \in Sides, NEW c, c = t.link[f][s] PROVE ~IsRed(t, c) /\ c # p
      <4>1. CASE c = Null
        BY <1>4, <4>1 DEF IsRed
      <4>2. CASE c # Null
        <5>1. ~IsRed(t, c)
          BY <1>4, <1>7, <3>1, <3>2, <4>2, CalmChild
        <5>2. c # p
          <6>1. s \in S[p] /\ p \notin S[s]
            <7>1. p \in Sub(S, t.root) /\ t.link[o][p] # Null /\ Shaped(t, S)
              BY <1>1, <1>2, <1>4
            <7> QED
              BY <1>4, <7>1, ChildFacts
          <6>2. c \in S[s]
            <7>1. s \in Sub(S, t.root) /\ t.link[f][s] # Null /\ Shaped(t, S)
              BY <1>1, <1>2, <1>4, <3>2, <4>2
            <7> QED
              BY <3>2, <7>1, ChildFacts
          <6> QED
            BY <6>1, <6>2
        <5> QED
          BY <5>1, <5>2
      <4> QED
        BY <4>1, <4>2
    <3>3. ~IsRed(t, b) /\ b # p /\ ~IsRed(t, g) /\ g # p
      BY <1>1, <1>2, <1>4, <3>2
    <3> QED
      BY <1>4, <2>4, <2>7, <3>3, LinksAre
  <2>12. Calm(u, M, n, n)
    <3>1. ASSUME NEW m \in M, NEW f \in Sides, m # p, m # s, v.link[f][m] # p,
                 IsRed(v, m), IsRed(v, v.link[f][m])
          PROVE  FALSE
      <4>1. CalmAt(t, Null, Null, m) /\ m \in Nodes
        BY <1>2, LackCalm
      <4>2. IsRed(t, m) /\ m # Null
        BY <2>4, <3>1, <4>1, LinksAre
      <4>3. t.link[f][m] # Null
        BY <2>3, <3>1 DEF IsRed
      <4>4. t.link[f][m] \in Nodes
        <5>1. Shaped(t, S)
          BY <1>2
        <5> QED
          BY <1>1, <4>3, <5>1, ChildOf
      <4>5. IsRed(t, t.link[f][m])
        BY <2>3, <2>4, <3>1, <4>4
      <4> QED
        BY <4>1, <4>2, <4>3, <4>5 DEF CalmAt
    <3>2. ~IsRed(v, s)
      BY <1>4, <2>4
    <3>3. ~IsRed(v, v.link[d][p]) /\ ~IsRed(v, v.link[d][s])
      BY <1>1, <1>2, <2>3, <2>11
    <3>4. CalmTurns(v, M, n, n, d, o, p, s)
      BY <3>1, <3>2, <3>3 DEF CalmTurns
    <3> QED
      BY <1>5, <1>7, <2>5, <3>4, RotateCalm
  <2>13. /\ u.color = v.color /\ u.root = IF p = t.root THEN s ELSE t.root
         /\ u.link[d][p] = n /\ u.link[o][p] = b
    BY <1>1, <1>2, <2>3, <2>6, Zenon DEF LinksTurned
  <2>14. \A x : IsRed(u, x) <=> IsRed(v, x)
    BY <2>13 DEF IsRed
  <2>15. ~IsRed(u, u.root)
    BY <1>2, <1>4, <2>4, <2>13, <2>14
  <2>16. Lacking(u, S2, H2, n, p, d)
    BY <1>2, <2>6, <2>9, <2>10, <2>12, <2>13, <2>15 DEF Lacking
  <2>17. ~IsRed(u, n) /\ ~IsRed(u, u.link[o][p])
    BY <2>11, <2>13, <2>14
  <2> QED
    BY <1>1, <2>6, <2>16, <2>17
<1> QED
  BY <1>6, <1>7

\* A child of a child is not the node itself.
LEMMA GrandChild ==
  ASSUME NEW t, NEW S, Shaped(t, S), NEW M, M = Sub(S, t.root), NEW p \in M,
         NEW o \in Sides, NEW s, s = t.link[o][p], s # Null,
         NEW f \in Sides, NEW c, c = t.link[f][s]
  PROVE  c # p /\ c \in Links
<1>1. p \in Sub(S, t.root) /\ t.link[o][p] # Null
  OBVIOUS
<1>2. s \in Sub(S, t.root) /\ s \in Nodes /\ p \notin S[s]
  BY <1>1, ChildFacts
<1>3. c \in Links
  BY <1>2, SubType DEF Links
<1>4. CASE c = Null
  <2>1. p \in Nodes
    BY <1>1, SubType
  <2> QED
    BY <1>4, <2>1, LinksAre
<1>5. CASE c # Null
  <2>1. c \in S[s]
    <3>1. t.link[f][s] # Null
      BY <1>5
    <3> QED
      BY <1>2, <3>1, ChildFacts
  <2> QED
    BY <1>2, <1>3, <2>1
<1> QED
  BY <1>3, <1>4, <1>5

\* The sibling turns red, and the whole subtree of p is lacking now.
Erasing(t, S, H, n, p) ==
  /\ Shaped(t, S) /\ H \in [Nodes -> Nat] /\ Calm(t, Sub(S, t.root), n, n)
  /\ IF n = t.root THEN Levelled(t, Sub(S, t.root), H, Null, "left")
     ELSE Lacking(t, S, H, n, p, SideOf(t, p, n))

\* A black sibling with black children turns red, and what is lacking moves up.
LEMMA EraseRecolors ==
  ASSUME NEW t, NEW S, NEW H, NEW n, NEW p, NEW d, Lacking(t, S, H, n, p, d), ~IsRed(t, n),
         ~IsRed(t, t.link[Opposite(d)][p]), BothNephewsBlack(t, n, p)
  PROVE  \E H2 : LET u == EraseRecolor(t, n, p)
                 IN  u.root = t.root /\ Erasing(u, S, H2, p, t.parent[p])
                         /\ u.parent[p] = t.parent[p]
<1>1. PICK M, s, o, u, q, f :
        /\ M = Sub(S, t.root) /\ o = Opposite(d) /\ s = t.link[o][p] /\ u = EraseRecolor(t, n, p)
        /\ q = t.parent[p] /\ f = SideOf(u, q, p)
  OBVIOUS
<1>2. /\ Shaped(t, S) /\ t \in Trees /\ H \in [Nodes -> Nat] /\ p \in M /\ M \subseteq Nodes
      /\ d \in Sides /\ n = t.link[d][p] /\ t.root # Null /\ t.root \in M /\ ~IsRed(t, t.root)
      /\ \A x \in M : LevelAt(t, H, p, d, x) /\ CalmAt(t, n, n, x)
  BY <1>1, LackTypes
<1>3. HasSibling(t, H, M, n, p, d, o, s)
  BY <1>1, LackSibling
<1>4. /\ o = Opposite(d) /\ o \in Sides /\ o # d /\ d = Opposite(o)
      /\ s = t.link[o][p] /\ s \in M /\ s \in Nodes /\ s # Null /\ s # p /\ s # n
      /\ t.parent[s] = p
      /\ n \in Links /\ n # p /\ n # t.root /\ p # Null /\ p \in Nodes
      /\ SideOf(t, p, n) = d
      /\ High(H, n) \in Nat /\ H[s] = High(H, n) + 1 /\ H[p] = H[s] + Blacks(t, p)
  BY <1>3 DEF HasSibling
<1>5. u = Paint(t, s, "red")
  BY <1>1, <1>4 DEF EraseRecolor
<1>6. IsPainted(u, t, S, s, "red")
  <2>1. Shaped(t, S) /\ "red" \in Colors
    BY <1>2 DEF Colors
  <2> QED
    BY <1>4, <1>5, <2>1, Painted
<1>7. /\ Shaped(u, S) /\ u \in Trees /\ u.root = t.root /\ u.link = t.link /\ u.parent = t.parent
      /\ \A x \in Nodes : u.color[x] = IF x = s THEN "red" ELSE t.color[x]
  BY <1>6 DEF IsPainted
<1>8. /\ \A x \in Nodes : IsRed(u, x) <=> x = s \/ IsRed(t, x)
      /\ ~IsRed(u, Null)
  BY <1>4, <1>7, LinksAre DEF IsRed
<1>9. ~IsRed(t, s) /\ \A g \in Sides : ~IsRed(t, t.link[g][s])
  BY <1>1, <1>4 DEF BothNephewsBlack
<1>10. H[s] \in Nat /\ H[p] \in Nat /\ H[p] > 0 /\ H[s] > 0
  <2>1. Blacks(t, p) \in {0, 1}
    BY <1>2, ColorTypes
  <2> QED
    BY <1>4, <2>1
<1> DEFINE H2 == [H EXCEPT ![p] = H[p] - 1, ![s] = H[s] - 1]
<1>11. /\ H2 \in [Nodes -> Nat] /\ H2[p] = H[p] - 1 /\ H2[s] = H[s] - 1
       /\ \A x \in Nodes : x # p /\ x # s => H2[x] = H[x]
  <2>1. H[s] - 1 \in Nat /\ H[p] - 1 \in Nat
    BY <1>10
  <2> QED
    BY <1>2, <1>4, <2>1
<1> HIDE DEF H2
<1>12. Calm(u, M, p, p)
  <2>1. SUFFICES ASSUME NEW m \in M, NEW g \in Sides, IsRed(u, m), IsRed(u, u.link[g][m]), m # p
                 PROVE  FALSE
    BY DEF Calm, CalmAt
  <2>2. CalmAt(t, Null, Null, m) /\ m \in Nodes /\ m # Null
    <3>1. CalmAt(t, n, n, m)
      BY <1>2
    <3>2. CalmAt(t, Null, Null, m)
      BY <3>1, LackCalm
    <3> QED
      BY <1>2, <3>2, LinksAre
  <2>3. t.link[g][m] # Null /\ t.link[g][m] # s
    <3>1. t.link[g][m] # Null
      BY <1>7, <2>1 DEF IsRed
    <3>2. Shaped(t, S)
      BY <1>2
    <3>3. t.parent[t.link[g][m]] = m
      BY <1>1, <3>1, <3>2, ChildOf
    <3> QED
      BY <1>4, <2>1, <3>1, <3>3
  <2>4. t.link[g][m] \in Nodes
    <3>2. Shaped(t, S)
      BY <1>2
    <3> QED
      BY <1>1, <2>3, <3>2, ChildOf
  <2>5. IsRed(t, t.link[g][m])
    BY <1>7, <1>8, <2>1, <2>3, <2>4
  <2>6. m # s
    BY <1>9, <2>5
  <2>7. IsRed(t, m)
    BY <1>8, <2>1, <2>2, <2>6
  <2> QED
    BY <2>2, <2>3, <2>5, <2>7 DEF CalmAt
<1>13. p # t.root => q \in M /\ f \in Sides /\ u.link[f][q] = p
                     /\ \A g \in Sides : t.link[g][q] = p => g = f
  <2>1. Shaped(t, S) /\ p \in Sub(S, t.root)
    BY <1>1, <1>2
  <2>2. f = SideOf(t, q, p)
    BY <1>1, <1>7 DEF SideOf
  <2> QED
    BY <1>1, <1>7, <2>1, <2>2, SideOfChild, ParentFacts
<1> DEFINE q2 == IF p = t.root THEN Null ELSE q
           f2 == IF p = t.root THEN "left" ELSE f
<1>14. ASSUME NEW x \in M PROVE LevelAt(u, H2, q2, f2, x)
  <2>1. LevelAt(t, H, p, d, x) /\ x \in Nodes /\ H[x] \in Nat /\ x # Null
    BY <1>2, LinksAre
  <2>2. SUFFICES ASSUME NEW g \in Sides
                 PROVE  H2[x] = High(H2, t.link[g][x]) + Short(q2, f2, x, g) + Blacks(u, x)
    BY <1>7 DEF LevelAt
  <2>3. H[x] = High(H, t.link[g][x]) + Short(p, d, x, g) + Blacks(t, x)
    BY <2>1 DEF LevelAt
  <2>4. PICK c : c = t.link[g][x]
    OBVIOUS
  <2>5. c = Null \/ (c \in M /\ c \in Nodes /\ t.parent[c] = x /\ c # x)
    <3>1. Shaped(t, S)
      BY <1>2
    <3> QED
      BY <1>1, <2>4, <3>1, ChildOf
  <2>6. /\ Blacks(t, x) = IF IsRed(t, x) THEN 0 ELSE 1
        /\ Blacks(u, x) = IF IsRed(u, x) THEN 0 ELSE 1
        /\ High(H, c) \in Nat
    <3>1. c \in Links
      BY <2>5, LinksAre
    <3> QED
      BY <1>2, <1>7, <2>1, <3>1, ColorTypes
  <2>7. q2 # p /\ q2 # s
    <3>1. CASE p = t.root
      BY <1>4, <3>1
    <3>2. CASE p # t.root
      <4>1. Shaped(t, S) /\ p \in Sub(S, t.root)
        BY <1>1, <1>2
      <4>2. q # p
        BY <1>1, <3>2, <4>1, ParentFacts
      <4>3. q # s
        <5>1. f \in Sides /\ p = t.link[f][q] /\ q \in M
          BY <1>7, <1>13, <3>2
        <5>2. Shaped(t, S) /\ M = Sub(S, t.root) /\ o \in Sides /\ s = t.link[o][p] /\ p # Null
          BY <1>1, <1>4, <4>1
        <5>3. s # q
          BY <5>1, <5>2, GrandChild
        <5> QED
          BY <5>3
      <4> QED
        BY <3>2, <4>2, <4>3
    <3> QED
      BY <3>1, <3>2
  <2>8. CASE x = p
    <3>1. Short(q2, f2, x, g) = 0
      BY <2>7, <2>8 DEF Short
    <3>2. Blacks(u, x) = Blacks(t, x) /\ H2[x] = H[x] - 1
      BY <1>4, <1>8, <1>11, <2>1, <2>6, <2>8
    <3>3. CASE g = d
      <4>1. c = n /\ Short(p, d, x, g) = 1
        BY <1>2, <2>4, <2>8, <3>3 DEF Short
      <4>2. High(H2, c) = High(H, c)
        BY <1>4, <1>11, <4>1, LinksAre DEF High
      <4> QED
        BY <2>1, <2>3, <2>4, <2>6, <3>1, <3>2, <4>1, <4>2
    <3>4. CASE g = o
      <4>1. c = s /\ Short(p, d, x, g) = 0
        BY <1>4, <2>4, <2>8, <3>4 DEF Short
      <4>2. High(H2, c) = High(H, c) - 1
        BY <1>4, <1>11, <4>1 DEF High
      <4> QED
        BY <2>1, <2>3, <2>4, <2>6, <3>1, <3>2, <4>1, <4>2
    <3> QED
      BY <1>2, <1>4, <3>3, <3>4, OppositeFacts
  <2>9. CASE x = s
    <3>1. Short(q2, f2, x, g) = 0 /\ Short(p, d, x, g) = 0
      BY <1>4, <2>7, <2>9 DEF Short
    <3>2. Blacks(u, x) = 0 /\ Blacks(t, x) = 1 /\ H2[x] = H[x] - 1
      BY <1>8, <1>9, <1>11, <2>1, <2>6, <2>9
    <3>3. c # p
      <4>1. /\ Shaped(t, S) /\ p \in M /\ M = Sub(S, t.root) /\ o \in Sides /\ s = t.link[o][p]
            /\ s # Null /\ g \in Sides /\ c = t.link[g][s]
        BY <1>1, <1>2, <1>4, <2>4, <2>9
      <4> QED
        BY <4>1, GrandChild
    <3>4. High(H2, c) = High(H, c)
      BY <1>4, <1>11, <2>5, <2>9, <3>3 DEF High
    <3> QED
      BY <2>1, <2>3, <2>4, <2>6, <3>1, <3>2, <3>4
  <2>10. CASE x # p /\ x # s
    <3>1. Short(p, d, x, g) = 0 /\ Blacks(u, x) = Blacks(t, x) /\ H2[x] = H[x]
      BY <1>8, <1>11, <2>1, <2>6, <2>10 DEF Short
    <3>2. c # s
      BY <1>4, <2>5, <2>10
    <3>3. CASE c = p
      <4>1. x = q /\ p # t.root
        <5>1. Shaped(t, S) /\ t.parent[t.root] = Null
          BY <1>2 DEF Shaped
        <5> QED
          BY <1>1, <1>4, <2>1, <2>5, <3>3, <5>1
      <4>2. g = f /\ Short(q2, f2, x, g) = 1
        BY <1>13, <2>4, <3>3, <4>1 DEF Short
      <4>3. High(H2, c) = High(H, c) - 1
        BY <1>4, <1>11, <3>3 DEF High
      <4> QED
        BY <2>1, <2>3, <2>4, <2>6, <3>1, <4>2, <4>3
    <3>4. CASE c # p
      <4>1. ~(x = q2 /\ g = f2)
        <5>1. ASSUME x = q2, g = f2 PROVE FALSE
          <6>1. p # t.root
            BY <2>1, <5>1
          <6> QED
            BY <1>7, <1>13, <2>4, <3>4, <5>1, <6>1
        <5> QED
          BY <5>1
      <4>2. Short(q2, f2, x, g) = 0
        BY <4>1 DEF Short
      <4>3. High(H2, c) = High(H, c)
        BY <1>11, <2>5, <3>2, <3>4 DEF High
      <4> QED
        BY <2>1, <2>3, <2>4, <2>6, <3>1, <4>2, <4>3
    <3> QED
      BY <3>3, <3>4
  <2> QED
    BY <2>8, <2>9, <2>10
<1>15. ~IsRed(u, u.root)
  <2>1. t.root # s
    <3>1. Shaped(t, S) /\ t.parent[t.root] = Null
      BY <1>2 DEF Shaped
    <3> QED
      BY <1>4, <3>1
  <2> QED
    BY <1>2, <1>7, <1>8, <2>1
<1>16. Erasing(u, S, H2, p, q)
  <2>1. CASE p = t.root
    <3>1. Levelled(u, M, H2, Null, "left")
      BY <1>14, <2>1 DEF Levelled
    <3> QED
      BY <1>1, <1>7, <1>11, <1>12, <2>1, <3>1 DEF Erasing
  <2>2. CASE p # t.root
    <3>1. Levelled(u, M, H2, q, f)
      BY <1>14, <2>2 DEF Levelled
    <3>2. Lacking(u, S, H2, p, q, f)
      BY <1>1, <1>7, <1>11, <1>12, <1>13, <1>15, <2>2, <3>1 DEF Lacking
    <3> QED
      BY <1>1, <1>7, <1>11, <1>12, <2>2, <3>2 DEF Erasing
  <2> QED
    BY <2>1, <2>2
<1> QED
  BY <1>1, <1>7, <1>16

\* Of the black sibling's children, only the near one is red.
NearRed(t, p, d, o, s, c) ==
  /\ o = Opposite(d) /\ s = t.link[o][p] /\ ~IsRed(t, s)
  /\ c = t.link[d][s] /\ IsRed(t, c) /\ ~IsRed(t, t.link[o][s])

\* It goes up between p and the sibling, which is the red far nephew then.
LEMMA EraseNears ==
  ASSUME NEW t, NEW S, NEW H, NEW n, NEW p, NEW d, Lacking(t, S, H, n, p, d), ~IsRed(t, n),
         NEW o, NEW s, NEW c, NearRed(t, p, d, o, s, c)
  PROVE  \E S2, H2 : LET u == Rotate(Paint(Paint(t, c, "black"), s, "red"), o, s)
                     IN  /\ Lacking(u, S2, H2, n, p, d) /\ ~IsRed(u, n)
                         /\ Sub(S2, u.root) = Sub(S, t.root)
                         /\ u.link[o][p] = c /\ ~IsRed(u, c) /\ u.link[o][c] = s /\ IsRed(u, s)
                         /\ u.color[p] = t.color[p]
<1>1. PICK M, v, S2, a, b, g, u :
        /\ M = Sub(S, t.root)
        /\ v = Paint(Paint(t, c, "black"), s, "red") /\ S2 = Turned(v, S, o, s)
        /\ u = Rotate(v, o, s)
        /\ a = t.link[d][c] /\ b = t.link[o][c] /\ g = t.link[o][s]
  OBVIOUS
<1>0. /\ o = Opposite(d) /\ s = t.link[o][p] /\ ~IsRed(t, s)
      /\ c = t.link[d][s] /\ IsRed(t, c) /\ ~IsRed(t, g)
  BY <1>1 DEF NearRed
<1>2. /\ Shaped(t, S) /\ t \in Trees /\ H \in [Nodes -> Nat] /\ p \in M /\ M \subseteq Nodes
      /\ d \in Sides /\ n = t.link[d][p] /\ t.root # Null /\ t.root \in M /\ ~IsRed(t, t.root)
      /\ \A x \in M : LevelAt(t, H, p, d, x) /\ CalmAt(t, n, n, x)
  BY <1>1, LackTypes
<1>3. HasSibling(t, H, M, n, p, d, o, s)
  BY <1>0, <1>1, LackSibling
<1>4. /\ o = Opposite(d) /\ o \in Sides /\ o # d /\ d = Opposite(o)
      /\ s = t.link[o][p] /\ s \in M /\ s \in Nodes /\ s # Null /\ s # p /\ s # n
      /\ t.parent[s] = p
      /\ n \in Links /\ n # p /\ n # t.root /\ p # Null /\ p \in Nodes
      /\ High(H, n) \in Nat /\ H[s] = High(H, n) + 1
  BY <1>3 DEF HasSibling
<1>5. Shaped(t, S)
  BY <1>2
<1>6. c # Null
  BY <1>0 DEF IsRed
<1>7. c \in M /\ c \in Nodes /\ c # s /\ t.parent[c] = s /\ c # p /\ g # c
  <2>1. c \in M /\ c \in Nodes /\ c # s /\ t.parent[c] = s
    <3>1. M = Sub(S, t.root) /\ s \in M /\ d \in Sides /\ c = t.link[d][s]
      BY <1>0, <1>1, <1>2, <1>4, Zenon
    <3> QED
      BY <1>5, <1>6, <3>1, ChildOf
  <2>2. c # p
    <3>1. M = Sub(S, t.root) /\ p \in M /\ o \in Sides /\ d \in Sides
      BY <1>1, <1>2, <1>4
    <3>2. s = t.link[o][p] /\ s # Null /\ c = t.link[d][s]
      BY <1>0, <1>4
    <3> QED
      BY <1>5, <3>1, <3>2, GrandChild
  <2>3. g # c
    BY <1>0, <1>1, <1>2, <1>4, <1>5, <1>6, OtherSide, Zenon
  <2> QED
    BY <2>1, <2>2, <2>3
<1>8. a \in Links /\ b \in Links /\ g \in Links /\ a # s /\ b # s /\ g # p
  <2>1. a # s /\ a \in Links
    <3>1. /\ Shaped(t, S) /\ s \in M /\ M = Sub(S, t.root) /\ d \in Sides /\ o \in Sides
          /\ c = t.link[d][s] /\ c # Null /\ a = t.link[d][c]
      BY <1>0, <1>1, <1>2, <1>4, <1>6, Zenon
    <3> QED
      BY <3>1, GrandChild
  <2>2. b # s /\ b \in Links
    <3>1. /\ Shaped(t, S) /\ s \in M /\ M = Sub(S, t.root) /\ d \in Sides /\ o \in Sides
          /\ c = t.link[d][s] /\ c # Null /\ b = t.link[o][c]
      BY <1>0, <1>1, <1>2, <1>4, <1>6, Zenon
    <3> QED
      BY <3>1, GrandChild
  <2>3. g # p /\ g \in Links
    <3>1. M = Sub(S, t.root) /\ p \in M /\ o \in Sides /\ d \in Sides
      BY <1>1, <1>2, <1>4
    <3>2. s = t.link[o][p] /\ s # Null /\ g = t.link[o][s]
      BY <1>1, <1>4
    <3> QED
      BY <1>5, <3>1, <3>2, GrandChild
  <2> QED
    BY <2>1, <2>2, <2>3
<1>9. /\ Shaped(v, S) /\ v \in Trees /\ v.root = t.root /\ v.link = t.link
      /\ v.parent = t.parent
      /\ \A x \in Nodes : v.color[x] = IF x = s THEN "red"
                                       ELSE IF x = c THEN "black" ELSE t.color[x]
  <2>1. PICK w : w = Paint(t, c, "black")
    OBVIOUS
  <2>2. "black" \in Colors /\ "red" \in Colors
    BY DEF Colors
  <2>3. IsPainted(w, t, S, c, "black")
    BY <1>5, <1>7, <2>1, <2>2, Painted
  <2>4. Shaped(w, S) /\ v = Paint(w, s, "red")
    BY <1>1, <2>1, <2>3 DEF IsPainted
  <2>5. IsPainted(v, w, S, s, "red")
    BY <1>4, <2>2, <2>4, Painted
  <2> QED
    BY <2>3, <2>5 DEF IsPainted
<1>10. /\ \A x \in Nodes : IsRed(v, x) <=> x = s \/ (IsRed(t, x) /\ x # c)
       /\ ~IsRed(v, Null)
  BY <1>4, <1>7, <1>9, LinksAre DEF IsRed
<1>11. CanTurn(v, S, M, o, d, s, c)
  BY <1>0, <1>1, <1>4, <1>6, <1>9, Zenon DEF CanTurn
<1>12. Shaped(u, S2) /\ Sub(S2, u.root) = M /\ LinksTurned(u, v, M, o, d, s, c)
  BY <1>1, <1>11, TurnDone
<1>13. /\ H[c] = High(H, a) /\ H[c] = High(H, b) /\ H[s] = H[c] + 1 /\ H[s] = High(H, g) + 1
       /\ H[c] \in Nat /\ H[s] \in Nat /\ High(H, g) \in Nat
  <2>1. LevelAt(t, H, p, d, s) /\ LevelAt(t, H, p, d, c)
    BY <1>2, <1>4, <1>7
  <2>2. /\ H[s] = High(H, c) + Short(p, d, s, d) + Blacks(t, s)
        /\ H[s] = High(H, g) + Short(p, d, s, o) + Blacks(t, s)
        /\ H[c] = High(H, a) + Short(p, d, c, d) + Blacks(t, c)
        /\ H[c] = High(H, b) + Short(p, d, c, o) + Blacks(t, c)
    BY <1>0, <1>1, <1>2, <1>4, <2>1, Zenon DEF LevelAt
  <2>3. /\ Short(p, d, s, d) = 0 /\ Short(p, d, s, o) = 0
        /\ Short(p, d, c, d) = 0 /\ Short(p, d, c, o) = 0
    BY <1>4, <1>7 DEF Short
  <2>4. Blacks(t, s) = 1 /\ Blacks(t, c) = 0
    BY <1>0, <1>2, <1>4, <1>7, ColorTypes
  <2>5. High(H, a) \in Nat /\ High(H, b) \in Nat /\ High(H, g) \in Nat /\ High(H, c) = H[c]
    BY <1>2, <1>7, <1>8, ColorTypes
  <2>6. H[c] \in Nat /\ H[s] \in Nat
    BY <1>2, <1>4, <1>7
  <2> QED
    BY <2>2, <2>3, <2>4, <2>5, <2>6
<1> DEFINE H2 == [H EXCEPT ![s] = H[c], ![c] = H[s]]
<1>14. /\ H2 \in [Nodes -> Nat] /\ H2[s] = H[c] /\ H2[c] = H[s]
       /\ \A x \in Nodes : x # s /\ x # c => H2[x] = H[x]
  BY <1>2, <1>4, <1>7, <1>13
<1> HIDE DEF H2
<1>15. Levelled(u, M, H2, p, d)
  <2>1. \A x \in M : x # s /\ x # c => H2[x] = H[x]
    BY <1>2, <1>14
  <2>2. ASSUME NEW x \in M, x # s, x # c PROVE LevelAt(v, H, p, d, x)
    <3>1. LevelAt(t, H, p, d, x) /\ x \in Nodes
      BY <1>2
    <3>2. Blacks(v, x) = Blacks(t, x)
      BY <1>9, <2>2, <3>1 DEF Blacks
    <3> QED
      BY <1>9, <3>1, <3>2 DEF LevelAt
  <2>3. Blacks(v, s) = 0 /\ Blacks(v, c) = 1
    BY <1>4, <1>7, <1>9 DEF Blacks
  <2>4. /\ Short(p, d, s, d) = 0 /\ Short(p, d, s, o) = 0
        /\ Short(p, d, c, d) = 0 /\ Short(p, d, c, o) = 0
    BY <1>4, <1>7 DEF Short
  <2>5. v.link[o][s] = g /\ v.link[o][c] = b /\ v.link[d][c] = a
    BY <1>1, <1>9
  <2>6. H2[s] = H[c] /\ H2[c] = H[c] + 1 /\ H[c] \in Nat /\ High(H, g) = H[c]
    BY <1>13, <1>14
  <2>7. /\ H2[s] = High(H, v.link[o][s]) + Short(p, d, s, o) + Blacks(v, s)
        /\ H2[s] = High(H, v.link[o][c]) + Short(p, d, s, d) + Blacks(v, s)
        /\ H2[c] = H2[s] + Short(p, d, c, o) + Blacks(v, c)
        /\ H2[c] = High(H, v.link[d][c]) + Short(p, d, c, d) + Blacks(v, c)
    <3>1. High(H, a) = H[c] /\ High(H, b) = H[c]
      BY <1>13
    <3> QED
      BY <2>3, <2>4, <2>5, <2>6, <3>1
  <2>8. LevelsTurn(v, M, H, p, d, H2, p, d, o, d, s, c)
    BY <1>2, <1>14, <2>1, <2>2, <2>7 DEF LevelsTurn
  <2> QED
    BY <1>1, <1>11, <2>8, RotateLevels
<1>16. ~IsRed(v, a) /\ ~IsRed(v, b) /\ ~IsRed(v, g) /\ ~IsRed(v, n)
  <2>1. CalmAt(t, n, n, c)
    BY <1>2, <1>7
  <2>2. CalmAt(t, Null, Null, c)
    BY <2>1, LackCalm
  <2>3. ASSUME NEW f \in Sides, NEW x, x = t.link[f][c] PROVE ~IsRed(t, x)
    <3>1. CASE x = Null
      BY <3>1 DEF IsRed
    <3>2. CASE x # Null
      <4>1. CalmAt(t, Null, Null, c) /\ f \in Sides /\ x = t.link[f][c] /\ IsRed(t, c) /\ x # Null /\ c # Null
        BY <1>0, <1>6, <2>2, <2>3, <3>2
      <4> QED
        BY <4>1, CalmChild
    <3> QED
      BY <3>1, <3>2
  <2>4. ~IsRed(t, a) /\ ~IsRed(t, b) /\ ~IsRed(t, g)
    BY <1>0, <1>1, <1>2, <1>4, <2>3, Zenon
  <2>5. g # s
    BY <1>1, <1>4, <1>5, <1>8, ChildOf
  <2> QED
    BY <1>4, <1>8, <1>10, <2>4, <2>5, LinksAre
<1>17. Calm(u, M, n, n)
  <2>1. ASSUME NEW m \in M, NEW f \in Sides, m # s, m # c, v.link[f][m] # s,
               IsRed(v, m), IsRed(v, v.link[f][m])
        PROVE  FALSE
    <3>1. CalmAt(t, n, n, m) /\ m \in Nodes
      BY <1>2
    <3>2. CalmAt(t, Null, Null, m)
      BY <3>1, LackCalm
    <3>3. IsRed(t, m) /\ m # Null
      BY <1>10, <2>1, <3>1, LinksAre
    <3>4. t.link[f][m] # Null
      BY <1>9, <2>1 DEF IsRed
    <3>5. t.link[f][m] \in Nodes
      BY <1>1, <1>5, <3>4, ChildOf
    <3>6. IsRed(t, t.link[f][m])
      BY <1>9, <1>10, <2>1, <3>5
    <3> QED
      BY <3>2, <3>3, <3>4, <3>6 DEF CalmAt
  <2>2. ~IsRed(v, c)
    BY <1>7, <1>10
  <2>3. ~IsRed(v, v.link[o][s]) /\ ~IsRed(v, v.link[o][c])
    BY <1>1, <1>9, <1>16
  <2>4. CalmTurns(v, M, n, n, o, d, s, c)
    BY <2>1, <2>2, <2>3 DEF CalmTurns
  <2> QED
    BY <1>1, <1>11, <2>4, RotateCalm
<1>18. /\ u.color = v.color /\ u.root = t.root
       /\ u.link[d][p] = n /\ u.link[o][p] = c /\ u.link[o][c] = s
  <2>1. s # t.root
    <3>1. t.parent[t.root] = Null
      BY <1>2, <1>5 DEF Shaped
    <3> QED
      BY <1>4, <3>1
  <2> QED
    <3>1. u.color = v.color /\ u.root = t.root /\ u.link[o][c] = s
      BY <1>9, <1>12, <2>1 DEF LinksTurned
    <3>2. /\ u.link[d][p] = IF t.link[d][p] = s THEN c ELSE t.link[d][p]
          /\ u.link[o][p] = IF t.link[o][p] = s THEN c ELSE t.link[o][p]
      <4>1. p \in M /\ p # s /\ p # c /\ d \in Sides /\ o \in Sides /\ v.link = t.link
        BY <1>2, <1>4, <1>7, <1>9
      <4> QED
        BY <1>12, <4>1 DEF LinksTurned
    <3> QED
      BY <1>2, <1>4, <3>1, <3>2
<1>19. \A x : IsRed(u, x) <=> IsRed(v, x)
  BY <1>18 DEF IsRed
<1>20. ~IsRed(u, u.root)
  <2>1. t.root # s
    <3>1. t.parent[t.root] = Null
      BY <1>2, <1>5 DEF Shaped
    <3> QED
      BY <1>4, <3>1
  <2> QED
    BY <1>2, <1>10, <1>18, <1>19, <2>1
<1>21. Lacking(u, S2, H2, n, p, d)
  BY <1>2, <1>12, <1>14, <1>15, <1>17, <1>18, <1>20 DEF Lacking
<1>22. ~IsRed(u, n) /\ ~IsRed(u, c) /\ IsRed(u, s) /\ u.color[p] = t.color[p]
  BY <1>4, <1>7, <1>9, <1>10, <1>16, <1>18, <1>19
<1> QED
  BY <1>1, <1>12, <1>18, <1>21, <1>22

\* The far child of the black sibling is red.
FarRed(t, p, d, o, s, g) ==
  o = Opposite(d) /\ s = t.link[o][p] /\ ~IsRed(t, s) /\ g = t.link[o][s] /\ IsRed(t, g)

\* The sibling goes up with the colour of p; nothing is lacking then.
LEMMA EraseFars ==
  ASSUME NEW t, NEW S, NEW H, NEW n, NEW p, NEW d, Lacking(t, S, H, n, p, d), ~IsRed(t, n),
         NEW o, NEW s, NEW g, FarRed(t, p, d, o, s, g)
  PROVE  \E S2, H2 :
           LET u == Rotate(Paint(Paint(Paint(t, s, t.color[p]), p, "black"), g, "black"), d, p)
           IN  /\ Erasing(u, S2, H2, u.root, p) /\ Sub(S2, u.root) = Sub(S, t.root)
               /\ ~IsRed(u, u.root)
<1>1. PICK M, v, S2, b, u :
        /\ M = Sub(S, t.root)
        /\ v = Paint(Paint(Paint(t, s, t.color[p]), p, "black"), g, "black")
        /\ S2 = Turned(v, S, d, p) /\ u = Rotate(v, d, p) /\ b = t.link[d][s]
  OBVIOUS
<1>0. o = Opposite(d) /\ s = t.link[o][p] /\ ~IsRed(t, s) /\ g = t.link[o][s] /\ IsRed(t, g)
  BY DEF FarRed
<1>2. /\ Shaped(t, S) /\ t \in Trees /\ H \in [Nodes -> Nat] /\ p \in M /\ M \subseteq Nodes
      /\ d \in Sides /\ n = t.link[d][p] /\ t.root # Null /\ t.root \in M /\ ~IsRed(t, t.root)
      /\ \A x \in M : LevelAt(t, H, p, d, x) /\ CalmAt(t, n, n, x)
  BY <1>1, LackTypes
<1>3. HasSibling(t, H, M, n, p, d, o, s)
  BY <1>0, <1>1, LackSibling
<1>4. /\ o = Opposite(d) /\ o \in Sides /\ o # d /\ d = Opposite(o)
      /\ s = t.link[o][p] /\ s \in M /\ s \in Nodes /\ s # Null /\ s # p /\ s # n
      /\ t.parent[s] = p
      /\ n \in Links /\ n # p /\ n # t.root /\ p # Null /\ p \in Nodes
      /\ High(H, n) \in Nat /\ H[s] = High(H, n) + 1 /\ H[p] = H[s] + Blacks(t, p)
  BY <1>3 DEF HasSibling
<1>5. Shaped(t, S) /\ t.parent[t.root] = Null
  <2>1. Shaped(t, S) /\ t.root # Null
    BY <1>2
  <2> QED
    BY <2>1 DEF Shaped
<1>6. g # Null
  BY <1>0 DEF IsRed
<1>7. g \in M /\ g \in Nodes /\ g # s /\ t.parent[g] = s /\ g # p /\ b # g /\ b \in Links /\ b # p
  <2>0. M = Sub(S, t.root) /\ s \in M /\ o \in Sides /\ g = t.link[o][s]
    BY <1>0, <1>1, <1>4
  <2>1. g \in M /\ g \in Nodes /\ g # s /\ t.parent[g] = s
    BY <1>5, <1>6, <2>0, ChildOf
  <2>2. g # p
    <3>1. /\ Shaped(t, S) /\ p \in M /\ M = Sub(S, t.root) /\ o \in Sides /\ s = t.link[o][p]
          /\ s # Null /\ g = t.link[o][s]
      BY <1>2, <1>4, <2>0
    <3> QED
      BY <3>1, GrandChild
  <2>3. b # g
    <3>1. t.link[d][s] # g
      <4>1. Shaped(t, S) /\ d = Opposite(o) /\ o \in Sides
        BY <1>4, <1>5
      <4>2. s \in Sub(S, t.root) /\ t.link[o][s] # Null
        BY <1>6, <2>0
      <4>3. t.link[Opposite(o)][s] # t.link[o][s]
        BY <4>1, <4>2, NodeSides
      <4> QED
        BY <2>0, <4>1, <4>3
    <3> QED
      BY <1>1, <3>1
  <2>4. b # p /\ b \in Links
    <3>1. /\ Shaped(t, S) /\ p \in M /\ M = Sub(S, t.root) /\ o \in Sides /\ s = t.link[o][p]
          /\ s # Null /\ d \in Sides /\ b = t.link[d][s]
      BY <1>1, <1>2, <1>4
    <3> QED
      BY <3>1, GrandChild
  <2> QED
    BY <2>1, <2>2, <2>3, <2>4
<1>8. n # g
  BY <1>0
<1>9. /\ Shaped(v, S) /\ v \in Trees /\ v.root = t.root /\ v.link = t.link
      /\ v.parent = t.parent
      /\ \A x \in Nodes : v.color[x] = IF x = g \/ x = p THEN "black"
                                       ELSE IF x = s THEN t.color[p] ELSE t.color[x]
  <2>1. PICK w, z : w = Paint(t, s, t.color[p]) /\ z = Paint(w, p, "black")
    OBVIOUS
  <2>2. "black" \in Colors /\ t.color[p] \in Colors
    <3>1. t \in Trees /\ p \in Nodes
      BY <1>2, <1>4
    <3> QED
      BY <3>1 DEF Colors, Trees
  <2>3. IsPainted(w, t, S, s, t.color[p])
    BY <1>4, <1>5, <2>1, <2>2, Painted
  <2>4. Shaped(w, S)
    BY <2>3 DEF IsPainted
  <2>5. IsPainted(z, w, S, p, "black")
    BY <1>4, <2>1, <2>2, <2>4, Painted
  <2>6. Shaped(z, S) /\ v = Paint(z, g, "black")
    BY <1>1, <2>1, <2>5 DEF IsPainted
  <2>7. IsPainted(v, z, S, g, "black")
    BY <1>7, <2>2, <2>6, Painted
  <2> QED
    BY <2>3, <2>5, <2>7 DEF IsPainted
<1>10. /\ \A x \in Nodes : IsRed(v, x) <=> x # g /\ x # p /\ (IF x = s THEN IsRed(t, p)
              ELSE IsRed(t, x))
       /\ ~IsRed(v, Null)
  BY <1>4, <1>7, <1>9, LinksAre DEF IsRed
<1>11. CanTurn(v, S, M, d, o, p, s)
  BY <1>1, <1>2, <1>4, <1>9 DEF CanTurn
<1>12. Shaped(u, S2) /\ Sub(S2, u.root) = M /\ LinksTurned(u, v, M, d, o, p, s)
  BY <1>1, <1>11, TurnDone
<1>13. /\ H[s] = High(H, n) + 1 /\ H[s] = High(H, b) + 1 /\ H[s] = H[g] + 1
       /\ H[p] = H[s] + Blacks(t, p)
       /\ H[s] \in Nat /\ H[g] \in Nat /\ H[p] \in Nat /\ High(H, b) \in Nat
       /\ Blacks(t, p) \in {0, 1}
  <2>1. LevelAt(t, H, p, d, s)
    BY <1>2, <1>4
  <2>2. /\ H[s] = High(H, b) + Short(p, d, s, d) + Blacks(t, s)
        /\ H[s] = High(H, g) + Short(p, d, s, o) + Blacks(t, s)
    BY <1>0, <1>1, <1>2, <1>4, <2>1 DEF LevelAt
  <2>3. Short(p, d, s, d) = 0 /\ Short(p, d, s, o) = 0
    BY <1>4 DEF Short
  <2>4. Blacks(t, s) = 1 /\ Blacks(t, p) \in {0, 1}
    BY <1>0, <1>2, <1>4, ColorTypes
  <2>5. High(H, b) \in Nat /\ High(H, g) = H[g]
    BY <1>2, <1>7, ColorTypes
  <2>6. H[s] \in Nat /\ H[g] \in Nat /\ H[p] \in Nat
    BY <1>2, <1>4, <1>7
  <2> QED
    BY <1>4, <2>2, <2>3, <2>4, <2>5, <2>6
<1> DEFINE H1 == [H EXCEPT ![g] = H[g] + 1]
           H2 == [H1 EXCEPT ![p] = H[s], ![s] = H[p]]
<1>14. /\ H1 \in [Nodes -> Nat] /\ H1[g] = H[g] + 1
       /\ \A x \in Nodes : x # g => H1[x] = H[x]
  BY <1>2, <1>7, <1>13
<1> HIDE DEF H1
<1>15. /\ H2 \in [Nodes -> Nat] /\ H2[p] = H[s] /\ H2[s] = H[p]
       /\ \A x \in Nodes : x # p /\ x # s => H2[x] = H1[x]
  BY <1>4, <1>13, <1>14
<1> HIDE DEF H2
<1>16. Levelled(u, M, H2, Null, "left")
  <2>1. \A x \in M : x # p /\ x # s => H2[x] = H1[x]
    BY <1>2, <1>15
  <2>2. ASSUME NEW x \in M, x # p, x # s PROVE LevelAt(v, H1, p, d, x)
    <3>1. LevelAt(t, H, p, d, x) /\ x \in Nodes
      BY <1>2
    <3>2. SUFFICES ASSUME NEW f \in Sides
                   PROVE  H1[x] = High(H1, t.link[f][x]) + Short(p, d, x, f) + Blacks(v, x)
      BY <1>9 DEF LevelAt
    <3>3. H[x] = High(H, t.link[f][x]) + Short(p, d, x, f) + Blacks(t, x)
      BY <3>1 DEF LevelAt
    <3>4. PICK c : c = t.link[f][x]
      OBVIOUS
    <3>5. c = Null \/ (c \in Nodes /\ t.parent[c] = x)
      BY <1>1, <1>5, <3>4, ChildOf
    <3>6. c # g
      BY <1>7, <1>6, <2>2, <3>5
    <3>7. High(H1, c) = High(H, c)
      BY <1>14, <3>5, <3>6 DEF High
    <3>8. CASE x = g
      <4>1. Blacks(v, x) = 1 /\ Blacks(t, x) = 0 /\ H1[x] = H[x] + 1
        BY <1>0, <1>9, <1>14, <3>1, <3>8 DEF Blacks, IsRed
      <4>2. Short(p, d, x, f) = 0 /\ H[x] \in Nat
        BY <1>2, <2>2, <3>1 DEF Short
      <4>3. High(H, c) \in Nat
        <5>1. c \in Links
          BY <3>5, LinksAre
        <5> QED
          BY <1>2, <5>1, ColorTypes
      <4> QED
        BY <3>3, <3>4, <3>7, <4>1, <4>2, <4>3
    <3>9. CASE x # g
      <4>1. Blacks(v, x) = Blacks(t, x) /\ H1[x] = H[x]
        BY <1>9, <1>14, <2>2, <3>1, <3>9 DEF Blacks
      <4> QED
        BY <3>3, <3>4, <3>7, <4>1
    <3> QED
      BY <3>8, <3>9
  <2>3. Blacks(v, p) = 1 /\ Blacks(v, s) = Blacks(t, p)
    BY <1>4, <1>7, <1>9 DEF Blacks
  <2>4. /\ Short(Null, "left", p, d) = 0 /\ Short(Null, "left", p, o) = 0
        /\ Short(Null, "left", s, d) = 0 /\ Short(Null, "left", s, o) = 0
    BY <1>2, <1>4, ColorTypes
  <2>5. v.link[d][p] = n /\ v.link[d][s] = b /\ v.link[o][s] = g
    BY <1>0, <1>1, <1>2, <1>9, Zenon
  <2>6. High(H1, n) = High(H, n) /\ High(H1, b) = High(H, b) /\ High(H1, g) = H[g] + 1
    BY <1>4, <1>6, <1>7, <1>8, <1>14, LinksAre DEF High
  <2>7. /\ H2[p] = H[s] /\ H2[s] = H[s] + Blacks(t, p) /\ H[s] \in Nat
        /\ High(H1, n) + 1 = H[s] /\ High(H1, b) + 1 = H[s] /\ High(H1, g) = H[s]
        /\ Blacks(t, p) \in {0, 1} /\ High(H1, n) \in Nat /\ High(H1, b) \in Nat
    BY <1>4, <1>13, <1>15, <2>6
  <2>8. /\ H2[p] = High(H1, v.link[d][p]) + Short(Null, "left", p, d) + Blacks(v, p)
        /\ H2[p] = High(H1, v.link[d][s]) + Short(Null, "left", p, o) + Blacks(v, p)
        /\ H2[s] = H2[p] + Short(Null, "left", s, d) + Blacks(v, s)
        /\ H2[s] = High(H1, v.link[o][s]) + Short(Null, "left", s, o) + Blacks(v, s)
    BY <2>3, <2>4, <2>5, <2>7
  <2>9. H2[s] = H1[p]
    BY <1>4, <1>7, <1>14, <1>15
  <2>10. LevelsTurn(v, M, H1, p, d, H2, Null, "left", d, o, p, s)
    BY <1>14, <1>15, <2>1, <2>2, <2>8, <2>9 DEF LevelsTurn
  <2> QED
    BY <1>1, <1>11, <2>10, RotateLevels
<1>17. Calm(u, M, Null, Null)
  <2>0. ASSUME NEW m \in M PROVE CalmAt(t, Null, Null, m) /\ m \in Nodes /\ m # Null
    <3>1. CalmAt(t, n, n, m) /\ m \in Nodes
      BY <1>2
    <3>2. CalmAt(t, Null, Null, m)
      BY <3>1, LackCalm
    <3> QED
      BY <3>1, <3>2, LinksAre
  <2>1. ASSUME NEW m \in M, NEW f \in Sides, m # p, m # s, v.link[f][m] # p,
               IsRed(v, m), IsRed(v, v.link[f][m])
        PROVE  FALSE
    <3>1. CalmAt(t, Null, Null, m) /\ m \in Nodes /\ m # Null
      BY <2>0
    <3>2. IsRed(t, m)
      BY <1>10, <2>1, <3>1
    <3>3. t.link[f][m] # Null
      BY <1>9, <2>1 DEF IsRed
    <3>4. t.link[f][m] \in Nodes /\ t.parent[t.link[f][m]] = m
      BY <1>1, <1>5, <3>3, ChildOf
    <3>5. t.link[f][m] # s
      BY <1>4, <2>1, <3>4
    <3>6. IsRed(t, t.link[f][m])
      BY <1>9, <1>10, <2>1, <3>4, <3>5
    <3> QED
      BY <3>1, <3>2, <3>3, <3>6 DEF CalmAt
  <2>2. ~IsRed(v, p) /\ ~IsRed(v, g)
    BY <1>4, <1>7, <1>10
  <2>3. ~IsRed(v, v.link[o][s])
    BY <1>0, <1>9, <2>2
  <2>4. p # t.root => ~(IsRed(v, v.parent[p]) /\ IsRed(v, s))
    <3>1. SUFFICES ASSUME p # t.root, IsRed(v, v.parent[p]), IsRed(v, s) PROVE FALSE
      OBVIOUS
    <3>2. PICK m : m = t.parent[p]
      OBVIOUS
    <3>3. p \in Sub(S, t.root)
      BY <1>1, <1>2
    <3>4. m \in M /\ \E f \in Sides : t.link[f][m] = p
      BY <1>1, <1>5, <3>1, <3>2, <3>3, ParentFacts
    <3>5. PICK f \in Sides : t.link[f][m] = p
      BY <3>4
    <3>6. m # s
      <4>1. M = Sub(S, t.root) /\ m \in M /\ p = t.link[f][m] /\ p # Null /\ o \in Sides
            /\ s = t.link[o][p]
        BY <1>1, <1>4, <3>4, <3>5
      <4>2. s # m
        BY <1>5, <4>1, GrandChild
      <4> QED
        BY <4>2
    <3>7. CalmAt(t, Null, Null, m) /\ m \in Nodes /\ m # Null
      BY <2>0, <3>4
    <3>8. IsRed(t, m) /\ IsRed(t, p)
      BY <1>4, <1>9, <1>10, <3>1, <3>2, <3>6, <3>7
    <3> QED
      BY <1>4, <3>5, <3>7, <3>8 DEF CalmAt
  <2>5. CalmTurns(v, M, Null, Null, d, o, p, s)
    BY <2>1, <2>2, <2>3, <2>4, <1>9 DEF CalmTurns
  <2> QED
    BY <1>1, <1>11, <2>5, RotateCalm
<1>18. Calm(u, M, u.root, u.root)
  BY <1>17, <1>1 DEF Calm, CalmAt, IsRed
<1>19. ~IsRed(u, u.root)
  <2>1. u.color = v.color /\ u.root = IF p = t.root THEN s ELSE t.root
    BY <1>9, <1>12 DEF LinksTurned
  <2>2. t.root # s /\ t.root \in Nodes
    BY <1>2, <1>4, <1>5
  <2>3. ~IsRed(v, u.root)
    BY <1>2, <1>4, <1>10, <2>1, <2>2
  <2> QED
    BY <2>1, <2>3 DEF IsRed
<1>20. Erasing(u, S2, H2, u.root, p)
  BY <1>12, <1>15, <1>16, <1>18 DEF Erasing
<1> QED
  BY <1>1, <1>12, <1>19, <1>20

\* One turn of the loop of __rb_erase_color
LEMMA EraseTurns ==
  ASSUME NEW t, NEW S, NEW H, NEW n, NEW p, NEW d, Lacking(t, S, H, n, p, d), ~IsRed(t, n),
         NEW w, w = EraseSibling(t, n, p)
  PROVE  \E S2, H2 :
           IF BothNephewsBlack(w, n, p)
           THEN LET u == EraseRecolor(w, n, p)
                IN  /\ Erasing(u, S2, H2, p, w.parent[p]) /\ Sub(S2, u.root) = Sub(S, t.root)
           ELSE LET u == EraseRotate(w, n, p)
                IN  /\ Erasing(u, S2, H2, u.root, p) /\ Sub(S2, u.root) = Sub(S, t.root)
<1>1. PICK M, o : M = Sub(S, t.root) /\ o = Opposite(d)
  OBVIOUS
<1>2. PICK S1, H1 : /\ Lacking(w, S1, H1, n, p, d) /\ ~IsRed(w, n)
                    /\ Sub(S1, w.root) = M /\ ~IsRed(w, w.link[o][p])
  BY <1>1, EraseSiblings
<1>3. PICK s, c, g : s = w.link[o][p] /\ c = w.link[d][s] /\ g = w.link[o][s]
  OBVIOUS
<1>4. HasSibling(w, H1, M, n, p, d, o, s)
  BY <1>1, <1>2, <1>3, LackSibling
<1>5. SideOf(w, p, n) = d /\ p \in M
  BY <1>1, <1>2, <1>4, LackTypes DEF HasSibling
<1>6. CASE BothNephewsBlack(w, n, p)
  <2>1. ~IsRed(w, w.link[Opposite(d)][p])
    BY <1>1, <1>2
  <2>2. PICK H2 : LET u == EraseRecolor(w, n, p)
                  IN  u.root = w.root /\ Erasing(u, S1, H2, p, w.parent[p])
                      /\ u.parent[p] = w.parent[p]
    BY <1>2, <1>6, <2>1, EraseRecolors
  <2> QED
    BY <1>1, <1>2, <1>6, <2>2
<1>7. CASE ~BothNephewsBlack(w, n, p)
  <2>1. IsRed(w, c) \/ IsRed(w, g)
    <3>1. d \in Sides
      BY <1>2, Zenon DEF Lacking
    <3>2. PICK f \in Sides : IsRed(w, w.link[f][s])
      BY <1>1, <1>3, <1>5, <1>7 DEF BothNephewsBlack
    <3> QED
      BY <1>1, <1>3, <3>1, <3>2, OppositeFacts
  <2>2. CASE IsRed(w, g)
    <3>1. FarRed(w, p, d, o, s, g)
      BY <1>1, <1>2, <1>3, <2>2 DEF FarRed
    <3>2. PICK u : u = Rotate(Paint(Paint(Paint(w, s, w.color[p]), p, "black"), g, "black"), d, p)
      OBVIOUS
    <3>3. u = EraseRotate(w, n, p)
      BY <1>1, <1>3, <1>5, <2>2, <3>2 DEF EraseRotate
    <3>4. PICK S2, H2 : Erasing(u, S2, H2, u.root, p) /\ Sub(S2, u.root) = Sub(S1, w.root)
      BY <1>2, <3>1, <3>2, EraseFars
    <3> QED
      BY <1>1, <1>2, <1>7, <3>3, <3>4
  <2>3. CASE ~IsRed(w, g)
    <3>1. NearRed(w, p, d, o, s, c)
      BY <1>1, <1>2, <1>3, <2>1, <2>3 DEF NearRed
    <3>2. PICK z : z = Rotate(Paint(Paint(w, c, "black"), s, "red"), o, s)
      OBVIOUS
    <3>3. PICK S3, H3 : /\ Lacking(z, S3, H3, n, p, d) /\ ~IsRed(z, n)
                        /\ Sub(S3, z.root) = Sub(S1, w.root)
                        /\ z.link[o][p] = c /\ ~IsRed(z, c) /\ z.link[o][c] = s /\ IsRed(z, s)
                        /\ z.color[p] = w.color[p]
      BY <1>2, <3>1, <3>2, EraseNears
    <3>4. FarRed(z, p, d, o, c, s)
      BY <1>1, <3>3 DEF FarRed
    <3>5. PICK u : u = Rotate(Paint(Paint(Paint(z, c, z.color[p]), p, "black"), s, "black"), d, p)
      OBVIOUS
    <3>6. u = EraseRotate(w, n, p)
      <4>1. /\ SideOf(w, p, n) = d /\ Opposite(d) = o /\ w.link[o][p] = s /\ w.link[d][s] = c
            /\ ~IsRed(w, w.link[o][s])
            /\ z.link[o][p] = c /\ z.link[o][c] = s /\ z.color[p] = w.color[p]
        BY <1>1, <1>3, <1>5, <2>3, <3>3
      <4> QED
        BY <3>2, <3>5, <4>1 DEF EraseRotate
    <3>7. PICK S2, H2 : Erasing(u, S2, H2, u.root, p) /\ Sub(S2, u.root) = Sub(S3, z.root)
      BY <3>3, <3>4, <3>5, EraseFars
    <3> QED
      BY <1>1, <1>2, <1>7, <3>3, <3>6, <3>7
  <2> QED
    BY <2>2, <2>3
<1> QED
  BY <1>6, <1>7

-----------------------------------------------------------------------------
(* Walks down the tree. *)

\* A walk that ends at the last node exists.
LEMMA PlainWalk ==
  ASSUME NEW F \in [Nodes -> Nodes \cup {Null}]
  PROVE  \E g : g = [m \in Nodes |-> IF F[m] = Null THEN m ELSE g[F[m]]]
<1> DEFINE V == [m \in Nodes |-> m]
<1>1. PICK g : g = [m \in Nodes |-> IF F[m] = Null THEN V[m] ELSE g[F[m]]]
  <2> HIDE DEF V
  <2> QED
    BY WalkExists
<1>2. \A m \in Nodes : V[m] = m
  OBVIOUS
<1> HIDE DEF V
<1>3. g = [m \in Nodes |-> IF F[m] = Null THEN m ELSE g[F[m]]]
  BY <1>1, <1>2
<1> QED
  BY <1>3

IsOutermost(t, S, d, n, y) ==
  /\ y \in S[n] /\ t.link[d][y] = Null
  /\ \A m \in S[n] : m # y => Beyond(Opposite(d), Key[m], Key[y])

\* Outermost is the node beyond all others on its side.
LEMMA OutermostIs ==
  ASSUME NEW t, NEW S, Shaped(t, S), NEW n \in Sub(S, t.root), NEW d \in Sides
  PROVE  IsOutermost(t, S, d, n, Outermost(t, d, n))
<1> DEFINE go[m \in Nodes] == IF t.link[d][m] = Null THEN m ELSE go[t.link[d][m]]
<1>1. Outermost(t, d, n) = go[n]
  BY DEF Outermost
<1>2. \A m \in Nodes : go[m] = IF t.link[d][m] = Null THEN m ELSE go[t.link[d][m]]
  <2>1. t.link[d] \in [Nodes -> Nodes \cup {Null}]
    BY DEF Shaped, Trees
  <2>2. \E g : g = [m \in Nodes |-> IF t.link[d][m] = Null THEN m ELSE g[t.link[d][m]]]
    BY <2>1, PlainWalk
  <2>5. go = [m \in Nodes |-> IF t.link[d][m] = Null THEN m ELSE go[t.link[d][m]]]
    BY <2>2
  <2> HIDE DEF go
  <2> QED
    BY <2>5
<1> HIDE DEF go
<1> DEFINE M == Sub(S, t.root)
           X == {k \in M : ~IsOutermost(t, S, d, k, go[k])}
<1>3. SUFFICES X = {}
  BY <1>1
<1>4. SUFFICES ASSUME X # {} PROVE FALSE
  OBVIOUS
<1>5. X \in SUBSET Nodes
  BY SubType
<1>6. PICK k \in X : \A l \in X : S[l] \subseteq S[k] => k \in S[l]
  <2> HIDE DEF X
  <2> QED
    BY <1>4, <1>5, Smallest
<1>7. k \in Nodes /\ k \in M /\ k \in S[k]
  BY <1>5, <1>6, SubType
<1>8. CASE t.link[d][k] = Null
  <2>1. go[k] = k
    BY <1>2, <1>7, <1>8
  <2>2. ASSUME NEW m \in S[k], m # k PROVE Beyond(Opposite(d), Key[m], Key[k])
    <3>1. PICK f \in Sides : t.link[f][k] # Null /\ m \in S[t.link[f][k]]
      BY <1>7, <2>2, NodeSides
    <3>2. f = Opposite(d)
      BY <1>8, <3>1, OppositeFacts
    <3>3. Beyond(f, Key[m], Key[k])
      BY <1>7, <3>1, ChildFacts
    <3> QED
      BY <3>2, <3>3
  <2> QED
    BY <1>6, <1>7, <1>8, <2>1, <2>2 DEF IsOutermost
<1>9. CASE t.link[d][k] # Null
  <2>1. PICK c : c = t.link[d][k]
    OBVIOUS
  <2>2. go[k] = go[c]
    BY <1>2, <1>7, <1>9, <2>1
  <2>3. /\ c \in M /\ S[c] \subseteq S[k] /\ k \notin S[c]
        /\ \A m \in S[c] : Beyond(d, Key[m], Key[k])
    BY <1>7, <1>9, <2>1, ChildFacts
  <2>4. c \notin X
    BY <1>6, <2>3
  <2>5. IsOutermost(t, S, d, c, go[c])
    BY <2>3, <2>4
  <2>6. PICK y : y = go[c]
    OBVIOUS
  <2>7. /\ y \in S[c] /\ t.link[d][y] = Null
        /\ \A m \in S[c] : m # y => Beyond(Opposite(d), Key[m], Key[y])
    BY <2>5, <2>6 DEF IsOutermost
  <2>8. Beyond(Opposite(d), Key[k], Key[y])
    <3>1. y \in Nodes /\ Key[y] \in Int /\ Key[k] \in Int
      BY <1>7, <2>3, <2>7, SubType DEF Shaped
    <3> QED
      BY <2>3, <2>7, <3>1, BeyondFacts
  <2>9. ASSUME NEW m \in S[k], m # y PROVE Beyond(Opposite(d), Key[m], Key[y])
    <3>1. CASE m = k
      BY <2>8, <3>1
    <3>2. CASE m # k
      <4>1. PICK f \in Sides : t.link[f][k] # Null /\ m \in S[t.link[f][k]]
        BY <1>7, <3>2, NodeSides
      <4>2. CASE f = d
        BY <2>1, <2>7, <2>9, <4>1, <4>2
      <4>3. CASE f = Opposite(d)
        <5>1. Beyond(Opposite(d), Key[m], Key[k])
          BY <1>7, <4>1, <4>3, ChildFacts
        <5>2. Key[m] \in Int /\ Key[y] \in Int /\ Key[k] \in Int /\ Opposite(d) \in Sides
          <6>1. m \in Nodes /\ y \in Nodes /\ Opposite(d) \in Sides
            BY <1>7, <2>3, <2>7, OppositeFacts DEF Shaped
          <6> QED
            BY <1>7, <6>1, SubType
        <5> QED
          BY <2>8, <5>1, <5>2, BeyondFacts
      <4> QED
        BY <4>1, <4>2, <4>3, OppositeFacts
    <3> QED
      BY <3>1, <3>2
  <2>10. IsOutermost(t, S, d, k, y)
    BY <2>3, <2>7, <2>9 DEF IsOutermost
  <2> QED
    BY <1>6, <2>2, <2>6, <2>10
<1> QED
  BY <1>8, <1>9

-----------------------------------------------------------------------------
(* table_add: a new leaf. *)

IsLinked(u, t, n, p, d) ==
  /\ u \in Trees
  /\ u.root = IF p = Null THEN n ELSE t.root
  /\ \A f \in Sides, x \in Nodes :
       u.link[f][x] = IF x = n THEN Null ELSE IF x = p /\ f = d THEN n ELSE t.link[f][x]
  /\ \A x \in Nodes : u.parent[x] = IF x = n THEN p ELSE t.parent[x]
  /\ \A x \in Nodes : u.color[x] = IF x = n THEN "red" ELSE t.color[x]

\* What ks_rb_link_node does, field by field.
LEMMA Linked ==
  ASSUME NEW t \in Trees, NEW n \in Nodes, NEW p \in Links, p # n, NEW d \in Sides
  PROVE  IsLinked(LinkNode(t, n, p, d), t, n, p, d)
<1>1. PICK v : v = IF p = Null THEN [t EXCEPT !.root = n] ELSE [t EXCEPT !.link[d][p] = n]
  OBVIOUS
<1>2. /\ v \in Trees /\ v.parent = t.parent /\ v.color = t.color
      /\ v.root = IF p = Null THEN n ELSE t.root
      /\ \A f \in Sides, x \in Nodes : v.link[f][x] = IF x = p /\ f = d THEN n ELSE t.link[f][x]
  <2>1. CASE p = Null
    BY <1>1, <2>1, LinksAre DEF Trees
  <2>2. CASE p # Null
    <3>1. p \in Nodes /\ n \in Links
      BY <2>2, LinksAre
    <3>2. v = [t EXCEPT !.link[d][p] = n]
      BY <1>1, <2>2
    <3> QED
      BY <2>2, <3>1, <3>2, LinkFields
  <2> QED
    BY <2>1, <2>2
<1>3. PICK w : w = Clear(v, n)
  OBVIOUS
<1>4. /\ w \in Trees /\ w.root = v.root
      /\ \A f \in Sides, x \in Nodes : w.link[f][x] = IF x = n THEN Null ELSE v.link[f][x]
      /\ \A x \in Nodes : w.parent[x] = IF x = n THEN Null ELSE v.parent[x]
      /\ \A x \in Nodes : w.color[x] = IF x = n THEN "red" ELSE v.color[x]
  <2>1. v \in Trees /\ n \in Nodes
    BY <1>2
  <2> QED
    BY <1>3, <2>1, ClearFields
<1>5. PICK u : u = SetParent(w, n, p)
  OBVIOUS
<1>6. /\ u \in Trees /\ u.root = w.root /\ u.link = w.link /\ u.color = w.color
      /\ \A x \in Nodes : u.parent[x] = IF x = n THEN p ELSE w.parent[x]
  <2>1. n \in Links
    BY LinksAre
  <2> QED
    BY <1>4, <1>5, <2>1, SetParentFields
<1>7. LinkNode(t, n, p, d) = u
  BY <1>1, <1>3, <1>5 DEF LinkNode
<1>8. IsLinked(u, t, n, p, d)
  BY <1>2, <1>4, <1>6 DEF IsLinked
<1> QED
  BY <1>7, <1>8

\* The key of n belongs on side d of p and nowhere else in the tree.
CanLink(t, S, n, p, d) ==
  /\ Shaped(t, S) /\ n \in Nodes /\ n \notin Sub(S, t.root) /\ d \in Sides
  /\ p = Null <=> t.root = Null
  /\ p # Null =>
       /\ p \in Sub(S, t.root) /\ t.link[d][p] = Null /\ Beyond(d, Key[n], Key[p])
       /\ \A m \in Sub(S, t.root), f \in Sides :
            p \in Sub(S, t.link[f][m]) => Beyond(f, Key[n], Key[m])

HasLeaf(t, S, n, p) ==
  [x \in Nodes |-> IF x = n THEN {n} ELSE IF x \in Sub(S, t.root) /\ p \in S[x] THEN S[x] \cup {n}
                   ELSE S[x]]

\* The new leaf fits into the order.
LEMMA LinkShaped ==
  ASSUME NEW t, NEW S, NEW n, NEW p, NEW d, CanLink(t, S, n, p, d),
         NEW u, u = LinkNode(t, n, p, d), NEW S2, S2 = HasLeaf(t, S, n, p)
  PROVE  Shaped(u, S2) /\ Sub(S2, u.root) = Sub(S, t.root) \cup {n}
<1> DEFINE M == Sub(S, t.root)
<1>1. /\ Shaped(t, S) /\ t \in Trees /\ n \in Nodes /\ n \notin M /\ d \in Sides
             /\ p \in Links /\ p # n
      /\ M \in SUBSET Nodes /\ n # Null /\ t.root \in Nodes \cup {Null}
      /\ p = Null <=> t.root = Null
  <2>1. Shaped(t, S) /\ n \in Nodes /\ n \notin M /\ d \in Sides /\ (p = Null <=> t.root = Null)
    BY DEF CanLink
  <2>2. t \in Trees /\ M \in SUBSET Nodes /\ n # Null /\ t.root \in Nodes \cup {Null}
    BY <2>1, SubType DEF Shaped
  <2>3. p # Null => p \in M
    BY DEF CanLink
  <2>4. p \in Links /\ p # n
    BY <2>1, <2>2, <2>3, LinksAre
  <2> QED
    BY <2>1, <2>2, <2>4
<1>2. IsLinked(u, t, n, p, d)
  BY <1>1, Linked
<1>3. /\ S2[n] = {n} /\ S2 \in [Nodes -> SUBSET Nodes]
      /\ \A x \in M : S2[x] = IF p \in S[x] THEN S[x] \cup {n} ELSE S[x]
      /\ \A x \in Nodes : x \in S2[x]
  <2>1. S \in [Nodes -> SUBSET Nodes] /\ \A x \in Nodes : x \in S[x]
    BY <1>1 DEF Shaped
  <2> HIDE DEF M
  <2>2. S2 = [x \in Nodes |-> IF x = n THEN {n}
            ELSE IF x \in M /\ p \in S[x] THEN S[x] \cup {n} ELSE S[x]]
    BY DEF HasLeaf, M
  <2> QED
    BY <1>1, <2>1, <2>2
<1>4. /\ u.root \in Nodes /\ u.root = (IF p = Null THEN n ELSE t.root)
      /\ u.parent[u.root] = Null
  <2>1. u.root = IF p = Null THEN n ELSE t.root
    BY <1>2 DEF IsLinked
  <2>2. u.root \in Nodes
    BY <1>1, <2>1
  <2>3. CASE p = Null
    BY <1>1, <1>2, <2>1, <2>3 DEF IsLinked
  <2>4. CASE p # Null
    <3>1. t.root # Null /\ t.root \in Nodes /\ t.root \in M /\ t.root # n /\ u.root = t.root
      BY <1>1, <2>1, <2>4, SubType
    <3>2. t.parent[t.root] = Null
      BY <1>1, <3>1 DEF Shaped
    <3> QED
      BY <1>2, <3>1, <3>2 DEF IsLinked
  <2> QED
    BY <2>1, <2>2, <2>3, <2>4
<1>5. Sub(S2, u.root) = M \cup {n}
  <2>1. CASE p = Null
    <3>1. M = {} /\ u.root = n
      BY <1>1, <1>4, <2>1 DEF Sub
    <3> QED
      BY <1>1, <1>3, <3>1 DEF Sub
  <2>2. CASE p # Null
    <3>1. t.root # Null /\ u.root = t.root /\ M = S[t.root] /\ t.root \in M /\ p \in M
      BY <1>1, <1>4, <2>2, SubType DEF CanLink, Sub
    <3> QED
      BY <1>3, <3>1 DEF Sub
  <2> QED
    BY <2>1, <2>2
<1>6. NodeShaped(u, S2, n)
  <2>1. \A f \in Sides : u.link[f][n] = Null
    BY <1>1, <1>2 DEF IsLinked
  <2>2. \A f \in Sides : Sub(S2, u.link[f][n]) = {}
    BY <2>1 DEF Sub
  <2> QED
    BY <1>3, <2>1, <2>2 DEF NodeShaped
<1>7. ASSUME NEW x \in M PROVE NodeShaped(u, S2, x)
  <2>1. x \in Nodes /\ x # n /\ p # Null /\ t.root # Null /\ p \in M
    <3>1. t.root # Null
      BY DEF Sub
    <3> QED
      BY <1>1, <3>1 DEF CanLink
  <2>2. NodeShaped(t, S, x)
    BY <1>1 DEF Shaped
  <2>3. \A f \in Sides :
          /\ t.link[f][x] \in Links /\ t.link[f][x] # n
          /\ t.link[f][x] # Null => t.link[f][x] \in M /\ t.link[f][x] \in Nodes
                                    /\ t.parent[t.link[f][x]] = x
    <3> TAKE f \in Sides
    <3>1. t.link[f][x] \in Nodes \cup {Null}
      BY <1>1, <2>1, SubType
    <3>2. t.link[f][x] # Null => t.link[f][x] \in M /\ t.parent[t.link[f][x]] = x
      BY <2>2 DEF NodeShaped
    <3> QED
      BY <1>1, <3>1, <3>2, LinksAre
  <2>4. ASSUME NEW f \in Sides
        PROVE  Sub(S2, u.link[f][x]) =
                 IF p \in Sub(S, t.link[f][x]) \/ (x = p /\ f = d)
                 THEN Sub(S, t.link[f][x]) \cup {n} ELSE Sub(S, t.link[f][x])
    <3>1. CASE x = p /\ f = d
      <4>1. t.link[f][x] = Null
        BY <2>1, <3>1 DEF CanLink
      <4>2. u.link[f][x] = n
        BY <1>2, <2>1, <3>1 DEF IsLinked
      <4> QED
        BY <1>1, <1>3, <3>1, <4>1, <4>2 DEF Sub
    <3>2. CASE ~(x = p /\ f = d)
      <4>1. u.link[f][x] = t.link[f][x]
        BY <1>2, <2>1, <3>2 DEF IsLinked
      <4> QED
        BY <1>3, <2>3, <3>2, <4>1 DEF Sub
    <3> QED
      BY <3>1, <3>2
  <2>5. \A y : y \in S2[x] <=> y = x \/ \E f \in Sides : y \in Sub(S2, u.link[f][x])
    <3>1. \A y : y \in S[x] <=> y = x \/ \E f \in Sides : y \in Sub(S, t.link[f][x])
      BY <2>2 DEF NodeShaped
    <3>2. S2[x] = IF p \in S[x] THEN S[x] \cup {n} ELSE S[x]
      BY <1>3
    <3>3. d \in Sides
      BY <1>1
    <3> QED
      <4>1. \A y : y \in S2[x] <=> y \in S[x] \/ (p \in S[x] /\ y = n)
        BY <3>2
      <4>2. \A f \in Sides : \A y : y \in Sub(S2, u.link[f][x]) <=>
              \/ y \in Sub(S, t.link[f][x])
              \/ y = n /\ (p \in Sub(S, t.link[f][x]) \/ (x = p /\ f = d))
        BY <2>4
      <4>3. p \in S[x] <=> p = x \/ \E f \in Sides : p \in Sub(S, t.link[f][x])
        BY <3>1
      <4> QED
        BY <3>1, <3>3, <4>1, <4>2, <4>3
  <2>6. ASSUME NEW f \in Sides, NEW m \in Sub(S2, u.link[f][x]) PROVE Beyond(f, Key[m], Key[x])
    <3>1. CASE m \in Sub(S, t.link[f][x])
      BY <2>2, <3>1 DEF NodeShaped
    <3>2. CASE m \notin Sub(S, t.link[f][x])
      <4>1. m = n /\ (p \in Sub(S, t.link[f][x]) \/ (x = p /\ f = d))
        BY <2>4, <2>6, <3>2
      <4> QED
        BY <2>1, <4>1 DEF CanLink
    <3> QED
      BY <3>1, <3>2
  <2>7. ASSUME NEW f \in Sides, u.link[f][x] # Null
        PROVE  u.link[f][x] \in Sub(S2, u.root) /\ u.parent[u.link[f][x]] = x
    <3>1. u.link[f][x] = IF x = p /\ f = d THEN n ELSE t.link[f][x]
      BY <1>2, <2>1 DEF IsLinked
    <3>2. \A y \in Nodes : u.parent[y] = IF y = n THEN p ELSE t.parent[y]
      BY <1>2 DEF IsLinked
    <3> QED
      BY <1>1, <1>5, <2>3, <2>7, <3>1, <3>2
  <2> QED
    BY <2>5, <2>6, <2>7 DEF NodeShaped
<1>8. Shaped(u, S2)
  <2>1. u \in Trees
    BY <1>2 DEF IsLinked
  <2>2. \A x \in Sub(S2, u.root) : NodeShaped(u, S2, x)
    BY <1>5, <1>6, <1>7
  <2> QED
    BY <1>3, <1>4, <2>1, <2>2 DEF Shaped
<1> QED
  BY <1>5, <1>8

\* What holds between two operations
Idle(t, S, H) ==
  /\ Shaped(t, S) /\ H \in [Nodes -> Nat]
  /\ Levelled(t, Sub(S, t.root), H, Null, "left") /\ Calm(t, Sub(S, t.root), Null, Null)
  /\ ~IsRed(t, t.root)

\* The new leaf leaves the tree as ks_rb_insert_color expects it.
LEMMA LinkInserts ==
  ASSUME NEW t, NEW S, NEW H, Idle(t, S, H), NEW n, NEW p, NEW d, CanLink(t, S, n, p, d),
         NEW u, u = LinkNode(t, n, p, d)
  PROVE  \E S2, H2 : Inserting(u, S2, H2, n) /\ Sub(S2, u.root) = Sub(S, t.root) \cup {n}
<1> DEFINE M == Sub(S, t.root)
           H2 == [H EXCEPT ![n] = 0]
<1>1. PICK S2 : S2 = HasLeaf(t, S, n, p)
  OBVIOUS
<1>2. Shaped(u, S2) /\ Sub(S2, u.root) = M \cup {n}
  BY <1>1, LinkShaped
<1>3. /\ Shaped(t, S) /\ t \in Trees /\ H \in [Nodes -> Nat] /\ M \in SUBSET Nodes
      /\ n \in Nodes /\ n \notin M /\ d \in Sides /\ p \in Links /\ p # n /\ n # Null
      /\ p # Null => p \in M /\ t.link[d][p] = Null
  <2>1. Shaped(t, S) /\ H \in [Nodes -> Nat] /\ n \in Nodes /\ n \notin M /\ d \in Sides
    BY DEF Idle, CanLink
  <2>2. t \in Trees /\ M \in SUBSET Nodes /\ n # Null
    BY <2>1, SubType DEF Shaped
  <2>3. p # Null => p \in M /\ t.link[d][p] = Null
    BY DEF CanLink
  <2> QED
    BY <2>1, <2>2, <2>3, LinksAre
<1>4. IsLinked(u, t, n, p, d)
  BY <1>3, Linked
<1>5. H2 \in [Nodes -> Nat] /\ H2[n] = 0 /\ \A x \in Nodes : x # n => H2[x] = H[x]
  BY <1>3
<1> HIDE DEF H2
<1>6. ASSUME NEW x \in M
      PROVE  /\ x \in Nodes /\ x # n /\ u.color[x] = t.color[x]
             /\ \A f \in Sides : t.link[f][x] \in Links /\ t.link[f][x] # n
  <2>1. x \in Nodes /\ x # n
    BY <1>3
  <2>2. u.color[x] = t.color[x]
    BY <1>4, <2>1 DEF IsLinked
  <2>3. ASSUME NEW f \in Sides PROVE t.link[f][x] \in Links /\ t.link[f][x] # n
    <3>1. t.link[f][x] \in Nodes \cup {Null}
      BY <1>3, <2>1, SubType
    <3>2. t.link[f][x] # Null => t.link[f][x] \in M
      BY <1>3, ChildFacts
    <3> QED
      BY <1>3, <3>1, <3>2, LinksAre
  <2> QED
    BY <2>1, <2>2, <2>3
<1>7. u.color[n] = "red" /\ \A f \in Sides : u.link[f][n] = Null
  BY <1>3, <1>4 DEF IsLinked
<1>8. ASSUME NEW x \in M, NEW f \in Sides
      PROVE  u.link[f][x] = IF x = p /\ f = d THEN n ELSE t.link[f][x]
  BY <1>4, <1>6 DEF IsLinked
<1>9. Levelled(u, M \cup {n}, H2, Null, "left")
  <2>1. LevelAt(u, H2, Null, "left", n)
    BY <1>3, <1>5, <1>7 DEF LevelAt, High, Short, Blacks
  <2>2. ASSUME NEW x \in M PROVE LevelAt(u, H2, Null, "left", x)
    <3> SUFFICES ASSUME NEW f \in Sides
                 PROVE  H2[x] = High(H2, u.link[f][x]) + Short(Null, "left", x, f) + Blacks(u, x)
      BY DEF LevelAt
    <3>1. H[x] = High(H, t.link[f][x]) + Short(Null, "left", x, f) + Blacks(t, x)
      BY DEF Idle, Levelled, LevelAt
    <3>2. H2[x] = H[x] /\ Blacks(u, x) = Blacks(t, x)
      BY <1>5, <1>6 DEF Blacks
    <3>3. High(H2, u.link[f][x]) = High(H, t.link[f][x])
      <4>1. CASE x = p /\ f = d
        <5>1. u.link[f][x] = n /\ t.link[f][x] = Null
          BY <1>3, <1>6, <1>8, <4>1, SubType
        <5> QED
          BY <1>3, <1>5, <5>1 DEF High
      <4>2. CASE ~(x = p /\ f = d)
        <5>1. u.link[f][x] = t.link[f][x] /\ t.link[f][x] \in Links /\ t.link[f][x] # n
          BY <1>6, <1>8, <4>2
        <5> QED
          BY <1>5, <5>1, LinksAre DEF High
      <4> QED
        BY <4>1, <4>2
    <3> QED
      BY <3>1, <3>2, <3>3
  <2> QED
    BY <2>1, <2>2 DEF Levelled
<1>10. Calm(u, M \cup {n}, n, Null)
  <2>1. CalmAt(u, n, Null, n)
    BY <1>7 DEF CalmAt, IsRed
  <2>2. ASSUME NEW x \in M PROVE CalmAt(u, n, Null, x)
    <3> SUFFICES ASSUME NEW f \in Sides, IsRed(u, x), IsRed(u, u.link[f][x]), u.link[f][x] # n
                 PROVE  FALSE
      BY DEF CalmAt
    <3>1. u.link[f][x] = t.link[f][x] /\ t.link[f][x] # Null /\ t.link[f][x] \in M
      <4>1. u.link[f][x] = t.link[f][x] /\ t.link[f][x] # Null
        BY <1>8 DEF IsRed
      <4> QED
        BY <1>3, <4>1, ChildFacts
    <3>2. IsRed(t, x) /\ IsRed(t, t.link[f][x])
      BY <1>6, <3>1 DEF IsRed
    <3>3. CalmAt(t, Null, Null, x)
      BY DEF Idle, Calm
    <3>4. x # Null
      BY <1>6, LinksAre
    <3> QED
      BY <3>1, <3>2, <3>3, <3>4 DEF CalmAt
  <2> QED
    BY <2>1, <2>2 DEF Calm
<1>11. IsRed(u, n) /\ (IsRed(u, u.root) => n = u.root)
  <2>1. IsRed(u, n)
    BY <1>3, <1>7 DEF IsRed
  <2>2. u.root = IF p = Null THEN n ELSE t.root
    BY <1>4 DEF IsLinked
  <2>3. CASE p # Null
    <3>1. t.root # Null
      BY <1>3, <2>3 DEF Sub
    <3>2. t.root \in M /\ ~IsRed(t, t.root)
      BY <1>3, <3>1, SubType DEF Idle
    <3>3. ~IsRed(u, t.root)
      BY <1>6, <3>2 DEF IsRed
    <3> QED
      BY <2>1, <2>2, <2>3, <3>3
  <2> QED
    BY <2>1, <2>2, <2>3
<1>12. n \in M \cup {n}
  OBVIOUS
<1>13. Inserting(u, S2, H2, n)
  BY <1>2, <1>5, <1>9, <1>10, <1>11, <1>12 DEF Inserting
<1> QED
  BY <1>2, <1>13

-----------------------------------------------------------------------------
(* ks_rb_erase: a node with at most one child is taken out.                   *)

Spliced(t, n, c, p) == Clear(Relink(SetParent(t, c, p), p, n, c), n)

\* Only side d of n may have a child, c.
CanSplice(t, S, n, d, c, p) ==
  /\ Shaped(t, S) /\ n \in Sub(S, t.root) /\ d \in Sides
  /\ c = t.link[d][n] /\ t.link[Opposite(d)][n] = Null /\ p = t.parent[n]

IsSpliced(u, t, M, n, c, p) ==
  /\ u \in Trees /\ u.root = IF n = t.root THEN c ELSE t.root
  /\ \A x \in M, f \in Sides :
       x # n => u.link[f][x] = IF t.link[f][x] = n THEN c ELSE t.link[f][x]
  /\ \A x \in M : x # n => /\ u.parent[x] = IF x = c THEN p ELSE t.parent[x]
                           /\ u.color[x] = t.color[x]

\* What taking such a node out does, field by field.
LEMMA SpliceFields ==
  ASSUME NEW t, NEW S, NEW n, NEW d, NEW c, NEW p, CanSplice(t, S, n, d, c, p),
         NEW M, M = Sub(S, t.root)
  PROVE  IsSpliced(Spliced(t, n, c, p), t, M, n, c, p)
<1>1. /\ Shaped(t, S) /\ t \in Trees /\ n \in M /\ n \in Nodes /\ M \in SUBSET Nodes
      /\ c \in Links /\ p \in Links /\ p = t.parent[n]
  <2>1. Shaped(t, S) /\ n \in M /\ c = t.link[d][n] /\ p = t.parent[n] /\ d \in Sides
    BY DEF CanSplice
  <2>2. M \in SUBSET Nodes /\ t \in Trees
    BY <2>1, SubType DEF Shaped
  <2>3. c \in Nodes \cup {Null} /\ p \in Nodes \cup {Null}
    BY <2>1, <2>2, SubType
  <2> QED
    BY <2>1, <2>2, <2>3, LinksAre
<1>2. PICK v : v = SetParent(t, c, p)
  OBVIOUS
<1>3. /\ v \in Trees /\ v.root = t.root /\ v.link = t.link /\ v.color = t.color
      /\ \A x \in Nodes : v.parent[x] = IF x = c THEN p ELSE t.parent[x]
  BY <1>1, <1>2, SetParentFields
<1>4. PICK w : w = Relink(v, p, n, c)
  OBVIOUS
<1>5. /\ w \in Trees /\ w.parent = v.parent /\ w.color = v.color
      /\ w.root = IF p = Null THEN c ELSE v.root
      /\ \A f \in Sides, x \in Nodes :
           w.link[f][x] = IF p # Null /\ x = p /\ f = SideOf(v, p, n) THEN c ELSE v.link[f][x]
  <2>1. v \in Trees /\ p \in Links /\ n \in Nodes /\ c \in Links
    BY <1>1, <1>3
  <2> QED
    BY <1>4, <2>1, RelinkFields
<1>6. PICK u : u = Clear(w, n)
  OBVIOUS
<1>7. /\ u \in Trees /\ u.root = w.root
      /\ \A f \in Sides, x \in Nodes : u.link[f][x] = IF x = n THEN Null ELSE w.link[f][x]
      /\ \A x \in Nodes : u.parent[x] = IF x = n THEN Null ELSE w.parent[x]
      /\ \A x \in Nodes : u.color[x] = IF x = n THEN "red" ELSE w.color[x]
  BY <1>1, <1>5, <1>6, ClearFields
<1>8. Spliced(t, n, c, p) = u
  BY <1>2, <1>4, <1>6 DEF Spliced
<1>9. SideOf(v, p, n) = SideOf(t, p, n)
  BY <1>3 DEF SideOf
<1>10. p = Null <=> n = t.root
  BY <1>1, ParentFacts
<1>11. ASSUME NEW x \in M, NEW f \in Sides, x # n
       PROVE  u.link[f][x] = IF t.link[f][x] = n THEN c ELSE t.link[f][x]
  <2>1. x \in Nodes
    BY <1>1
  <2>2. u.link[f][x] = IF p # Null /\ x = p /\ f = SideOf(t, p, n) THEN c ELSE t.link[f][x]
    BY <1>3, <1>5, <1>7, <1>9, <1>11, <2>1
  <2>3. t.link[f][x] = n => x = p
    BY <1>1, ParentFacts
  <2>4. x = p => p # Null
    BY <2>1, LinksAre
  <2>5. p # Null => (t.link[f][p] = n <=> f = SideOf(t, p, n))
    <3> SUFFICES ASSUME p # Null PROVE t.link[f][p] = n <=> f = SideOf(t, p, n)
      OBVIOUS
    <3>1. n # t.root
      BY <1>10
    <3>2. /\ t.link[SideOf(t, p, n)][p] = n
          /\ \A g \in Sides : t.link[g][p] = n => g = SideOf(t, p, n)
      BY <1>1, <3>1, SideOfChild
    <3> QED
      BY <3>2
  <2> QED
    BY <2>2, <2>3, <2>4, <2>5
<1>12. ASSUME NEW x \in M, x # n
       PROVE  u.parent[x] = (IF x = c THEN p ELSE t.parent[x]) /\ u.color[x] = t.color[x]
  <2>1. x \in Nodes
    BY <1>1
  <2> QED
    BY <1>3, <1>5, <1>7, <1>12, <2>1
<1>13. u.root = IF n = t.root THEN c ELSE t.root
  BY <1>3, <1>5, <1>7, <1>10
<1>14. IsSpliced(u, t, M, n, c, p)
  BY <1>7, <1>11, <1>12, <1>13 DEF IsSpliced
<1> QED
  BY <1>8, <1>14

Without(S, n) == [x \in Nodes |-> IF x = n THEN {n} ELSE S[x] \ {n}]

\* Where the nodes around such a node are.
LEMMA SpliceTypes ==
  ASSUME NEW t, NEW S, NEW n, NEW d, NEW c, NEW p, CanSplice(t, S, n, d, c, p),
         NEW M, M = Sub(S, t.root)
  PROVE  /\ Shaped(t, S) /\ t \in Trees /\ M \in SUBSET Nodes /\ n \in M /\ n \in Nodes
         /\ d \in Sides /\ c = t.link[d][n] /\ t.link[Opposite(d)][n] = Null /\ p = t.parent[n]
         /\ c \in Links /\ c # n /\ t.root # Null /\ t.root \in M
         /\ c # Null => c \in M /\ c \in Nodes /\ t.parent[c] = n /\ n \notin S[c]
         /\ \A x : x \in S[n] <=> x = n \/ x \in Sub(S, c)
         /\ n \notin Sub(S, c)
<1>1. Shaped(t, S) /\ n \in M /\ d \in Sides /\ c = t.link[d][n] /\ p = t.parent[n]
      /\ t.link[Opposite(d)][n] = Null
  BY DEF CanSplice
<1>2. t \in Trees /\ M \in SUBSET Nodes /\ n \in Nodes /\ t.root # Null /\ t.root \in M
  BY <1>1, SubType DEF Shaped
<1>3. c # Null => c \in M /\ c \in Nodes /\ t.parent[c] = n /\ n \notin S[c] /\ c # n
  BY <1>1, ChildFacts
<1>4. c \in Links /\ c # n
  BY <1>2, <1>3, LinksAre
<1>5. Sub(S, t.link[Opposite(d)][n]) = {}
  BY <1>1 DEF Sub
<1>6. NodeShaped(t, S, n)
  BY <1>1 DEF Shaped
<1>7. \A x : x \in S[n] <=> x = n \/ x \in Sub(S, c)
  BY <1>1, <1>5, <1>6, SidesOf
<1>8. n \notin Sub(S, c)
  BY <1>3 DEF Sub
<1> QED
  BY <1>1, <1>2, <1>3, <1>4, <1>7, <1>8

\* The child moves up, and the order is kept.
LEMMA SpliceShaped ==
  ASSUME NEW t, NEW S, NEW n, NEW d, NEW c, NEW p, CanSplice(t, S, n, d, c, p),
         NEW M, M = Sub(S, t.root), NEW u, IsSpliced(u, t, M, n, c, p)
  PROVE  Shaped(u, Without(S, n)) /\ Sub(Without(S, n), u.root) = M \ {n}
<1>1. /\ Shaped(t, S) /\ t \in Trees /\ M \in SUBSET Nodes /\ n \in M /\ n \in Nodes
      /\ c \in Links /\ c # n /\ p = t.parent[n] /\ t.root # Null /\ t.root \in M
      /\ c # Null => c \in M /\ c \in Nodes /\ t.parent[c] = n /\ n \notin S[c]
      /\ \A x : x \in S[n] <=> x = n \/ x \in Sub(S, c)
      /\ n \notin Sub(S, c)
  BY SpliceTypes
<1>2. PICK S2 : S2 = Without(S, n)
  OBVIOUS
<1>3. /\ S2 \in [Nodes -> SUBSET Nodes]
      /\ \A x \in Nodes : x \in S2[x]
      /\ \A x \in Nodes : x # n => S2[x] = S[x] \ {n}
  <2>1. S \in [Nodes -> SUBSET Nodes] /\ \A x \in Nodes : x \in S[x]
    BY <1>1 DEF Shaped
  <2> QED
    BY <1>1, <1>2, <2>1 DEF Without
<1>4. Sub(S2, c) = Sub(S, c)
  <2>1. CASE c = Null
    BY <2>1 DEF Sub
  <2>2. CASE c # Null
    <3>1. c \in Nodes /\ n \notin S[c] /\ c # n
      BY <1>1, <2>2
    <3>2. S2[c] = S[c] \ {n}
      BY <1>3, <3>1
    <3> QED
      BY <2>2, <3>1, <3>2 DEF Sub
  <2> QED
    BY <2>1, <2>2
<1>5. Sub(S2, u.root) = M \ {n}
  <2>1. u.root = IF n = t.root THEN c ELSE t.root
    BY DEF IsSpliced
  <2>2. M = S[t.root]
    BY <1>1 DEF Sub
  <2>3. CASE n = t.root
    BY <1>1, <1>4, <2>1, <2>2, <2>3
  <2>4. CASE n # t.root
    <3>1. t.root \in Nodes
      BY <1>1
    <3> QED
      BY <1>1, <1>3, <2>1, <2>2, <2>4, <3>1 DEF Sub
  <2> QED
    BY <2>3, <2>4
<1>6. ASSUME u.root # Null PROVE u.parent[u.root] = Null
  <2>1. u.root = IF n = t.root THEN c ELSE t.root
    BY DEF IsSpliced
  <2>2. t.parent[t.root] = Null
    BY <1>1 DEF Shaped
  <2>3. CASE n = t.root
    <3>1. c # Null /\ c \in M /\ u.root = c
      BY <1>1, <1>6, <2>1, <2>3
    <3> QED
      BY <1>1, <2>2, <2>3, <3>1 DEF IsSpliced
  <2>4. CASE n # t.root
    <3>1. u.root = t.root /\ t.root # c
      BY <1>1, <2>1, <2>2, <2>4, LinksAre
    <3> QED
      BY <1>1, <2>2, <2>4, <3>1 DEF IsSpliced
  <2> QED
    BY <2>3, <2>4
<1>7. ASSUME NEW x \in M, x # n PROVE NodeShaped(u, S2, x)
  <2>1. x \in Nodes /\ NodeShaped(t, S, x)
    BY <1>1 DEF Shaped
  <2>2. \A f \in Sides :
          /\ t.link[f][x] \in Links
          /\ t.link[f][x] # Null => t.link[f][x] \in M /\ t.link[f][x] \in Nodes
                                    /\ t.parent[t.link[f][x]] = x
    <3> TAKE f \in Sides
    <3>1. t.link[f][x] \in Nodes \cup {Null}
      BY <1>1, <2>1, SubType
    <3>2. t.link[f][x] # Null => t.link[f][x] \in M /\ t.parent[t.link[f][x]] = x
      BY <2>1 DEF NodeShaped
    <3> QED
      BY <1>1, <3>1, <3>2, LinksAre
  <2>3. \A f \in Sides : u.link[f][x] = IF t.link[f][x] = n THEN c ELSE t.link[f][x]
    BY <1>7 DEF IsSpliced
  <2>4. ASSUME NEW f \in Sides PROVE Sub(S2, u.link[f][x]) = Sub(S, t.link[f][x]) \ {n}
    <3>1. CASE t.link[f][x] = n
      <4>1. u.link[f][x] = c /\ Sub(S, t.link[f][x]) = S[n]
        BY <1>1, <2>3, <3>1, LinksAre DEF Sub
      <4> QED
        BY <1>1, <1>4, <4>1
    <3>2. CASE t.link[f][x] # n
      <4>1. u.link[f][x] = t.link[f][x]
        BY <2>3, <3>2
      <4>2. CASE t.link[f][x] = Null
        BY <4>1, <4>2 DEF Sub
      <4>3. CASE t.link[f][x] # Null
        BY <1>3, <2>2, <3>2, <4>1, <4>3 DEF Sub
      <4> QED
        BY <4>2, <4>3
    <3> QED
      BY <3>1, <3>2
  <2>5. \A y : y \in S2[x] <=> y = x \/ \E f \in Sides : y \in Sub(S2, u.link[f][x])
    <3>1. \A y : y \in S[x] <=> y = x \/ \E f \in Sides : y \in Sub(S, t.link[f][x])
      BY <2>1 DEF NodeShaped
    <3>2. S2[x] = S[x] \ {n}
      BY <1>3, <1>7, <2>1
    <3> QED
      BY <1>7, <2>4, <3>1, <3>2
  <2>6. ASSUME NEW f \in Sides, NEW m \in Sub(S2, u.link[f][x]) PROVE Beyond(f, Key[m], Key[x])
    BY <2>1, <2>4, <2>6 DEF NodeShaped
  <2>7. ASSUME NEW f \in Sides, u.link[f][x] # Null
        PROVE  u.link[f][x] \in M \ {n} /\ u.parent[u.link[f][x]] = x
    <3>1. \A y \in M : y # n => u.parent[y] = IF y = c THEN p ELSE t.parent[y]
      BY DEF IsSpliced
    <3>2. CASE t.link[f][x] = n
      <4>1. u.link[f][x] = c /\ c \in M /\ c # n /\ p = x
        BY <1>1, <2>2, <2>3, <2>7, <3>2, LinksAre
      <4> QED
        BY <3>1, <4>1
    <3>3. CASE t.link[f][x] # n
      <4>1. u.link[f][x] = t.link[f][x]
        BY <2>3, <3>3
      <4>2. t.link[f][x] \in M /\ t.parent[t.link[f][x]] = x /\ t.link[f][x] # Null
        BY <2>2, <2>7, <4>1
      <4>3. t.link[f][x] # c
        BY <1>1, <1>7, <4>2
      <4> QED
        BY <3>1, <3>3, <4>1, <4>2, <4>3
    <3> QED
      BY <3>2, <3>3
  <2> QED
    BY <1>5, <2>5, <2>6, <2>7 DEF NodeShaped
<1>8. Shaped(u, S2)
  <2>1. u \in Trees
    BY DEF IsSpliced
  <2>2. \A x \in Sub(S2, u.root) : NodeShaped(u, S2, x)
    BY <1>5, <1>7
  <2> QED
    BY <1>3, <1>6, <2>1, <2>2 DEF Shaped
<1> QED
  BY <1>2, <1>5, <1>8

-----------------------------------------------------------------------------
(* What a node that is taken out leaves behind. *)

\* A black one leaves its child lacking a black, a red one leaves nothing to do.
LeftBehind(u, S, H, color, c, p) ==
  IF color = "black" THEN Erasing(u, S, H, c, p) ELSE Idle(u, S, H)

\* What is known between two operations, part by part.
LEMMA IdleTypes ==
  ASSUME NEW t, NEW S, NEW H, Idle(t, S, H), NEW M, M = Sub(S, t.root)
  PROVE  /\ Shaped(t, S) /\ t \in Trees /\ H \in [Nodes -> Nat] /\ ~IsRed(t, t.root)
         /\ M \in SUBSET Nodes
         /\ \A x \in M : LevelAt(t, H, Null, "left", x) /\ CalmAt(t, Null, Null, x)
         /\ \A x \in M, f \in Sides : H[x] = High(H, t.link[f][x]) + Blacks(t, x)
<1>1. Shaped(t, S) /\ H \in [Nodes -> Nat] /\ ~IsRed(t, t.root)
  BY DEF Idle
<1>2. t \in Trees /\ M \in SUBSET Nodes
  BY <1>1, SubType DEF Shaped
<1>3. \A x \in M : LevelAt(t, H, Null, "left", x) /\ CalmAt(t, Null, Null, x)
  BY DEF Idle, Levelled, Calm
<1>4. ASSUME NEW x \in M, NEW f \in Sides
      PROVE  H[x] = High(H, t.link[f][x]) + Blacks(t, x)
  <2>1. H[x] = High(H, t.link[f][x]) + Short(Null, "left", x, f) + Blacks(t, x)
    BY <1>3 DEF LevelAt
  <2>2. x \in Nodes /\ t.link[f][x] \in Links
    <3>1. t.link[f][x] \in Nodes \cup {Null}
      BY <1>1, <1>2, SubType
    <3> QED
      BY <1>2, <3>1, LinksAre
  <2>3. Short(Null, "left", x, f) = 0 /\ High(H, t.link[f][x]) \in Nat /\ Blacks(t, x) \in {0, 1}
    BY <1>1, <1>2, <2>2, ColorTypes
  <2> QED
    BY <2>1, <2>3
<1> QED
  BY <1>1, <1>2, <1>3, <1>4

\* One black is lacking below the gap, exactly if the node was black.
LEMMA SpliceLeaves ==
  ASSUME NEW t, NEW S, NEW H, Idle(t, S, H), NEW M, M = Sub(S, t.root),
         NEW n, NEW d, NEW c, NEW p, CanSplice(t, S, n, d, c, p),
         NEW u, IsSpliced(u, t, M, n, c, p)
  PROVE  LeftBehind(u, Without(S, n), H, t.color[n], c, p)
<1>1. /\ Shaped(t, S) /\ t \in Trees /\ H \in [Nodes -> Nat] /\ ~IsRed(t, t.root)
      /\ M \in SUBSET Nodes
      /\ \A x \in M : LevelAt(t, H, Null, "left", x) /\ CalmAt(t, Null, Null, x)
      /\ \A x \in M, f \in Sides : H[x] = High(H, t.link[f][x]) + Blacks(t, x)
  BY IdleTypes
<1>2. /\ n \in M /\ n \in Nodes /\ d \in Sides /\ c = t.link[d][n] /\ p = t.parent[n]
      /\ c \in Links /\ c # n /\ t.root # Null /\ t.root \in M /\ n # Null
      /\ c # Null => c \in M /\ c \in Nodes /\ t.parent[c] = n
  BY SpliceTypes, LinksAre
<1>3. PICK S2 : S2 = Without(S, n)
  OBVIOUS
<1>4. Shaped(u, S2) /\ Sub(S2, u.root) = M \ {n}
  BY <1>3, SpliceShaped
<1>5. /\ u.root = IF n = t.root THEN c ELSE t.root
      /\ \A x \in M, f \in Sides :
           x # n => u.link[f][x] = IF t.link[f][x] = n THEN c ELSE t.link[f][x]
      /\ \A x \in M : x # n => u.color[x] = t.color[x]
  BY DEF IsSpliced
<1>6. ASSUME NEW x \in M, x # n
      PROVE  /\ x \in Nodes /\ Blacks(u, x) = Blacks(t, x) /\ Blacks(t, x) \in {0, 1}
             /\ IsRed(u, x) <=> IsRed(t, x)
             /\ \A f \in Sides : t.link[f][x] \in Links /\ u.link[f][x] \in Links
  <2>1. x \in Nodes /\ u.color[x] = t.color[x]
    BY <1>1, <1>5, <1>6
  <2>2. \A f \in Sides : t.link[f][x] \in Links
    <3>1. \A f \in Sides : t.link[f][x] \in Nodes \cup {Null}
      BY <1>1, <2>1, SubType
    <3> QED
      BY <3>1, LinksAre
  <2>3. \A f \in Sides : u.link[f][x] \in Links
    BY <1>2, <1>5, <1>6, <2>2
  <2>4. Blacks(t, x) \in {0, 1}
    BY DEF Blacks
  <2> QED
    BY <2>1, <2>2, <2>3, <2>4 DEF Blacks, IsRed
<1>7. H[n] = High(H, c) + Blacks(t, n) /\ High(H, c) \in Nat /\ Blacks(t, n) \in {0, 1}
  <2>1. High(H, c) \in Nat /\ Blacks(t, n) \in {0, 1}
    BY <1>1, <1>2, ColorTypes
  <2> QED
    BY <1>1, <1>2, <2>1
<1>8. ASSUME NEW x \in M, x # n, NEW f \in Sides
      PROVE  H[x] = High(H, u.link[f][x]) + (IF t.link[f][x] = n THEN Blacks(t, n) ELSE 0)
                    + Blacks(u, x)
  <2>1. H[x] = High(H, t.link[f][x]) + Blacks(u, x)
    BY <1>1, <1>6, <1>8
  <2>2. High(H, u.link[f][x]) \in Nat /\ Blacks(u, x) \in {0, 1}
    <3>1. u.link[f][x] \in Links /\ Blacks(u, x) \in {0, 1}
      BY <1>6, <1>8
    <3>2. High(H, u.link[f][x]) \in Nat
      BY <1>1, <3>1, ColorTypes
    <3> QED
      BY <3>1, <3>2
  <2>3. CASE t.link[f][x] = n
    <3>1. u.link[f][x] = c /\ High(H, n) = H[n]
      BY <1>2, <1>5, <1>8, <2>3 DEF High
    <3> QED
      BY <1>7, <2>1, <2>2, <2>3, <3>1
  <2>4. CASE t.link[f][x] # n
    <3>1. u.link[f][x] = t.link[f][x]
      BY <1>5, <1>8, <2>4
    <3> QED
      BY <2>1, <2>2, <2>4, <3>1
  <2> QED
    BY <2>3, <2>4
\* Two red nodes that meet now: c and its new parent p
<1>9. ASSUME NEW x \in M, x # n, NEW f \in Sides, IsRed(u, x), IsRed(u, u.link[f][x])
      PROVE  t.link[f][x] = n /\ u.link[f][x] = c /\ t.color[n] = "black"
  <2>1. IsRed(t, x) /\ x # Null
    BY <1>6, <1>9, LinksAre
  <2>2. CASE t.link[f][x] = n
    <3>1. u.link[f][x] = c
      BY <1>5, <1>9, <2>2
    <3>2. ~IsRed(t, n)
      BY <1>1, <1>2, <1>9, <2>1, <2>2 DEF CalmAt
    <3>3. t.color[n] \in Colors
      BY <1>1, <1>2 DEF Trees
    <3> QED
      BY <1>2, <2>2, <3>1, <3>2, <3>3 DEF IsRed, Colors
  <2>3. CASE t.link[f][x] # n
    <3>1. u.link[f][x] = t.link[f][x] /\ t.link[f][x] # Null
      BY <1>5, <1>9, <2>3 DEF IsRed
    <3>2. t.link[f][x] \in M
      BY <1>1, <3>1, ChildFacts
    <3>3. IsRed(t, t.link[f][x])
      BY <1>6, <1>9, <2>3, <3>1, <3>2
    <3> QED
      BY <1>1, <2>1, <3>1, <3>3 DEF CalmAt
  <2> QED
    BY <2>2, <2>3
<1>10. CASE t.color[n] # "black"
  <2>1. Blacks(t, n) = 0 /\ IsRed(t, n)
    <3>1. t.color[n] = "red"
      BY <1>1, <1>2, <1>10 DEF Trees, Colors
    <3> QED
      BY <1>2, <3>1 DEF Blacks, IsRed
  <2>2. n # t.root
    BY <1>1, <2>1
  <2>3. ~IsRed(u, u.root)
    BY <1>1, <1>2, <1>5, <1>6, <2>2
  <2>4. Levelled(u, M \ {n}, H, Null, "left")
    <3> SUFFICES ASSUME NEW x \in M \ {n}, NEW f \in Sides
                 PROVE  H[x] = High(H, u.link[f][x]) + Short(Null, "left", x, f) + Blacks(u, x)
      BY DEF Levelled, LevelAt
    <3>1. x \in M /\ x # n /\ x \in Nodes /\ u.link[f][x] \in Links /\ Blacks(u, x) \in {0, 1}
      BY <1>6
    <3>2. High(H, u.link[f][x]) \in Nat /\ Short(Null, "left", x, f) = 0
      BY <1>1, <3>1, ColorTypes
    <3> QED
      BY <1>8, <2>1, <3>1, <3>2
  <2>5. Calm(u, M \ {n}, Null, Null)
    BY <1>9, <1>10 DEF Calm, CalmAt
  <2>6. Idle(u, S2, H)
    BY <1>1, <1>4, <2>3, <2>4, <2>5 DEF Idle
  <2> QED
    BY <1>3, <1>10, <2>6 DEF LeftBehind
<1>11. CASE t.color[n] = "black"
  <2>1. Blacks(t, n) = 1
    BY <1>11 DEF Blacks
  <2>2. Calm(u, M \ {n}, c, c)
    BY <1>9 DEF Calm, CalmAt
  <2>3. CASE n = t.root
    <3>1. u.root = c
      BY <1>5, <2>3
    <3>2. ASSUME NEW x \in M, NEW f \in Sides PROVE t.link[f][x] # n
      <4>1. t.parent[n] = Null /\ x # Null
        BY <1>1, <1>2, <2>3, ParentFacts, LinksAre
      <4> QED
        BY <1>1, <1>2, <4>1, ParentFacts
    <3>3. Levelled(u, M \ {n}, H, Null, "left")
      <4> SUFFICES ASSUME NEW x \in M \ {n}, NEW f \in Sides
                   PROVE  H[x] = High(H, u.link[f][x]) + Short(Null, "left", x, f) + Blacks(u, x)
        BY DEF Levelled, LevelAt
      <4>1. x \in M /\ x # n /\ x \in Nodes /\ u.link[f][x] \in Links /\ Blacks(u, x) \in {0, 1}
        BY <1>6
      <4>2. High(H, u.link[f][x]) \in Nat /\ Short(Null, "left", x, f) = 0
        BY <1>1, <4>1, ColorTypes
      <4> QED
        BY <1>8, <3>2, <4>1, <4>2
    <3>4. Erasing(u, S2, H, c, p)
      BY <1>1, <1>4, <2>2, <3>1, <3>3 DEF Erasing
    <3> QED
      BY <1>3, <1>11, <3>4 DEF LeftBehind
  <2>4. CASE n # t.root
    <3> DEFINE f == SideOf(t, p, n)
               o == Opposite(f)
               s == t.link[o][p]
    <3>1. /\ p \in M /\ p \in Nodes /\ p # n /\ f \in Sides /\ t.link[f][p] = n
          /\ \A g \in Sides : t.link[g][p] = n => g = f
      BY <1>1, <1>2, <2>4, ParentFacts, SideOfChild
    <3>2. \A x \in M, g \in Sides : t.link[g][x] = n => x = p
      BY <1>1, <1>2, ParentFacts
    <3>3. o \in Sides /\ o # f /\ t.link[o][p] # n
      <4>1. o \in Sides /\ o # f
        BY <3>1, OppositeFacts
      <4> QED
        BY <3>1, <4>1
    <3> HIDE DEF f
    <3>4. u.link[f][p] = c /\ u.link[o][p] = s
      BY <1>5, <3>1, <3>3
    <3>5. s # c
      <4>1. CASE c # Null
        <5>1. s # Null => t.parent[s] = p
          BY <1>1, <3>1, <3>3, ChildFacts
        <5> QED
          BY <1>2, <3>1, <4>1, <5>1
      <4>2. CASE c = Null
        <5>1. H[p] = High(H, n) + Blacks(t, p) /\ H[p] = High(H, s) + Blacks(t, p)
          BY <1>1, <3>1, <3>3
        <5>2. High(H, n) = H[n] /\ Blacks(t, p) \in {0, 1} /\ High(H, s) \in Nat /\ H[n] \in Nat
          <6>1. s \in Links /\ n \in Links /\ H[n] \in Nat
            BY <1>1, <1>2, <1>6, <3>1, <3>3, LinksAre
          <6> QED
            BY <1>1, <1>2, <3>1, <6>1, ColorTypes
        <5>3. High(H, s) > 0
          BY <1>7, <2>1, <5>1, <5>2
        <5> QED
          BY <4>2, <5>3 DEF High
      <4> QED
        BY <4>1, <4>2
    <3>6. SideOf(u, p, c) = f
      BY <3>1, <3>3, <3>4, <3>5 DEF SideOf, Sides
    <3>7. u.root = t.root /\ ~IsRed(u, u.root) /\ c # u.root
      <4>1. u.root = t.root
        BY <1>5, <2>4
      <4>2. ~IsRed(u, t.root)
        BY <1>1, <1>2, <1>6, <2>4
      <4>3. t.parent[t.root] = Null
        BY <1>1, <1>2 DEF Shaped
      <4> QED
        BY <1>2, <4>1, <4>2, <4>3
    <3>8. Levelled(u, M \ {n}, H, p, f)
      <4> SUFFICES ASSUME NEW x \in M \ {n}, NEW g \in Sides
                   PROVE  H[x] = High(H, u.link[g][x]) + Short(p, f, x, g) + Blacks(u, x)
        BY DEF Levelled, LevelAt
      <4>1. x \in M /\ x # n
        OBVIOUS
      <4>2. t.link[g][x] = n <=> (x = p /\ g = f)
        BY <3>1, <3>2, <4>1
      <4> QED
        BY <1>8, <2>1, <4>1, <4>2 DEF Short
    <3>9. Calm(u, M \ {n}, c, c) /\ p \in M \ {n}
      BY <2>2, <3>1
    <3>10. Lacking(u, S2, H, c, p, f)
      BY <1>1, <1>4, <3>1, <3>4, <3>7, <3>8, <3>9 DEF Lacking
    <3>11. Erasing(u, S2, H, c, p)
      BY <1>1, <1>4, <3>6, <3>7, <3>9, <3>10 DEF Erasing
    <3> QED
      BY <1>3, <1>11, <3>11 DEF LeftBehind
  <2> QED
    BY <2>3, <2>4
<1> QED
  BY <1>10, <1>11

-----------------------------------------------------------------------------
(* A node from outside takes the place of one in the tree: what ks_rb_erase   *)
(* does with the successor and ks_rb_replace_node with its argument.          *)

\* y where n is
Put(n, y, x) == IF x = n THEN y ELSE x

CanTake(t, S, n, y) ==
  /\ Shaped(t, S) /\ n \in Sub(S, t.root) /\ y \in Nodes /\ y \notin Sub(S, t.root)
  /\ \A f \in Sides : \A m \in Sub(S, t.link[f][n]) : Beyond(f, Key[m], Key[y])
  /\ \A f \in Sides, m \in Sub(S, t.root) :
       n \in Sub(S, t.link[f][m]) => Beyond(f, Key[y], Key[m])

IsTaken(u, t, M, n, y) ==
  /\ u \in Trees /\ u.root = Put(n, y, t.root)
  /\ \A x \in M : /\ u.parent[Put(n, y, x)] = Put(n, y, t.parent[x])
                  /\ u.color[Put(n, y, x)] = t.color[x]
                  /\ \A f \in Sides : u.link[f][Put(n, y, x)] = Put(n, y, t.link[f][x])

Taken(S, M, n, y) ==
  [x \in Nodes |-> IF x = n THEN {n} ELSE IF x = y THEN {Put(n, y, z) : z \in S[n]}
                   ELSE IF x \in M THEN {Put(n, y, z) : z \in S[x]} ELSE S[x]]

\* Where the nodes around the two are.
LEMMA TakeTypes ==
  ASSUME NEW t, NEW S, NEW n, NEW y, CanTake(t, S, n, y), NEW M, M = Sub(S, t.root)
  PROVE  /\ Shaped(t, S) /\ t \in Trees /\ M \in SUBSET Nodes /\ n \in M /\ n \in Nodes
         /\ y \in Nodes /\ y \notin M /\ y # Null /\ y # n /\ t.root \in M
         /\ \A x \in M : x \in Nodes /\ x # Null /\ Put(n, y, x) \in Nodes /\ Put(n, y, x) # Null
         /\ \A x \in M \cup {Null}, z \in M \cup {Null} : Put(n, y, x) = Put(n, y, z) <=> x = z
         /\ Put(n, y, Null) = Null
         /\ \A x \in M, f \in Sides : t.link[f][x] \in M \cup {Null}
         /\ \A x \in M : t.parent[x] \in M \cup {Null}
<1>1. Shaped(t, S) /\ n \in M /\ y \in Nodes /\ y \notin M
  BY DEF CanTake
<1>2. t \in Trees /\ M \in SUBSET Nodes /\ t.root \in M /\ n \in Nodes
  BY <1>1, SubType DEF Shaped
<1>3. y # Null /\ y # n /\ n # Null /\ \A x \in M : x \in Nodes /\ x # Null
  BY <1>1, <1>2, LinksAre
<1>4. /\ \A x \in M : Put(n, y, x) \in Nodes /\ Put(n, y, x) # Null
      /\ \A x \in M \cup {Null}, z \in M \cup {Null} : Put(n, y, x) = Put(n, y, z) <=> x = z
      /\ Put(n, y, Null) = Null
  BY <1>1, <1>3 DEF Put
<1>5. \A x \in M, f \in Sides : t.link[f][x] \in M \cup {Null}
  BY <1>1, ChildFacts
<1>6. \A x \in M : t.parent[x] \in M \cup {Null}
  BY <1>1, ParentFacts
<1> QED
  BY <1>1, <1>2, <1>3, <1>4, <1>5, <1>6

\* The subtrees with n in the place of v.
LEMMA TakeSets ==
  ASSUME NEW t, NEW S, NEW n, NEW y, CanTake(t, S, n, y), NEW M, M = Sub(S, t.root),
         NEW S2, S2 = Taken(S, M, n, y)
  PROVE  /\ S2 \in [Nodes -> SUBSET Nodes] /\ \A x \in Nodes : x \in S2[x]
         /\ \A x \in M \cup {Null} :
              Sub(S2, Put(n, y, x)) = {Put(n, y, z) : z \in Sub(S, x)}
<1>1. /\ Shaped(t, S) /\ M \in SUBSET Nodes /\ n \in M /\ n \in Nodes
      /\ y \in Nodes /\ y \notin M /\ y # Null /\ y # n
      /\ \A x \in M : x \in Nodes /\ x # Null /\ Put(n, y, x) \in Nodes /\ Put(n, y, x) # Null
      /\ Put(n, y, Null) = Null
  BY TakeTypes
<1>2. S \in [Nodes -> SUBSET Nodes] /\ \A x \in Nodes : x \in S[x]
  BY <1>1 DEF Shaped
<1>3. \A x \in M : S[x] \subseteq M
  BY <1>1, Nested
<1>4. \A x \in M : {Put(n, y, z) : z \in S[x]} \in SUBSET Nodes
  BY <1>1, <1>3
<1>5. S2 \in [Nodes -> SUBSET Nodes]
  <2> DEFINE body(x) == IF x = n THEN {n} ELSE IF x = y THEN {Put(n, y, z) : z \in S[n]}
                        ELSE IF x \in M THEN {Put(n, y, z) : z \in S[x]} ELSE S[x]
  <2>1. ASSUME NEW x \in Nodes PROVE body(x) \in SUBSET Nodes
    BY <1>1, <1>2, <1>4
  <2>2. S2 = [x \in Nodes |-> body(x)]
    BY DEF Taken
  <2> HIDE DEF body
  <2> QED
    BY <2>1, <2>2
<1>6. /\ S2[n] = {n} /\ S2[y] = {Put(n, y, z) : z \in S[n]}
      /\ \A x \in M : x # n => S2[x] = {Put(n, y, z) : z \in S[x]}
      /\ \A x \in Nodes : x \notin M /\ x # y => S2[x] = S[x]
  BY <1>1 DEF Taken
<1>7. ASSUME NEW x \in Nodes PROVE x \in S2[x]
  <2>1. CASE x = n
    BY <1>6, <2>1
  <2>2. CASE x = y
    <3>1. n \in S[n] /\ Put(n, y, n) = y
      BY <1>1, <1>2 DEF Put
    <3> QED
      BY <1>6, <2>2, <3>1
  <2>3. CASE x \in M /\ x # n
    <3>1. x \in S[x] /\ Put(n, y, x) = x
      BY <1>2, <2>3 DEF Put
    <3> QED
      BY <1>6, <2>3, <3>1
  <2>4. CASE x \notin M /\ x # y
    BY <1>2, <1>6, <2>4
  <2> QED
    BY <2>1, <2>2, <2>3, <2>4
<1>8. ASSUME NEW x \in M \cup {Null}
      PROVE  Sub(S2, Put(n, y, x)) = {Put(n, y, z) : z \in Sub(S, x)}
  <2>1. CASE x = Null
    BY <1>1, <2>1 DEF Sub
  <2>2. CASE x = n
    <3>1. Put(n, y, x) = y /\ Sub(S, x) = S[n] /\ Sub(S2, y) = S2[y]
      BY <1>1, <2>2 DEF Put, Sub
    <3> QED
      BY <1>6, <3>1
  <2>3. CASE x # Null /\ x # n
    <3>1. Put(n, y, x) = x /\ Sub(S, x) = S[x] /\ Sub(S2, x) = S2[x] /\ x \in M
      BY <2>3 DEF Put, Sub
    <3> QED
      BY <1>6, <2>3, <3>1
  <2> QED
    BY <2>1, <2>2, <2>3
<1> QED
  BY <1>5, <1>7, <1>8

\* Nothing of the order is lost if the newcomer fits where the old node was.
LEMMA TakeShaped ==
  ASSUME NEW t, NEW S, NEW n, NEW y, CanTake(t, S, n, y), NEW M, M = Sub(S, t.root),
         NEW S2, S2 = Taken(S, M, n, y), NEW u, IsTaken(u, t, M, n, y)
  PROVE  /\ Shaped(u, S2) /\ Sub(S2, u.root) = {Put(n, y, z) : z \in M}
         /\ Sub(S2, u.root) = (M \ {n}) \cup {y}
<1>1. /\ Shaped(t, S) /\ M \in SUBSET Nodes /\ n \in M /\ n \in Nodes
      /\ y \in Nodes /\ y \notin M /\ y # Null /\ y # n /\ t.root \in M
      /\ \A x \in M : x \in Nodes /\ x # Null /\ Put(n, y, x) \in Nodes /\ Put(n, y, x) # Null
      /\ Put(n, y, Null) = Null
      /\ \A x \in M \cup {Null}, z \in M \cup {Null} : Put(n, y, x) = Put(n, y, z) <=> x = z
      /\ \A x \in M, f \in Sides : t.link[f][x] \in M \cup {Null}
  BY TakeTypes
<1>2. /\ S2 \in [Nodes -> SUBSET Nodes] /\ \A x \in Nodes : x \in S2[x]
      /\ \A x \in M \cup {Null} : Sub(S2, Put(n, y, x)) = {Put(n, y, z) : z \in Sub(S, x)}
  BY TakeSets
<1>3. /\ u \in Trees /\ u.root = Put(n, y, t.root)
      /\ \A x \in M : u.parent[Put(n, y, x)] = Put(n, y, t.parent[x])
      /\ \A x \in M, f \in Sides : u.link[f][Put(n, y, x)] = Put(n, y, t.link[f][x])
  BY DEF IsTaken
<1>4. Sub(S2, u.root) = {Put(n, y, z) : z \in M}
  BY <1>1, <1>2, <1>3
<1>5. {Put(n, y, z) : z \in M} = (M \ {n}) \cup {y}
  BY <1>1 DEF Put
<1>6. u.parent[u.root] = Null
  <2>1. t.parent[t.root] = Null
    BY <1>1 DEF Shaped
  <2> QED
    BY <1>1, <1>3, <2>1
<1>7. ASSUME NEW x \in M PROVE NodeShaped(u, S2, Put(n, y, x))
  <2>1. NodeShaped(t, S, x) /\ x \in Nodes
    BY <1>1 DEF Shaped
  <2>2. PICK X : X = Put(n, y, x)
    OBVIOUS
  <2>3. \A f \in Sides : Sub(S2, u.link[f][X]) = {Put(n, y, z) : z \in Sub(S, t.link[f][x])}
    BY <1>1, <1>2, <1>3, <2>2
  <2>4. S2[X] = {Put(n, y, z) : z \in S[x]}
    <3>1. X # Null /\ x # Null
      BY <1>1, <2>2
    <3>2. Sub(S2, X) = {Put(n, y, z) : z \in Sub(S, x)}
      BY <1>2, <2>2
    <3> QED
      BY <3>1, <3>2 DEF Sub
  <2>5. \A w : w \in S2[X] <=> w = X \/ \E f \in Sides : w \in Sub(S2, u.link[f][X])
    <3>1. \A z : z \in S[x] <=> z = x \/ \E f \in Sides : z \in Sub(S, t.link[f][x])
      BY <2>1 DEF NodeShaped
    <3> QED
      <4>1. ASSUME NEW w \in S2[X], w # X PROVE \E f \in Sides : w \in Sub(S2, u.link[f][X])
        <5>1. PICK z \in S[x] : w = Put(n, y, z)
          BY <2>4
        <5>2. z # x
          BY <2>2, <4>1, <5>1
        <5>3. PICK f \in Sides : z \in Sub(S, t.link[f][x])
          BY <3>1, <5>2
        <5> QED
          BY <2>3, <5>1, <5>3
      <4>2. X \in S2[X]
        BY <2>2, <2>4, <3>1
      <4>3. ASSUME NEW f \in Sides, NEW w \in Sub(S2, u.link[f][X]) PROVE w \in S2[X]
        <5>1. PICK z \in Sub(S, t.link[f][x]) : w = Put(n, y, z)
          BY <2>3
        <5>2. z \in S[x]
          BY <3>1, <5>1
        <5> QED
          BY <2>4, <5>1, <5>2
      <4> QED
        BY <4>1, <4>2, <4>3
  <2>6. ASSUME NEW f \in Sides, NEW w \in Sub(S2, u.link[f][X]) PROVE Beyond(f, Key[w], Key[X])
    <3>1. PICK m \in Sub(S, t.link[f][x]) : w = Put(n, y, m)
      BY <2>3, <2>6
    <3>2. Beyond(f, Key[m], Key[x]) /\ m # x
      <4>1. Beyond(f, Key[m], Key[x])
        BY <2>1, <3>1 DEF NodeShaped
      <4>2. m # x
        <5>1. Shaped(t, S) /\ x \in Sub(S, t.root)
          BY <1>1
        <5>2. \A g \in Sides : \A z \in Sub(S, t.link[g][x]) : z # x
          BY <5>1, NodeSides
        <5> QED
          BY <3>1, <5>2
      <4> QED
        BY <4>1, <4>2
    <3>3. CASE x = n
      BY <2>2, <3>1, <3>2, <3>3 DEF CanTake, Put
    <3>4. CASE m = n
      BY <2>2, <3>1, <3>2, <3>4 DEF CanTake, Put
    <3>5. CASE x # n /\ m # n
      BY <2>2, <3>1, <3>2, <3>5 DEF Put
    <3> QED
      BY <3>3, <3>4, <3>5
  <2>7. ASSUME NEW f \in Sides, u.link[f][X] # Null
        PROVE  u.link[f][X] \in Sub(S2, u.root) /\ u.parent[u.link[f][X]] = X
    <3>1. PICK c : c = t.link[f][x]
      OBVIOUS
    <3>2. u.link[f][X] = Put(n, y, c) /\ c \in M
      BY <1>1, <1>3, <2>2, <2>7, <3>1
    <3>3. t.parent[c] = x
      BY <1>1, <2>1, <3>1, <3>2 DEF NodeShaped
    <3> QED
      BY <1>3, <1>4, <2>2, <3>2, <3>3
  <2> QED
    BY <2>2, <2>5, <2>6, <2>7 DEF NodeShaped
<1>8. \A w \in Sub(S2, u.root) : NodeShaped(u, S2, w)
  BY <1>4, <1>7
<1> QED
  BY <1>2, <1>3, <1>4, <1>5, <1>6, <1>8 DEF Shaped

-----------------------------------------------------------------------------
(* It takes the colour too, so the colours are as right as they were.         *)

Puts(n, y, M) == {Put(n, y, z) : z \in M}

LevelsTake(t, S, M, n, y, u, H, H2, q, f) ==
  /\ CanTake(t, S, n, y) /\ M = Sub(S, t.root) /\ IsTaken(u, t, M, n, y)
  /\ H \in [Nodes -> Nat] /\ H2 = [H EXCEPT ![y] = H[n]]
  /\ q \in M \cup {Null} /\ Levelled(t, M, H, q, f)

\* The levels stay as they were.
LEMMA TakeLevels ==
  ASSUME NEW t, NEW S, NEW M, NEW n, NEW y, NEW u, NEW H, NEW H2, NEW q, NEW f,
         LevelsTake(t, S, M, n, y, u, H, H2, q, f)
  PROVE  H2 \in [Nodes -> Nat] /\ Levelled(u, Puts(n, y, M), H2, Put(n, y, q), f)
<1>0. /\ CanTake(t, S, n, y) /\ M = Sub(S, t.root) /\ IsTaken(u, t, M, n, y)
      /\ H \in [Nodes -> Nat] /\ H2 = [H EXCEPT ![y] = H[n]]
      /\ q \in M \cup {Null} /\ Levelled(t, M, H, q, f)
  BY DEF LevelsTake
<1>1. /\ n \in M /\ n \in Nodes /\ y \in Nodes /\ y \notin M /\ y # Null /\ y # n
      /\ \A x \in M : x \in Nodes /\ x # Null /\ Put(n, y, x) \in Nodes /\ Put(n, y, x) # Null
      /\ Put(n, y, Null) = Null
      /\ \A x \in M \cup {Null}, z \in M \cup {Null} : Put(n, y, x) = Put(n, y, z) <=> x = z
      /\ \A x \in M, g \in Sides : t.link[g][x] \in M \cup {Null}
  BY <1>0, TakeTypes
<1>2. H2 \in [Nodes -> Nat] /\ H2[y] = H[n] /\ \A x \in Nodes : x # y => H2[x] = H[x]
  BY <1>0, <1>1
<1>3. \A x \in M : H2[Put(n, y, x)] = H[x]
  BY <1>1, <1>2 DEF Put
<1>4. \A x \in M \cup {Null} : High(H2, Put(n, y, x)) = High(H, x)
  BY <1>1, <1>3 DEF High
<1>5. /\ \A x \in M : u.color[Put(n, y, x)] = t.color[x]
      /\ \A x \in M, g \in Sides : u.link[g][Put(n, y, x)] = Put(n, y, t.link[g][x])
  BY <1>0 DEF IsTaken
<1>6. ASSUME NEW x \in M PROVE LevelAt(u, H2, Put(n, y, q), f, Put(n, y, x))
  <2>1. PICK X, Q : X = Put(n, y, x) /\ Q = Put(n, y, q)
    OBVIOUS
  <2> SUFFICES ASSUME NEW g \in Sides
               PROVE  H2[X] = High(H2, u.link[g][X]) + Short(Q, f, X, g) + Blacks(u, X)
    BY <2>1 DEF LevelAt
  <2>2. H[x] = High(H, t.link[g][x]) + Short(q, f, x, g) + Blacks(t, x)
    BY <1>0 DEF Levelled, LevelAt
  <2>3. H2[X] = H[x] /\ Blacks(u, X) = Blacks(t, x)
    BY <1>3, <1>5, <2>1 DEF Blacks
  <2>4. X = Q <=> x = q
    BY <1>0, <1>1, <2>1
  <2>5. Short(Q, f, X, g) = Short(q, f, x, g)
    BY <2>4 DEF Short
  <2>6. High(H2, u.link[g][X]) = High(H, t.link[g][x])
    <3>1. PICK c : c = t.link[g][x]
      OBVIOUS
    <3>2. u.link[g][X] = Put(n, y, c) /\ c \in M \cup {Null}
      BY <1>1, <1>5, <2>1, <3>1
    <3> QED
      BY <1>4, <3>1, <3>2
  <2> QED
    BY <2>2, <2>3, <2>5, <2>6
<1> QED
  BY <1>2, <1>6 DEF Levelled, Puts

\* So do the reds.
LEMMA TakeCalm ==
  ASSUME NEW t, NEW S, NEW n, NEW y, CanTake(t, S, n, y), NEW M, M = Sub(S, t.root),
         NEW u, IsTaken(u, t, M, n, y),
         NEW a \in M \cup {Null}, NEW b \in M \cup {Null}, Calm(t, M, a, b)
  PROVE  /\ Calm(u, Puts(n, y, M), Put(n, y, a), Put(n, y, b))
         /\ \A x \in M \cup {Null} : IsRed(u, Put(n, y, x)) <=> IsRed(t, x)
<1>1. /\ \A x \in M : x \in Nodes /\ x # Null /\ Put(n, y, x) \in Nodes /\ Put(n, y, x) # Null
      /\ Put(n, y, Null) = Null
      /\ \A x \in M \cup {Null}, z \in M \cup {Null} : Put(n, y, x) = Put(n, y, z) <=> x = z
      /\ \A x \in M, g \in Sides : t.link[g][x] \in M \cup {Null}
  BY TakeTypes
<1>2. /\ \A x \in M : u.color[Put(n, y, x)] = t.color[x]
      /\ \A x \in M, g \in Sides : u.link[g][Put(n, y, x)] = Put(n, y, t.link[g][x])
  BY DEF IsTaken
<1>3. \A x \in M \cup {Null} : IsRed(u, Put(n, y, x)) <=> IsRed(t, x)
  BY <1>1, <1>2 DEF IsRed
<1>4. ASSUME NEW x \in M PROVE CalmAt(u, Put(n, y, a), Put(n, y, b), Put(n, y, x))
  <2> SUFFICES ASSUME NEW g \in Sides, IsRed(u, Put(n, y, x)),
                      IsRed(u, u.link[g][Put(n, y, x)])
               PROVE  u.link[g][Put(n, y, x)] = Put(n, y, a) \/ Put(n, y, x) = Put(n, y, b)
    BY DEF CalmAt
  <2>1. PICK c : c = t.link[g][x]
    OBVIOUS
  <2>2. u.link[g][Put(n, y, x)] = Put(n, y, c) /\ c \in M \cup {Null}
    BY <1>1, <1>2, <2>1
  <2>3. IsRed(t, x) /\ IsRed(t, c)
    BY <1>3, <2>2
  <2>4. c = a \/ x = b
    BY <2>1, <2>3 DEF Calm, CalmAt
  <2> QED
    BY <2>2, <2>4
<1> QED
  BY <1>3, <1>4 DEF Calm, Puts

LeftTaken(t, S, M, n, y, u, H, color, c, p) ==
  /\ CanTake(t, S, n, y) /\ M = Sub(S, t.root) /\ IsTaken(u, t, M, n, y)
  /\ c \in M \cup {Null} /\ LeftBehind(t, S, H, color, c, p)

\* A tree that lacks something below a place lacks the same afterwards.
LEMMA TakeKeeps ==
  ASSUME NEW t, NEW S, NEW M, NEW n, NEW y, NEW u, NEW H, NEW color, NEW c, NEW p,
         LeftTaken(t, S, M, n, y, u, H, color, c, p)
  PROVE  \E S2, H2 : /\ LeftBehind(u, S2, H2, color, Put(n, y, c), Put(n, y, p))
                     /\ Sub(S2, u.root) = (M \ {n}) \cup {y}
<1>0. /\ CanTake(t, S, n, y) /\ M = Sub(S, t.root) /\ IsTaken(u, t, M, n, y)
      /\ c \in M \cup {Null} /\ LeftBehind(t, S, H, color, c, p)
  BY DEF LeftTaken
<1>1. PICK S2, H2 : S2 = Taken(S, M, n, y) /\ H2 = [H EXCEPT ![y] = H[n]]
  OBVIOUS
<1>2. PICK M2 : M2 = Puts(n, y, M)
  OBVIOUS
<1>3. Shaped(u, S2) /\ Sub(S2, u.root) = M2 /\ M2 = (M \ {n}) \cup {y}
  <2>1. S2 = Taken(S, M, n, y)
    BY <1>1
  <2>2. /\ Shaped(u, S2) /\ Sub(S2, u.root) = {Put(n, y, z) : z \in M}
        /\ Sub(S2, u.root) = (M \ {n}) \cup {y}
    BY <1>0, <2>1, TakeShaped
  <2> QED
    BY <1>2, <2>2 DEF Puts
<1>4. /\ t.root \in M /\ M \in SUBSET Nodes
      /\ \A x \in M : x \in Nodes /\ x # Null
      /\ Put(n, y, Null) = Null
      /\ \A x \in M \cup {Null}, z \in M \cup {Null} : Put(n, y, x) = Put(n, y, z) <=> x = z
      /\ \A x \in M, g \in Sides : t.link[g][x] \in M \cup {Null}
  BY <1>0, TakeTypes
<1>5. /\ u.root = Put(n, y, t.root)
      /\ \A x \in M, g \in Sides : u.link[g][Put(n, y, x)] = Put(n, y, t.link[g][x])
  BY <1>0 DEF IsTaken
<1>6. Null \in M \cup {Null}
  OBVIOUS
<1>7. CASE color # "black"
  <2>1. /\ H \in [Nodes -> Nat] /\ ~IsRed(t, t.root)
        /\ Levelled(t, M, H, Null, "left") /\ Calm(t, M, Null, Null)
    BY <1>0, <1>7 DEF LeftBehind, Idle
  <2>2. H2 \in [Nodes -> Nat] /\ Levelled(u, M2, H2, Null, "left")
    <3>1. LevelsTake(t, S, M, n, y, u, H, H2, Null, "left")
      BY <1>0, <1>1, <1>6, <2>1 DEF LevelsTake
    <3>2. H2 \in [Nodes -> Nat] /\ Levelled(u, Puts(n, y, M), H2, Put(n, y, Null), "left")
      BY <3>1, TakeLevels
    <3> QED
      BY <1>2, <1>4, <3>2
  <2>3. Calm(u, M2, Null, Null) /\ \A x \in M \cup {Null} : IsRed(u, Put(n, y, x)) <=> IsRed(t, x)
    BY <1>0, <1>2, <1>4, <1>6, <2>1, TakeCalm
  <2>4. ~IsRed(u, u.root)
    BY <1>4, <1>5, <2>1, <2>3
  <2>5. Idle(u, S2, H2)
    BY <1>3, <2>2, <2>3, <2>4 DEF Idle
  <2> QED
    BY <1>3, <1>7, <2>5 DEF LeftBehind
<1>8. CASE color = "black"
  <2>1. Erasing(t, S, H, c, p)
    BY <1>0, <1>8 DEF LeftBehind
  <2>2. H \in [Nodes -> Nat] /\ Calm(t, M, c, c)
    BY <1>0, <2>1 DEF Erasing
  <2>3. PICK c2, p2 : c2 = Put(n, y, c) /\ p2 = Put(n, y, p)
    OBVIOUS
  <2>4. Calm(u, M2, c2, c2) /\ \A x \in M \cup {Null} : IsRed(u, Put(n, y, x)) <=> IsRed(t, x)
    BY <1>0, <1>2, <2>2, <2>3, TakeCalm
  <2>5. c2 = u.root <=> c = t.root
    BY <1>0, <1>4, <1>5, <2>3
  <2>6. CASE c = t.root
    <3>1. Levelled(t, M, H, Null, "left")
      BY <1>0, <2>1, <2>6 DEF Erasing
    <3>2. H2 \in [Nodes -> Nat] /\ Levelled(u, M2, H2, Null, "left")
      <4>1. LevelsTake(t, S, M, n, y, u, H, H2, Null, "left")
        BY <1>0, <1>1, <1>6, <2>2, <3>1 DEF LevelsTake
      <4>2. /\ H2 \in [Nodes -> Nat]
            /\ Levelled(u, Puts(n, y, M), H2, Put(n, y, Null), "left")
        BY <4>1, TakeLevels
      <4> QED
        BY <1>2, <1>4, <4>2
    <3>3. Erasing(u, S2, H2, c2, p2)
      BY <1>3, <2>4, <2>5, <2>6, <3>2 DEF Erasing
    <3> QED
      BY <1>3, <1>8, <2>3, <3>3 DEF LeftBehind
  <2>7. CASE c # t.root
    <3>1. PICK d : d = SideOf(t, p, c)
      OBVIOUS
    <3>2. /\ p \in M /\ d \in Sides /\ c = t.link[d][p] /\ Levelled(t, M, H, p, d)
          /\ ~IsRed(t, t.root)
      BY <1>0, <2>1, <2>7, <3>1 DEF Erasing, Lacking
    <3>3. H2 \in [Nodes -> Nat] /\ Levelled(u, M2, H2, p2, d)
      <4>1. LevelsTake(t, S, M, n, y, u, H, H2, p, d)
        BY <1>0, <1>1, <2>2, <3>2 DEF LevelsTake
      <4>2. /\ H2 \in [Nodes -> Nat]
            /\ Levelled(u, Puts(n, y, M), H2, Put(n, y, p), d)
        BY <4>1, TakeLevels
      <4> QED
        BY <1>2, <2>3, <4>2
    <3>4. ~IsRed(u, u.root)
      BY <1>4, <1>5, <2>4, <3>2
    <3>5. p2 \in M2 /\ c2 = u.link[d][p2]
      BY <1>2, <1>5, <2>3, <3>2 DEF Puts
    <3>6. SideOf(u, p2, c2) = d
      <4>1. "left" \in Sides
        BY DEF Sides
      <4>2. u.link["left"][p2] = c2 <=> t.link["left"][p] = c
        BY <1>4, <1>5, <2>3, <3>2, <4>1
      <4> QED
        BY <3>1, <4>2 DEF SideOf
    <3>7. Lacking(u, S2, H2, c2, p2, d)
      BY <1>3, <2>4, <3>2, <3>3, <3>4, <3>5 DEF Lacking
    <3>8. Erasing(u, S2, H2, c2, p2)
      BY <1>3, <2>4, <2>5, <2>7, <3>3, <3>6, <3>7 DEF Erasing
    <3> QED
      BY <1>3, <1>8, <2>3, <3>8 DEF LeftBehind
  <2> QED
    BY <2>6, <2>7
<1> QED
  BY <1>7, <1>8

-----------------------------------------------------------------------------
(* ks_rb_erase: the successor y of a node n with two children is taken out    *)
(* and put where n was.                                                       *)

HasSuccessor(t, S, n, l, r, y, c, p) ==
  /\ Shaped(t, S) /\ n \in Sub(S, t.root)
  /\ l = t.link["left"][n] /\ r = t.link["right"][n] /\ l # Null /\ r # Null
  /\ IsOutermost(t, S, "left", r, y) /\ c = t.link["right"][y] /\ p = t.parent[y]

\* The successor is on the right, has no left child and fits where n is.
LEMMA SuccessorFacts ==
  ASSUME NEW t, NEW S, NEW n, NEW l, NEW r, NEW y, NEW c, NEW p,
         HasSuccessor(t, S, n, l, r, y, c, p), NEW M, M = Sub(S, t.root)
  PROVE  /\ Shaped(t, S) /\ t \in Trees /\ M \in SUBSET Nodes
         /\ n \in M /\ l \in M /\ r \in M /\ y \in M /\ p \in M /\ y # n /\ y # l /\ l # r
         /\ t.parent[l] = n /\ t.parent[r] = n /\ t.parent[y] = p /\ y # t.root
         /\ \A x \in M : t.parent[x] = n => x = l \/ x = r
         /\ c # Null => c \in M /\ t.parent[c] = y /\ c # n
         /\ p = n <=> y = r
         /\ p # n => p \in S[r] /\ t.link["left"][p] = y
         /\ \A x \in M, f \in Sides : t.link[f][x] = y => x = p /\ (x # n => f = "left")
                                                          /\ (x = n => f = "right")
         /\ t.parent[n] \notin S[n] /\ t.parent[n] \in M \cup {Null}
         /\ S[r] \subseteq S[n] /\ y \in S[r] /\ n \notin S[r]
         /\ t.link["left"][y] = Null /\ c = t.link["right"][y]
         /\ l = t.link["left"][n] /\ r = t.link["right"][n]
<1>0. /\ Shaped(t, S) /\ n \in M /\ l = t.link["left"][n] /\ r = t.link["right"][n]
      /\ l # Null /\ r # Null /\ y \in S[r] /\ t.link["left"][y] = Null
      /\ \A m \in S[r] : m # y => Beyond(Opposite("left"), Key[m], Key[y])
      /\ c = t.link["right"][y] /\ p = t.parent[y]
  BY DEF HasSuccessor, IsOutermost
<1>1. "left" \in Sides /\ "right" \in Sides /\ Opposite("left") = "right" /\ "left" # "right"
      /\ Opposite("right") = "left"
  <2>1. "left" \in Sides /\ "right" \in Sides /\ "left" # "right"
    BY DEF Sides
  <2> QED
    BY <2>1, OppositeFacts DEF Sides
<1>2. t \in Trees /\ M \in SUBSET Nodes
  BY <1>0, SubType DEF Shaped
<1>3. /\ l \in M /\ l # n /\ t.parent[l] = n /\ l \in S[l] /\ S[l] \subseteq S[n] /\ n \notin S[l]
  BY <1>0, <1>1, ChildFacts
<1>4. /\ r \in M /\ r # n /\ t.parent[r] = n /\ r \in S[r] /\ S[r] \subseteq S[n] /\ n \notin S[r]
  BY <1>0, <1>1, ChildFacts
<1>5. \A x \in S[r] : x \notin S[l]
  <2>1. \A x \in Sub(S, t.link["right"][n]) : x \notin Sub(S, t.link[Opposite("right")][n])
    BY <1>0, <1>1, NodeSides
  <2> QED
    BY <1>0, <1>1, <2>1 DEF Sub
<1>6. y \in M /\ y # n /\ y # l /\ l # r
  BY <1>0, <1>3, <1>4, <1>5, Nested
<1>7. y # t.root
  <2>1. M = S[t.root]
    BY <1>0, SubType DEF Sub
  <2>2. S[y] \subseteq S[r]
    BY <1>0, <1>4, Nested
  <2> QED
    BY <1>0, <1>4, <2>1, <2>2
<1>8. /\ p \in M /\ p # y /\ S[y] \subseteq S[p] /\ p \notin S[y]
      /\ \E d \in Sides : t.link[d][p] = y
      /\ \A x \in M, f \in Sides : t.link[f][x] = y => x = p
  BY <1>0, <1>6, <1>7, ParentFacts
<1>9. ASSUME y = r PROVE p = n
  BY <1>0, <1>4, <1>9
<1>10. ASSUME y # r PROVE p # n /\ p \in S[r] /\ t.link["left"][p] = y
  <2>1. PICK f \in Sides : t.link[f][r] # Null /\ y \in S[t.link[f][r]]
    BY <1>0, <1>4, <1>10, NodeSides
  <2>2. t.link[f][r] \in M /\ r \notin S[t.link[f][r]]
    <3>1. Shaped(t, S) /\ f \in Sides /\ r \in Sub(S, t.root)
      BY <1>0, <1>4
    <3> QED
      BY <2>1, <3>1, ChildFacts
  <2>3. p \in S[r]
    <3>1. y \in S[p] /\ y \in S[r]
      BY <1>0, <1>2, <1>6, <1>8, SubType
    <3>2. p \in S[r] \/ r \in S[p]
      BY <1>0, <1>4, <1>8, <3>1, Laminar
    <3>3. ASSUME r \in S[p], r # p PROVE FALSE
      <4>1. PICK g \in Sides : t.link[g][p] # Null /\ r \in S[t.link[g][p]]
        BY <1>0, <1>8, <3>3, NodeSides
      <4>2. t.link[g][p] \in M
        BY <1>0, <1>8, <4>1, ChildFacts
      <4>3. y \in S[t.link[g][p]]
        BY <1>0, <4>1, <4>2, Nested
      <4>4. PICK h \in Sides : t.link[h][p] = y
        BY <1>8
      <4>5. h = g
        <5>1. SUFFICES ASSUME h # g PROVE FALSE
          OBVIOUS
        <5>2. h = Opposite(g)
          BY <5>1, OppositeFacts
        <5>3. y \in Sub(S, t.link[h][p]) /\ y \in Sub(S, t.link[g][p])
          BY <1>0, <1>2, <1>6, <4>1, <4>3, <4>4, SubType DEF Sub
        <5> QED
          BY <1>0, <1>8, <5>2, <5>3, NodeSides
      <4>6. r \in S[y]
        BY <4>1, <4>4, <4>5
      <4>7. S[r] \subseteq S[y]
        BY <1>0, <1>6, <4>6, Nested
      <4>8. PICK k \in Sides : t.link[k][y] # Null /\ r \in S[t.link[k][y]]
        BY <1>0, <1>6, <1>10, <4>6, NodeSides
      <4>9. t.link[k][y] \in M /\ y \notin S[t.link[k][y]]
        BY <1>0, <1>6, <4>8, ChildFacts
      <4>10. S[r] \subseteq S[t.link[k][y]]
        BY <1>0, <4>8, <4>9, Nested
      <4> QED
        BY <1>0, <4>9, <4>10
    <3>4. p = r => r \in S[r]
      BY <1>4
    <3> QED
      BY <3>2, <3>3, <3>4
  <2>4. p # n
    BY <1>4, <2>3
  <2>5. PICK d \in Sides : t.link[d][p] = y
    BY <1>8
  <2>6. d = "left"
    <3>1. SUFFICES ASSUME d # "left" PROVE FALSE
      OBVIOUS
    <3>2. d = "right"
      BY <3>1 DEF Sides
    <3>3. t.link["right"][p] # Null
      BY <1>2, <1>6, <2>5, <3>2, LinksAre
    <3>4. Beyond("right", Key[y], Key[p])
      <4>1. \A m \in S[t.link["right"][p]] : Beyond("right", Key[m], Key[p])
        BY <1>0, <1>1, <1>8, <3>3, ChildFacts
      <4>2. y \in S[y]
        BY <1>0, <1>2, <1>6, SubType
      <4> QED
        BY <2>5, <3>2, <4>1, <4>2
    <3>5. Beyond("right", Key[p], Key[y])
      BY <1>0, <1>1, <1>8, <2>3
    <3>6. Key[p] \in Int /\ Key[y] \in Int
      BY <1>0, <1>2, <1>6, <1>8, SubType
    <3> QED
      BY <3>4, <3>5, <3>6, <1>1 DEF Beyond
  <2> QED
    BY <2>3, <2>4, <2>5, <2>6
<1>11. ASSUME NEW x \in M, t.parent[x] = n PROVE x = l \/ x = r
  <2>1. x # t.root
    BY <1>0, <1>2, <1>11, ParentFacts, LinksAre
  <2>2. PICK d \in Sides : t.link[d][n] = x
    BY <1>0, <1>11, <2>1, ParentFacts
  <2> QED
    BY <1>0, <2>2 DEF Sides
<1>12. c # Null => c \in M /\ t.parent[c] = y /\ c # n
  <2>1. ASSUME c # Null PROVE c \in M /\ t.parent[c] = y /\ c \in S[y]
    BY <1>0, <1>1, <1>6, <2>1, ChildFacts
  <2>2. S[y] \subseteq S[r]
    BY <1>0, <1>4, Nested
  <2> QED
    BY <1>4, <2>1, <2>2
<1>13. ASSUME NEW x \in M, NEW f \in Sides, t.link[f][x] = y
       PROVE  x = p /\ (x # n => f = "left") /\ (x = n => f = "right")
  <2>1. x = p
    BY <1>8, <1>13
  <2>2. t.link[Opposite(f)][x] # y
    <3>1. t.link[f][x] # Null
      BY <1>2, <1>6, <1>13, LinksAre
    <3> QED
      BY <1>0, <1>13, <3>1, NodeSides
  <2>3. x = n => y = r
    BY <1>10, <2>1
  <2>4. x # n => t.link["left"][x] = y
    BY <1>9, <1>10, <2>1
  <2> QED
    BY <1>0, <1>1, <1>6, <2>1, <2>2, <2>3, <2>4 DEF Sides
<1>14. t.parent[n] \notin S[n] /\ t.parent[n] \in M \cup {Null}
  <2>1. CASE n = t.root
    <3>1. t.parent[n] = Null /\ S[n] \in SUBSET Nodes
      <4>1. Shaped(t, S) /\ n \in Sub(S, t.root) /\ n \in Nodes
        BY <1>0, <1>2
      <4> QED
        BY <2>1, <4>1, ParentFacts DEF Shaped
    <3> QED
      BY <3>1, LinksAre
  <2>2. CASE n # t.root
    BY <1>0, <2>2, ParentFacts
  <2> QED
    BY <2>1, <2>2
<1> QED
  BY <1>0, <1>2, <1>3, <1>4, <1>6, <1>7, <1>8, <1>9, <1>10, <1>11, <1>12, <1>13, <1>14

-----------------------------------------------------------------------------
(* The successor takes the place of n in the tree it was taken out of.        *)

IsParented(u, t, n, p) ==
  /\ u \in Trees /\ u.root = t.root /\ u.link = t.link /\ u.color = t.color
  /\ \A x \in Nodes : u.parent[x] = IF x = n THEN p ELSE t.parent[x]

\* What SetParent does, as one predicate.
LEMMA Parented ==
  ASSUME NEW t \in Trees, NEW n \in Links, NEW p \in Links
  PROVE  IsParented(SetParent(t, n, p), t, n, p)
  BY SetParentFields DEF IsParented

IsRelinked(u, t, p, old, new) ==
  /\ u \in Trees /\ u.parent = t.parent /\ u.color = t.color
  /\ u.root = IF p = Null THEN new ELSE t.root
  /\ \A f \in Sides, x \in Nodes :
       u.link[f][x] = IF p # Null /\ x = p /\ f = SideOf(t, p, old) THEN new ELSE t.link[f][x]

\* What Relink does, as one predicate.
LEMMA Relinked ==
  ASSUME NEW t \in Trees, NEW p \in Links, NEW old \in Nodes, NEW new \in Links
  PROVE  IsRelinked(Relink(t, p, old, new), t, p, old, new)
  BY RelinkFields DEF IsRelinked

IsCleared(u, t, n) ==
  /\ u \in Trees /\ u.root = t.root
  /\ \A f \in Sides, x \in Nodes : u.link[f][x] = IF x = n THEN Null ELSE t.link[f][x]
  /\ \A x \in Nodes : u.parent[x] = IF x = n THEN Null ELSE t.parent[x]
  /\ \A x \in Nodes : u.color[x] = IF x = n THEN "red" ELSE t.color[x]

\* What Clear does, as one predicate.
LEMMA Cleared ==
  ASSUME NEW t \in Trees, NEW n \in Nodes
  PROVE  IsCleared(Clear(t, n), t, n)
  BY ClearFields DEF IsCleared

IsLinkSet(u, t, d, n, v) ==
  /\ u \in Trees /\ u.root = t.root /\ u.parent = t.parent /\ u.color = t.color
  /\ \A f \in Sides, x \in Nodes : u.link[f][x] = IF f = d /\ x = n THEN v ELSE t.link[f][x]

\* What an assignment to one link does, as one predicate.
LEMMA LinkSet ==
  ASSUME NEW t \in Trees, NEW d \in Sides, NEW n \in Nodes, NEW v \in Links
  PROVE  IsLinkSet([t EXCEPT !.link[d][n] = v], t, d, n, v)
  BY LinkFields DEF IsLinkSet

Freed(t, n, r, y, c, p) ==
  LET up == Relink(t, t.parent[n], n, y)
  IN  IF p = n THEN up
      ELSE SetParent([SetParent(up, c, p) EXCEPT !.link["left"][p] = c,
                                                 !.link["right"][y] = r], r, y)

Succeeded(t, n, l, r, y, c, p) ==
  LET freed == Freed(t, n, r, y, c, p)
      taken == [freed EXCEPT !.parent[y] = t.parent[n], !.color[y] = t.color[n],
                             !.link["left"][y] = l]
  IN  Clear(SetParent(taken, l, y), n)

FreeTypes(t, n, r, y, c, p) ==
  /\ t \in Trees /\ n \in Nodes /\ r \in Nodes /\ y \in Nodes /\ c \in Links /\ p \in Nodes
  /\ t.parent[n] \in Links

IsFreed(u, t, n, r, y, c, p) ==
  /\ u \in Trees /\ u.color = t.color
  /\ u.root = IF t.parent[n] = Null THEN y ELSE t.root
  /\ \A f \in Sides, x \in Nodes :
       u.link[f][x] = IF p # n /\ x = y /\ f = "right" THEN r
                      ELSE IF p # n /\ x = p /\ f = "left" THEN c
                      ELSE IF x = t.parent[n] /\ f = SideOf(t, t.parent[n], n) THEN y
                      ELSE t.link[f][x]
  /\ \A x \in Nodes : u.parent[x] = IF p # n /\ x = r THEN y
                                    ELSE IF p # n /\ x = c THEN p ELSE t.parent[x]

\* What lifting the successor out does, field by field.
LEMMA FreedFields ==
  ASSUME NEW t, NEW n, NEW r, NEW y, NEW c, NEW p, FreeTypes(t, n, r, y, c, p)
  PROVE  IsFreed(Freed(t, n, r, y, c, p), t, n, r, y, c, p)
<1>0. /\ t \in Trees /\ n \in Nodes /\ r \in Nodes /\ y \in Nodes /\ c \in Links /\ p \in Nodes
      /\ t.parent[n] \in Links
  BY DEF FreeTypes
<1> DEFINE u == Freed(t, n, r, y, c, p)
<1> HIDE DEF u
<1>a. SUFFICES IsFreed(u, t, n, r, y, c, p)
  BY DEF u
<1>1. PICK up : up = Relink(t, t.parent[n], n, y)
  OBVIOUS
<1>2. /\ up \in Trees /\ up.parent = t.parent /\ up.color = t.color
      /\ up.root = IF t.parent[n] = Null THEN y ELSE t.root
      /\ \A f \in Sides, x \in Nodes :
           up.link[f][x] = IF t.parent[n] # Null /\ x = t.parent[n] /\ f = SideOf(t, t.parent[n], n)
                           THEN y ELSE t.link[f][x]
  <2>1. y \in Links
    BY <1>0, LinksAre
  <2> QED
    <3>1. IsRelinked(up, t, t.parent[n], n, y)
      BY <1>0, <1>1, <2>1, Relinked
    <3> QED
      BY <3>1 DEF IsRelinked
<1>3. \A x \in Nodes : x # Null
  BY LinksAre
<1>4. CASE p = n
  <2>1. u = up
    BY <1>1, <1>4 DEF u, Freed
  <2> QED
    BY <1>2, <1>3, <1>4, <2>1 DEF IsFreed
<1>5. CASE p # n
  <2>1. PICK a : a = SetParent(up, c, p)
    OBVIOUS
  <2>2. p \in Links /\ y \in Links /\ r \in Links
    BY <1>0, LinksAre
  <2>3. /\ a \in Trees /\ a.root = up.root /\ a.link = up.link /\ a.color = up.color
        /\ \A x \in Nodes : a.parent[x] = IF x = c THEN p ELSE up.parent[x]
    <3>1. IsParented(a, up, c, p)
      BY <1>0, <1>2, <2>1, <2>2, Parented
    <3> QED
      BY <3>1 DEF IsParented
  <2> DEFINE b == [a EXCEPT !.link["left"][p] = c]
             w == [b EXCEPT !.link["right"][y] = r]
  <2>4. u = SetParent(w, r, y)
    BY <1>1, <1>5, <2>1 DEF u, Freed
  <2>5. /\ b \in Trees /\ b.root = a.root /\ b.parent = a.parent /\ b.color = a.color
        /\ \A f \in Sides, x \in Nodes :
             b.link[f][x] = IF f = "left" /\ x = p THEN c ELSE a.link[f][x]
    <3>1. a \in Trees /\ "left" \in Sides /\ p \in Nodes /\ c \in Links
      BY <1>0, <2>3 DEF Sides
    <3> QED
      BY <3>1, LinkFields
  <2> HIDE DEF b
  <2>6. /\ w \in Trees /\ w.root = b.root /\ w.parent = b.parent /\ w.color = b.color
        /\ \A f \in Sides, x \in Nodes :
             w.link[f][x] = IF f = "right" /\ x = y THEN r ELSE b.link[f][x]
    <3>1. b \in Trees /\ "right" \in Sides /\ y \in Nodes /\ r \in Links
      BY <1>0, <2>2, <2>5 DEF Sides
    <3> QED
      BY <3>1, LinkFields
  <2> HIDE DEF w
  <2>7. /\ u \in Trees /\ u.root = w.root /\ u.link = w.link /\ u.color = w.color
        /\ \A x \in Nodes : u.parent[x] = IF x = r THEN y ELSE w.parent[x]
    <3>1. IsParented(u, w, r, y)
      BY <2>2, <2>4, <2>6, Parented
    <3> QED
      BY <3>1 DEF IsParented
  <2> QED
    BY <1>2, <1>3, <1>5, <2>3, <2>5, <2>6, <2>7 DEF IsFreed
<1> QED
  BY <1>4, <1>5

SucceedTypes(t, n, l, r, y, c, p) ==
  FreeTypes(t, n, r, y, c, p) /\ l \in Nodes /\ y # n /\ y # l /\ l # n

IsSucceeded(u, t, n, l, r, y, c, p) ==
  /\ u \in Trees
  /\ u.root = IF t.parent[n] = Null THEN y ELSE t.root
  /\ \A f \in Sides, x \in Nodes : x # n =>
       u.link[f][x] = IF x = y /\ f = "left" THEN l
                      ELSE IF p # n /\ x = y /\ f = "right" THEN r
                      ELSE IF p # n /\ x = p /\ f = "left" THEN c
                      ELSE IF x = t.parent[n] /\ f = SideOf(t, t.parent[n], n) THEN y
                      ELSE t.link[f][x]
  /\ \A x \in Nodes : x # n =>
       u.parent[x] = IF x = l THEN y ELSE IF x = y THEN t.parent[n]
                     ELSE IF p # n /\ x = r THEN y
                     ELSE IF p # n /\ x = c THEN p ELSE t.parent[x]
  /\ \A x \in Nodes : x # n => u.color[x] = IF x = y THEN t.color[n] ELSE t.color[x]

\* What putting it where n was does, field by field.
LEMMA SucceededFields ==
  ASSUME NEW t, NEW n, NEW l, NEW r, NEW y, NEW c, NEW p, SucceedTypes(t, n, l, r, y, c, p)
  PROVE  IsSucceeded(Succeeded(t, n, l, r, y, c, p), t, n, l, r, y, c, p)
<1>0. /\ t \in Trees /\ n \in Nodes /\ r \in Nodes /\ y \in Nodes /\ c \in Links /\ p \in Nodes
      /\ t.parent[n] \in Links /\ l \in Nodes /\ y # n /\ y # l /\ l # n
  BY DEF SucceedTypes, FreeTypes
<1> DEFINE u == Succeeded(t, n, l, r, y, c, p)
<1> HIDE DEF u
<1>a. SUFFICES IsSucceeded(u, t, n, l, r, y, c, p)
  BY DEF u
<1>1. PICK w : w = Freed(t, n, r, y, c, p)
  OBVIOUS
<1>2. /\ w \in Trees /\ w.color = t.color
      /\ w.root = IF t.parent[n] = Null THEN y ELSE t.root
      /\ \A f \in Sides, x \in Nodes :
              w.link[f][x] = IF p # n /\ x = y /\ f = "right" THEN r
                             ELSE IF p # n /\ x = p /\ f = "left" THEN c
                             ELSE IF x = t.parent[n] /\ f = SideOf(t, t.parent[n], n) THEN y
                             ELSE t.link[f][x]
      /\ \A x \in Nodes : w.parent[x] = IF p # n /\ x = r THEN y
                                        ELSE IF p # n /\ x = c THEN p ELSE t.parent[x]
  <2>1. IsFreed(w, t, n, r, y, c, p)
    BY <1>1, FreedFields DEF SucceedTypes
  <2> QED
    BY <2>1 DEF IsFreed
<1>3. t.color[n] \in Colors
  BY <1>0 DEF Trees
<1> DEFINE a == [w EXCEPT !.parent[y] = t.parent[n], !.color[y] = t.color[n]]
           b == [a EXCEPT !.link["left"][y] = l]
<1>4. /\ a \in Trees /\ a.root = w.root /\ a.link = w.link
      /\ \A x \in Nodes : a.parent[x] = IF x = y THEN t.parent[n] ELSE w.parent[x]
      /\ \A x \in Nodes : a.color[x] = IF x = y THEN t.color[n] ELSE w.color[x]
  BY <1>0, <1>2, <1>3 DEF Trees, Links
<1>5. u = Clear(SetParent(b, l, y), n)
  BY <1>1 DEF u, Succeeded
<1> HIDE DEF a
<1>6. /\ b \in Trees /\ b.root = a.root /\ b.parent = a.parent /\ b.color = a.color
      /\ \A f \in Sides, x \in Nodes :
           b.link[f][x] = IF f = "left" /\ x = y THEN l ELSE a.link[f][x]
  <2>1. "left" \in Sides /\ l \in Links /\ a \in Trees
    BY <1>0, <1>4, LinksAre DEF Sides
  <2>2. IsLinkSet(b, a, "left", y, l)
    BY <1>0, <2>1, LinkSet
  <2> HIDE DEF b
  <2> QED
    BY <2>2 DEF IsLinkSet
<1> HIDE DEF b
<1>7. PICK v : v = SetParent(b, l, y)
  OBVIOUS
<1>8. /\ v \in Trees /\ v.root = b.root /\ v.link = b.link /\ v.color = b.color
      /\ \A x \in Nodes : v.parent[x] = IF x = l THEN y ELSE b.parent[x]
  <2>1. l \in Links /\ y \in Links
    BY <1>0, LinksAre
  <2> QED
    <3>1. IsParented(v, b, l, y)
      BY <1>6, <1>7, <2>1, Parented
    <3> QED
      BY <3>1 DEF IsParented
<1>9. /\ u \in Trees /\ u.root = v.root
      /\ \A f \in Sides, x \in Nodes : u.link[f][x] = IF x = n THEN Null ELSE v.link[f][x]
      /\ \A x \in Nodes : u.parent[x] = IF x = n THEN Null ELSE v.parent[x]
      /\ \A x \in Nodes : u.color[x] = IF x = n THEN "red" ELSE v.color[x]
  <2>1. u = Clear(v, n)
    BY <1>5, <1>7
  <2> QED
    <3>1. IsCleared(u, v, n)
      BY <1>0, <1>8, <2>1, Cleared
    <3> QED
      BY <3>1 DEF IsCleared
<1> QED
  BY <1>0, <1>2, <1>4, <1>6, <1>8, <1>9 DEF IsSucceeded

\* v is the tree without y.
LEMMA SuccessorTakes ==
  ASSUME NEW t, NEW S, NEW n, NEW l, NEW r, NEW y, NEW c, NEW p,
         HasSuccessor(t, S, n, l, r, y, c, p), NEW M, M = Sub(S, t.root),
         NEW v, IsSpliced(v, t, M, y, c, p), NEW u, u = Succeeded(t, n, l, r, y, c, p)
  PROVE  IsTaken(u, v, M \ {y}, n, y)
<1>1. /\ Shaped(t, S) /\ t \in Trees /\ M \in SUBSET Nodes
      /\ n \in M /\ l \in M /\ r \in M /\ y \in M /\ p \in M /\ y # n /\ y # l /\ l # r
      /\ t.parent[l] = n /\ t.parent[r] = n /\ t.parent[y] = p /\ y # t.root
      /\ \A x \in M : t.parent[x] = n => x = l \/ x = r
      /\ c # Null => c \in M /\ t.parent[c] = y /\ c # n
      /\ p = n <=> y = r
      /\ p # n => p \in S[r] /\ t.link["left"][p] = y
      /\ \A x \in M, f \in Sides : t.link[f][x] = y => x = p /\ (x # n => f = "left")
                                                       /\ (x = n => f = "right")
      /\ t.parent[n] \notin S[n] /\ t.parent[n] \in M \cup {Null}
      /\ S[r] \subseteq S[n] /\ y \in S[r] /\ n \notin S[r]
      /\ t.link["left"][y] = Null /\ c = t.link["right"][y]
      /\ l = t.link["left"][n] /\ r = t.link["right"][n]
  BY SuccessorFacts
<1>2. /\ v \in Trees /\ v.root = t.root
      /\ \A x \in M, f \in Sides :
           x # y => v.link[f][x] = IF t.link[f][x] = y THEN c ELSE t.link[f][x]
      /\ \A x \in M : x # y => /\ v.parent[x] = IF x = c THEN p ELSE t.parent[x]
                               /\ v.color[x] = t.color[x]
  BY <1>1 DEF IsSpliced
<1>3. \A x \in M : x \in Nodes /\ x # Null
  BY <1>1, LinksAre
<1>4. l # n /\ r # n /\ n # Null /\ y # Null
  <2>1. l \in S[l] /\ n \notin S[l]
    <3>1. l # Null /\ "left" \in Sides
      BY <1>1, <1>3 DEF Sides
    <3> QED
      BY <1>1, <3>1, ChildFacts
  <2>2. r # n
    BY <1>1, SubType
  <2> QED
    BY <1>1, <1>3, <2>1, <2>2
<1>5. /\ u \in Trees
      /\ u.root = IF t.parent[n] = Null THEN y ELSE t.root
      /\ \A f \in Sides, x \in Nodes : x # n =>
           u.link[f][x] = IF x = y /\ f = "left" THEN l
                          ELSE IF p # n /\ x = y /\ f = "right" THEN r
                          ELSE IF p # n /\ x = p /\ f = "left" THEN c
                          ELSE IF x = t.parent[n] /\ f = SideOf(t, t.parent[n], n) THEN y
                          ELSE t.link[f][x]
      /\ \A x \in Nodes : x # n =>
           u.parent[x] = IF x = l THEN y ELSE IF x = y THEN t.parent[n]
                         ELSE IF p # n /\ x = r THEN y
                         ELSE IF p # n /\ x = c THEN p ELSE t.parent[x]
      /\ \A x \in Nodes : x # n => u.color[x] = IF x = y THEN t.color[n] ELSE t.color[x]
  <2>1. /\ n \in Nodes /\ l \in Nodes /\ r \in Nodes /\ y \in Nodes /\ p \in Nodes
        /\ c \in Links /\ t.parent[n] \in Links
    BY <1>1, <1>3, LinksAre
  <2> QED
    <3>1. SucceedTypes(t, n, l, r, y, c, p)
      BY <1>1, <1>4, <2>1 DEF SucceedTypes, FreeTypes
    <3>2. IsSucceeded(u, t, n, l, r, y, c, p)
      BY <3>1, SucceededFields
    <3> QED
      BY <3>2 DEF IsSucceeded
<1>6. u.root = Put(n, y, v.root)
  <2>1. t.parent[n] = Null <=> n = t.root
    BY <1>1, ParentFacts
  <2> QED
    BY <1>2, <1>5, <2>1 DEF Put
\* the node that comes to the place of n
<1>7. /\ u.parent[y] = Put(n, y, v.parent[n]) /\ u.color[y] = v.color[n]
      /\ \A f \in Sides : u.link[f][y] = Put(n, y, v.link[f][n])
  <2>1. v.parent[n] = t.parent[n] /\ v.color[n] = t.color[n]
    BY <1>1, <1>2, <1>4
  <2>2. t.parent[n] # n
    BY <1>1, SubType
  <2>3. u.parent[y] = Put(n, y, v.parent[n]) /\ u.color[y] = v.color[n]
    BY <1>1, <1>3, <1>5, <2>1, <2>2 DEF Put
  <2>4. u.link["left"][y] = Put(n, y, v.link["left"][n])
    <3>1. v.link["left"][n] = l
      BY <1>1, <1>2 DEF Sides
    <3>2. u.link["left"][y] = l
      BY <1>1, <1>3, <1>5 DEF Sides
    <3> QED
      BY <1>4, <3>1, <3>2 DEF Put
  <2>5. u.link["right"][y] = Put(n, y, v.link["right"][n])
    <3>1. "right" \in Sides /\ "right" # "left"
      BY DEF Sides
    <3>2. CASE p = n
      <4>1. v.link["right"][n] = c
        BY <1>1, <1>2, <3>1, <3>2
      <4>2. y # t.parent[n]
        BY <1>1
      <4>3. u.link["right"][y] = c
        <5>1. y \in Nodes /\ y # n /\ ~(p # n) /\ c = t.link["right"][y]
          BY <1>1, <1>3, <3>2
        <5> QED
          BY <1>5, <3>1, <4>2, <5>1
      <4>4. c # n
        BY <1>1, <1>4
      <4> QED
        BY <4>1, <4>3, <4>4 DEF Put
    <3>3. CASE p # n
      <4>1. v.link["right"][n] = r
        BY <1>1, <1>2, <3>1, <3>3
      <4>2. u.link["right"][y] = r
        BY <1>1, <1>3, <1>5, <3>1, <3>3
      <4> QED
        BY <1>4, <4>1, <4>2 DEF Put
    <3> QED
      BY <3>2, <3>3
  <2> QED
    BY <2>3, <2>4, <2>5 DEF Sides
\* the others
<1>8. ASSUME NEW x \in M, x # n, x # y
      PROVE  /\ u.parent[x] = Put(n, y, v.parent[x]) /\ u.color[x] = v.color[x]
             /\ \A f \in Sides : u.link[f][x] = Put(n, y, v.link[f][x])
  <2>1. v.parent[x] = (IF x = c THEN p ELSE t.parent[x]) /\ v.color[x] = t.color[x] /\ x \in Nodes
    BY <1>2, <1>3, <1>8
  <2>2. u.color[x] = v.color[x]
    BY <1>5, <1>8, <2>1
  <2>3. u.parent[x] = Put(n, y, v.parent[x])
    <3>1. u.parent[x] = IF x = l THEN y ELSE IF p # n /\ x = r THEN y
                        ELSE IF p # n /\ x = c THEN p ELSE t.parent[x]
      BY <1>5, <1>8, <2>1
    <3>2. x = c => t.parent[x] = y
      BY <1>1, <1>3
    <3>3. t.parent[x] = n <=> x = l \/ x = r
      BY <1>1
    <3>4. p = n => x # r
      BY <1>1, <1>8
    <3> QED
      BY <1>1, <2>1, <3>1, <3>2, <3>3, <3>4 DEF Put
  <2>4. ASSUME NEW f \in Sides PROVE u.link[f][x] = Put(n, y, v.link[f][x])
    <3>1. v.link[f][x] = IF t.link[f][x] = y THEN c ELSE t.link[f][x]
      BY <1>2, <1>8
    <3>2. u.link[f][x] = IF p # n /\ x = p /\ f = "left" THEN c
                         ELSE IF x = t.parent[n] /\ f = SideOf(t, t.parent[n], n) THEN y
                         ELSE t.link[f][x]
      BY <1>5, <1>8, <2>1
    <3>3. t.link[f][x] = y <=> p # n /\ x = p /\ f = "left"
      BY <1>1, <1>8
    <3>4. t.link[f][x] = n <=> x = t.parent[n] /\ f = SideOf(t, t.parent[n], n)
      <4>1. t.link[f][x] = n => x = t.parent[n]
        BY <1>1, ParentFacts
      <4>2. CASE n = t.root
        <5>1. t.parent[n] = Null
          BY <1>1, <4>2, ParentFacts
        <5> QED
          BY <1>3, <4>1, <5>1
      <4>3. CASE n # t.root
        <5>1. /\ t.link[SideOf(t, t.parent[n], n)][t.parent[n]] = n
              /\ \A g \in Sides : t.link[g][t.parent[n]] = n => g = SideOf(t, t.parent[n], n)
          <6>1. Shaped(t, S) /\ n \in Sub(S, t.root) /\ n # t.root
            BY <1>1, <4>3
          <6> QED
            BY <6>1, SideOfChild
        <5> QED
          BY <4>1, <5>1
      <4> QED
        BY <4>2, <4>3
    <3>5. c # n /\ y # n
      BY <1>1, <1>4
    <3> QED
      BY <3>1, <3>2, <3>3, <3>4, <3>5 DEF Put
  <2> QED
    BY <2>2, <2>3, <2>4
<1>9. ASSUME NEW x \in M \ {y}
      PROVE  /\ u.parent[Put(n, y, x)] = Put(n, y, v.parent[x])
             /\ u.color[Put(n, y, x)] = v.color[x]
             /\ \A f \in Sides : u.link[f][Put(n, y, x)] = Put(n, y, v.link[f][x])
  <2>1. CASE x = n
    <3>1. Put(n, y, x) = y
      BY <2>1 DEF Put
    <3> QED
      BY <1>7, <2>1, <3>1
  <2>2. CASE x # n
    <3>1. Put(n, y, x) = x
      BY <2>2 DEF Put
    <3> QED
      BY <1>8, <2>2, <3>1
  <2> QED
    BY <2>1, <2>2
<1> QED
  BY <1>5, <1>6, <1>9 DEF IsTaken

-----------------------------------------------------------------------------
(* ks_rb_erase up to the loop, and ks_rb_replace_node, as a whole.            *)

\* What is left when y is taken out of the right side of n can take y in the place of n.
LEMMA SuccessorFits ==
  ASSUME NEW t, NEW S, NEW n, NEW l, NEW r, NEW y, NEW c, NEW p,
         HasSuccessor(t, S, n, l, r, y, c, p), NEW M, M = Sub(S, t.root),
         NEW v, IsSpliced(v, t, M, y, c, p)
  PROVE  /\ CanSplice(t, S, y, "right", c, p)
         /\ CanTake(v, Without(S, y), n, y)
         /\ Sub(Without(S, y), v.root) = M \ {y}
<1>1. /\ Shaped(t, S) /\ t \in Trees /\ M \in SUBSET Nodes
      /\ n \in M /\ r \in M /\ y \in M /\ y # n /\ t.parent[y] = p
      /\ S[r] \subseteq S[n] /\ y \in S[r] /\ n \notin S[r]
      /\ t.link["left"][y] = Null /\ c = t.link["right"][y]
      /\ l = t.link["left"][n] /\ r = t.link["right"][n]
  BY SuccessorFacts
<1>2. /\ "left" \in Sides /\ "right" \in Sides /\ Opposite("left") = "right"
      /\ Opposite("right") = "left"
  <2>1. "left" \in Sides /\ "right" \in Sides /\ "left" # "right"
    BY DEF Sides
  <2> QED
    BY <2>1, OppositeFacts DEF Sides
<1>3. CanSplice(t, S, y, "right", c, p)
  BY <1>1, <1>2 DEF CanSplice
<1>4. PICK S1 : S1 = Without(S, y)
  OBVIOUS
<1>5. Shaped(v, S1) /\ Sub(S1, v.root) = M \ {y}
  BY <1>3, <1>4, SpliceShaped
<1>6. \A x \in M : x \in Nodes /\ Key[x] \in Int /\ x \in S[x] /\ (x # y => S1[x] = S[x] \ {y})
  <2>1. \A x \in M : x \in Nodes /\ Key[x] \in Int /\ x \in S[x]
    BY <1>1, SubType
  <2> QED
    BY <1>4, <2>1 DEF Without
<1>7. r # Null /\ \A m \in S[r] : Beyond("right", Key[m], Key[n])
  <2>1. r # Null
    BY DEF HasSuccessor
  <2> QED
    BY <1>1, <1>2, <2>1, ChildFacts
<1>8. \A m \in S[r] : m # y => Beyond("right", Key[m], Key[y])
  BY <1>2 DEF HasSuccessor, IsOutermost
<1>9. ASSUME NEW f \in Sides, NEW m \in Sub(S1, v.link[f][n]) PROVE Beyond(f, Key[m], Key[y])
  <2>1. n \in Sub(S1, v.root)
    BY <1>1, <1>5
  <2>2. m \in S1[n] /\ m # n
    BY <1>5, <2>1, NodeSides
  <2>3. Beyond(f, Key[m], Key[n])
    BY <1>5, <2>1 DEF Shaped, NodeShaped
  <2>4. m \in S[n] /\ m # y /\ m \in M
    <3>1. m \in S[n] /\ m # y
      BY <1>1, <1>6, <2>2
    <3> QED
      BY <1>1, <3>1, Nested
  <2>5. Key[m] \in Int /\ Key[n] \in Int /\ Key[y] \in Int
    BY <1>1, <1>6, <2>4
  <2>6. CASE f = "left"
    <3>1. Beyond("right", Key[y], Key[n])
      BY <1>1, <1>7
    <3> QED
      BY <2>3, <2>5, <2>6, <3>1 DEF Beyond
  <2>7. CASE f = "right"
    <3>1. PICK g \in Sides : t.link[g][n] # Null /\ m \in S[t.link[g][n]]
      BY <1>1, <2>2, <2>4, NodeSides
    <3>2. Beyond(g, Key[m], Key[n])
      BY <1>1, <3>1, ChildFacts
    <3>3. g = "right"
      BY <2>3, <2>5, <2>7, <3>2 DEF Beyond, Sides
    <3> QED
      BY <1>1, <1>8, <2>4, <2>7, <3>1, <3>3
  <2> QED
    BY <2>6, <2>7 DEF Sides
<1>10. ASSUME NEW f \in Sides, NEW m \in M \ {y}, n \in Sub(S1, v.link[f][m])
       PROVE  Beyond(f, Key[y], Key[m])
  <2>1. n \in S1[m] /\ n # m
    BY <1>5, <1>10, NodeSides
  <2>2. Beyond(f, Key[n], Key[m])
    BY <1>5, <1>10 DEF Shaped, NodeShaped
  <2>3. n \in S[m]
    BY <1>6, <2>1
  <2>4. PICK g \in Sides : t.link[g][m] # Null /\ n \in S[t.link[g][m]]
    BY <1>1, <2>1, <2>3, NodeSides
  <2>5. t.link[g][m] \in M /\ \A x \in S[t.link[g][m]] : Beyond(g, Key[x], Key[m])
    BY <1>1, <2>4, ChildFacts
  <2>6. y \in S[t.link[g][m]]
    BY <1>1, <2>4, <2>5, Nested
  <2>7. Key[n] \in Int /\ Key[m] \in Int
    BY <1>1, <1>6
  <2>8. g = f
    BY <2>2, <2>4, <2>5, <2>7 DEF Beyond, Sides
  <2> QED
    BY <2>5, <2>6, <2>8
<1>11. CanTake(v, S1, n, y)
  BY <1>1, <1>5, <1>9, <1>10 DEF CanTake
<1> QED
  BY <1>3, <1>4, <1>5, <1>11

\* ks_rb_erase up to the loop: one node less, and one black lacking if it was black.
LEMMA UnlinkLeaves ==
  ASSUME NEW t, NEW S, NEW H, Idle(t, S, H), NEW M, M = Sub(S, t.root), NEW n \in M,
         NEW w, w = Unlink(t, n)
  PROVE  /\ \E S2, H2 : /\ LeftBehind(w.tree, S2, H2, w.color, w.at, w.par)
                        /\ Sub(S2, w.tree.root) = M \ {n}
         /\ w.at \in (M \ {n}) \cup {Null} /\ w.par \in (M \ {n}) \cup {Null}
<1>1. Shaped(t, S) /\ t \in Trees /\ M \in SUBSET Nodes /\ n \in Nodes
  BY IdleTypes
<1>2. PICK l, r : l = t.link["left"][n] /\ r = t.link["right"][n]
  OBVIOUS
<1>3. /\ "left" \in Sides /\ "right" \in Sides /\ Opposite("left") = "right"
      /\ Opposite("right") = "left"
  <2>1. "left" \in Sides /\ "right" \in Sides /\ "left" # "right"
    BY DEF Sides
  <2> QED
    BY <2>1, OppositeFacts DEF Sides
<1>4. CASE l = Null \/ r = Null
  <2>1. PICK c, p : c = (IF l = Null THEN r ELSE l) /\ p = t.parent[n]
    OBVIOUS
  <2>2. /\ w.tree = Spliced(t, n, c, p) /\ w.at = c /\ w.par = p /\ w.color = t.color[n]
    BY <1>2, <1>4, <2>1, Zenon DEF Unlink, Spliced
  <2>3. \E d \in Sides : CanSplice(t, S, n, d, c, p)
    <3>1. CASE l = Null
      <4>1. CanSplice(t, S, n, "right", c, p)
        BY <1>1, <1>2, <1>3, <2>1, <3>1 DEF CanSplice
      <4> QED
        BY <1>3, <4>1
    <3>2. CASE l # Null
      <4>1. CanSplice(t, S, n, "left", c, p)
        BY <1>1, <1>2, <1>3, <1>4, <2>1, <3>2 DEF CanSplice
      <4> QED
        BY <1>3, <4>1
    <3> QED
      BY <3>1, <3>2
  <2>4. PICK d \in Sides : CanSplice(t, S, n, d, c, p)
    BY <2>3
  <2>5. PICK u : u = Spliced(t, n, c, p)
    OBVIOUS
  <2>6. IsSpliced(u, t, M, n, c, p)
    BY <2>4, <2>5, SpliceFields
  <2>7. LeftBehind(u, Without(S, n), H, t.color[n], c, p)
    BY <2>4, <2>6, SpliceLeaves
  <2>8. Sub(Without(S, n), u.root) = M \ {n}
    BY <2>4, <2>6, SpliceShaped
  <2>9. c \in (M \ {n}) \cup {Null}
    BY <2>4, SpliceTypes
  <2>10. p \in (M \ {n}) \cup {Null}
    BY <1>1, <2>1, ParentFacts
  <2> QED
    BY <2>2, <2>5, <2>7, <2>8, <2>9, <2>10
<1>5. CASE l # Null /\ r # Null
  <2>1. PICK y : y = Outermost(t, "left", r)
    OBVIOUS
  <2>2. PICK c, p : c = t.link["right"][y] /\ p = t.parent[y]
    OBVIOUS
  <2>3. /\ w.tree = Succeeded(t, n, l, r, y, c, p) /\ w.at = c
        /\ w.par = (IF p = n THEN y ELSE p) /\ w.color = t.color[y]
    <3> DEFINE l1 == t.link["left"][n]
               r1 == t.link["right"][n]
               y1 == Outermost(t, "left", r1)
               c1 == t.link["right"][y1]
               p1 == t.parent[y1]
    <3>1. ~(l1 = Null \/ r1 = Null)
      BY <1>2, <1>5
    <3>2. w = [tree |-> Succeeded(t, n, l1, r1, y1, c1, p1), at |-> c1,
               par |-> IF p1 = n THEN y1 ELSE p1, color |-> t.color[y1]]
      BY <3>1, Zenon DEF Unlink, Succeeded, Freed
    <3>3. l = l1 /\ r = r1 /\ y = y1 /\ c = c1 /\ p = p1
      BY <1>2, <2>1, <2>2
    <3> HIDE DEF l1, r1, y1, c1, p1
    <3> QED
      BY <3>2, <3>3
  <2>4. r \in M
    BY <1>1, <1>2, <1>3, <1>5, ChildFacts
  <2>5. IsOutermost(t, S, "left", r, y)
    BY <1>1, <1>3, <2>1, <2>4, OutermostIs
  <2>6. HasSuccessor(t, S, n, l, r, y, c, p)
    BY <1>1, <1>2, <1>5, <2>2, <2>5 DEF HasSuccessor
  <2>7. /\ y \in M /\ y # n /\ p \in M /\ p # y /\ (c # Null => c \in M /\ c # n /\ c # y)
    <3>1. /\ y \in M /\ y # n /\ p \in M /\ y # t.root
          /\ c # Null => c \in M /\ t.parent[c] = y /\ c # n
      BY <2>6, SuccessorFacts
    <3>2. p # y
      BY <1>1, <2>2, <3>1, ParentFacts
    <3> QED
      BY <2>2, <3>1, <3>2
  <2>8. PICK v : v = Spliced(t, y, c, p)
    OBVIOUS
  <2>9. PICK u : u = Succeeded(t, n, l, r, y, c, p)
    OBVIOUS
  <2>10. CanSplice(t, S, y, "right", c, p)
    <3>1. t.link["left"][y] = Null
      BY <2>5 DEF IsOutermost
    <3> QED
      BY <1>1, <1>3, <2>2, <2>7, <3>1 DEF CanSplice
  <2>11. IsSpliced(v, t, M, y, c, p)
    BY <2>8, <2>10, SpliceFields
  <2>12. LeftBehind(v, Without(S, y), H, t.color[y], c, p)
    BY <2>10, <2>11, SpliceLeaves
  <2>13. PICK S1 : S1 = Without(S, y)
    OBVIOUS
  <2>14. CanTake(v, S1, n, y) /\ Sub(S1, v.root) = M \ {y}
    BY <2>6, <2>11, <2>13, SuccessorFits
  <2>15. IsTaken(u, v, M \ {y}, n, y)
    BY <2>6, <2>9, <2>11, SuccessorTakes
  <2>16. PICK M1 : M1 = M \ {y}
    OBVIOUS
  <2>17. /\ M1 = Sub(S1, v.root) /\ IsTaken(u, v, M1, n, y) /\ c \in M1 \cup {Null}
         /\ LeftBehind(v, S1, H, t.color[y], c, p)
    BY <2>7, <2>12, <2>13, <2>14, <2>15, <2>16
  <2>18. \E S2, H2 : /\ LeftBehind(u, S2, H2, t.color[y], Put(n, y, c), Put(n, y, p))
                     /\ Sub(S2, u.root) = (M1 \ {n}) \cup {y}
    <3>1. LeftTaken(v, S1, M1, n, y, u, H, t.color[y], c, p)
      BY <2>14, <2>17 DEF LeftTaken
    <3> QED
      BY <3>1, TakeKeeps
  <2>19. (M1 \ {n}) \cup {y} = M \ {n}
    BY <2>7, <2>16
  <2>20. Put(n, y, c) = c /\ Put(n, y, p) = IF p = n THEN y ELSE p
    <3>1. c # n
      BY <1>1, <2>7, LinksAre
    <3> QED
      BY <3>1 DEF Put
  <2> QED
    BY <2>3, <2>7, <2>9, <2>18, <2>19, <2>20
<1> QED
  BY <1>4, <1>5

\* ks_rb_replace_node puts its argument where the victim was.
LEMMA ReplaceTakes ==
  ASSUME NEW t, NEW S, Shaped(t, S), NEW M, M = Sub(S, t.root), NEW n \in M,
         NEW y \in Nodes, y \notin M, Key[y] = Key[n], NEW u, u = Replace(t, n, y)
  PROVE  CanTake(t, S, n, y) /\ IsTaken(u, t, M, n, y)
<1>1. t \in Trees /\ M \in SUBSET Nodes /\ n \in Nodes /\ y # n
  BY SubType DEF Shaped
<1>2. PICK l, r, p : l = t.link["left"][n] /\ r = t.link["right"][n] /\ p = t.parent[n]
  OBVIOUS
<1>3. "left" \in Sides /\ "right" \in Sides /\ "left" # "right"
  BY DEF Sides
<1>4. /\ l \in Links /\ r \in Links /\ p \in Links /\ y \in Links
      /\ l # n /\ r # n /\ p # n /\ l # y /\ r # y /\ p # y /\ n # Null /\ y # Null
      /\ l # Null => l \in M /\ t.parent[l] = n
      /\ r # Null => r \in M /\ t.parent[r] = n
      /\ p = Null <=> n = t.root
      /\ p # Null => p \in M
  <2>1. l # Null => l \in M /\ t.parent[l] = n /\ l # n
    BY <1>2, <1>3, ChildFacts
  <2>2. r # Null => r \in M /\ t.parent[r] = n /\ r # n
    BY <1>2, <1>3, ChildFacts
  <2>3. (p = Null <=> n = t.root) /\ (p # Null => p \in M /\ p # n)
    BY <1>2, ParentFacts
  <2> QED
    BY <1>1, <2>1, <2>2, <2>3, LinksAre
<1>5. CanTake(t, S, n, y)
  <2>1. \A x \in M : NodeShaped(t, S, x)
    BY DEF Shaped
  <2> QED
    BY <2>1 DEF CanTake, NodeShaped
<1>6. PICK a : a = Relink(t, p, n, y)
  OBVIOUS
<1>7. IsRelinked(a, t, p, n, y)
  BY <1>1, <1>4, <1>6, Relinked
<1>8. PICK b : b = SetParent(a, l, y)
  OBVIOUS
<1>9. a \in Trees
  BY <1>7 DEF IsRelinked
<1>10. IsParented(b, a, l, y)
  BY <1>4, <1>8, <1>9, Parented
<1>11. b \in Trees
  BY <1>10 DEF IsParented
<1>12. PICK g : g = SetParent(b, r, y)
  OBVIOUS
<1>13. IsParented(g, b, r, y)
  BY <1>4, <1>11, <1>12, Parented
<1>14. g \in Trees
  BY <1>13 DEF IsParented
<1> DEFINE h == [g EXCEPT !.link["left"][y] = l]
           i == [h EXCEPT !.link["right"][y] = r]
           j == [i EXCEPT !.parent[y] = p, !.color[y] = t.color[n]]
<1>15. u = Clear(j, n)
  BY <1>2, <1>6, <1>8, <1>12 DEF Replace
<1>16. IsLinkSet(h, g, "left", y, l)
  BY <1>3, <1>4, <1>14, LinkSet
<1> HIDE DEF h
<1>17. h \in Trees
  BY <1>16 DEF IsLinkSet
<1>18. IsLinkSet(i, h, "right", y, r)
  BY <1>3, <1>4, <1>17, LinkSet
<1> HIDE DEF i
<1>19. i \in Trees
  BY <1>18 DEF IsLinkSet
<1>20. t.color[n] \in Colors
  BY <1>1 DEF Trees
<1>21. /\ j \in Trees /\ j.root = i.root /\ j.link = i.link
       /\ \A x \in Nodes : j.parent[x] = IF x = y THEN p ELSE i.parent[x]
       /\ \A x \in Nodes : j.color[x] = IF x = y THEN t.color[n] ELSE i.color[x]
  BY <1>4, <1>19, <1>20 DEF Trees, Links
<1> HIDE DEF j
<1>22. IsCleared(u, j, n)
  BY <1>1, <1>15, <1>21, Cleared
<1>23. u \in Trees /\ u.root = Put(n, y, t.root)
  <2>1. u \in Trees /\ u.root = a.root
    BY <1>10, <1>13, <1>16, <1>18, <1>21, <1>22 DEF IsParented, IsLinkSet, IsCleared
  <2>2. a.root = IF p = Null THEN y ELSE t.root
    BY <1>7 DEF IsRelinked
  <2> QED
    BY <1>4, <2>1, <2>2 DEF Put
<1>24. ASSUME NEW x \in Nodes, x # n
       PROVE  /\ u.color[x] = IF x = y THEN t.color[n] ELSE t.color[x]
              /\ u.parent[x] = IF x = y THEN p ELSE IF x = r \/ x = l THEN y ELSE t.parent[x]
              /\ \A f \in Sides :
                   u.link[f][x] = IF x = y THEN (IF f = "right" THEN r ELSE l)
                                  ELSE IF x = p /\ f = SideOf(t, p, n) THEN y ELSE t.link[f][x]
  <2>1. u.color[x] = IF x = y THEN t.color[n] ELSE t.color[x]
    BY <1>7, <1>10, <1>13, <1>16, <1>18, <1>21, <1>22, <1>24
       DEF IsRelinked, IsParented, IsLinkSet, IsCleared
  <2>2. u.parent[x] = IF x = y THEN p ELSE IF x = r \/ x = l THEN y ELSE t.parent[x]
    <3>1. u.parent[x] = IF x = y THEN p ELSE g.parent[x]
      BY <1>16, <1>18, <1>21, <1>22, <1>24 DEF IsLinkSet, IsCleared
    <3>2. g.parent[x] = IF x = r THEN y ELSE b.parent[x]
      BY <1>13 DEF IsParented
    <3>3. b.parent[x] = IF x = l THEN y ELSE a.parent[x]
      BY <1>10 DEF IsParented
    <3>4. a.parent[x] = t.parent[x]
      BY <1>7 DEF IsRelinked
    <3> QED
      BY <3>1, <3>2, <3>3, <3>4
  <2>3. ASSUME NEW f \in Sides
        PROVE  u.link[f][x] = IF x = y THEN (IF f = "right" THEN r ELSE l)
                              ELSE IF x = p /\ f = SideOf(t, p, n) THEN y ELSE t.link[f][x]
    <3>1. u.link[f][x] = i.link[f][x]
      BY <1>21, <1>22, <1>24 DEF IsCleared
    <3>2. i.link[f][x] = IF f = "right" /\ x = y THEN r ELSE h.link[f][x]
      BY <1>18 DEF IsLinkSet
    <3>3. h.link[f][x] = IF f = "left" /\ x = y THEN l ELSE g.link[f][x]
      BY <1>16 DEF IsLinkSet
    <3>4. g.link[f][x] = a.link[f][x]
      BY <1>10, <1>13 DEF IsParented
    <3>5. a.link[f][x] = IF p # Null /\ x = p /\ f = SideOf(t, p, n) THEN y ELSE t.link[f][x]
      BY <1>7 DEF IsRelinked
    <3>6. f = "left" \/ f = "right"
      BY DEF Sides
    <3>7. x # Null
      BY LinksAre
    <3> QED
      BY <3>1, <3>2, <3>3, <3>4, <3>5, <3>6, <3>7
  <2> QED
    BY <2>1, <2>2, <2>3
<1>25. ASSUME NEW x \in M
       PROVE  /\ u.parent[Put(n, y, x)] = Put(n, y, t.parent[x])
              /\ u.color[Put(n, y, x)] = t.color[x]
              /\ \A f \in Sides : u.link[f][Put(n, y, x)] = Put(n, y, t.link[f][x])
  <2>1. CASE x = n
    <3>1. Put(n, y, x) = y
      BY <2>1 DEF Put
    <3>2. u.parent[y] = p /\ u.color[y] = t.color[n]
      BY <1>1, <1>24
    <3>3. \A f \in Sides : u.link[f][y] = t.link[f][n]
      <4>1. \A f \in Sides : u.link[f][y] = IF f = "right" THEN r ELSE l
        BY <1>1, <1>24
      <4> QED
        BY <1>2, <4>1 DEF Sides
    <3>4. Put(n, y, p) = p /\ Put(n, y, l) = l /\ Put(n, y, r) = r
      BY <1>4 DEF Put
    <3>5. \A f \in Sides : Put(n, y, t.link[f][n]) = t.link[f][n]
      BY <1>2, <3>4 DEF Sides
    <3> QED
      BY <1>2, <2>1, <3>1, <3>2, <3>3, <3>4, <3>5
  <2>2. CASE x # n
    <3>1. Put(n, y, x) = x /\ x \in Nodes /\ x # y
      BY <1>1, <2>2 DEF Put
    <3>2. u.color[x] = t.color[x]
      BY <1>24, <2>2, <3>1
    <3>3. u.parent[x] = Put(n, y, t.parent[x])
      <4>1. u.parent[x] = IF x = r \/ x = l THEN y ELSE t.parent[x]
        BY <1>24, <2>2, <3>1
      <4>2. x = r \/ x = l => t.parent[x] = n
        BY <1>4, <3>1, LinksAre
      <4>3. t.parent[x] = n => x = r \/ x = l
        <5> SUFFICES ASSUME t.parent[x] = n PROVE x = r \/ x = l
          OBVIOUS
        <5>1. x # t.root
          BY <1>4, ParentFacts
        <5>2. PICK d \in Sides : t.link[d][n] = x
          BY <5>1, ParentFacts
        <5> QED
          BY <1>2, <5>2 DEF Sides
      <4> QED
        BY <4>1, <4>2, <4>3 DEF Put
    <3>4. ASSUME NEW f \in Sides PROVE u.link[f][x] = Put(n, y, t.link[f][x])
      <4>1. u.link[f][x] = IF x = p /\ f = SideOf(t, p, n) THEN y ELSE t.link[f][x]
        BY <1>24, <2>2, <3>1
      <4>2. t.link[f][x] = n => x = p
        BY <1>2, ParentFacts
      <4>3. x = p => (t.link[f][p] = n <=> f = SideOf(t, p, n))
        <5> SUFFICES ASSUME x = p PROVE t.link[f][p] = n <=> f = SideOf(t, p, n)
          OBVIOUS
        <5>1. n # t.root
          BY <1>4, <3>1, LinksAre
        <5>2. /\ t.link[SideOf(t, p, n)][p] = n
              /\ \A d \in Sides : t.link[d][p] = n => d = SideOf(t, p, n)
          BY <1>2, <5>1, SideOfChild
        <5> QED
          BY <5>2
      <4> QED
        BY <4>1, <4>2, <4>3 DEF Put
    <3> QED
      BY <3>1, <3>2, <3>3, <3>4
  <2> QED
    BY <2>1, <2>2
<1>26. IsTaken(u, t, M, n, y)
  BY <1>23, <1>25 DEF IsTaken
<1> QED
  BY <1>5, <1>26

-----------------------------------------------------------------------------
(* The ends of the loops. *)

\* The tree keeps its shape and its colours.
LEMMA ReplaceKeeps ==
  ASSUME NEW t, NEW S, NEW H, Idle(t, S, H), NEW M, M = Sub(S, t.root), NEW n \in M,
         NEW y \in Nodes, y \notin M, Key[y] = Key[n], NEW u, u = Replace(t, n, y)
  PROVE  \E S2, H2 : Idle(u, S2, H2) /\ Sub(S2, u.root) = (M \ {n}) \cup {y}
<1>1. Shaped(t, S)
  BY IdleTypes
<1>2. CanTake(t, S, n, y) /\ IsTaken(u, t, M, n, y)
  BY <1>1, ReplaceTakes
<1>3. LeftBehind(t, S, H, "red", Null, Null)
  BY DEF LeftBehind
<1>4. LeftTaken(t, S, M, n, y, u, H, "red", Null, Null)
  BY <1>2, <1>3 DEF LeftTaken
<1>5. PICK S2, H2 : /\ LeftBehind(u, S2, H2, "red", Put(n, y, Null), Put(n, y, Null))
                    /\ Sub(S2, u.root) = (M \ {n}) \cup {y}
  BY <1>4, TakeKeeps
<1>6. Idle(u, S2, H2)
  BY <1>5 DEF LeftBehind
<1> QED
  BY <1>5, <1>6

\* n turns black, which makes up for what it lacks, or what the root does not need.
Blackens(t, S, H, H2, n, q, f) ==
  /\ Shaped(t, S) /\ H \in [Nodes -> Nat] /\ n \in Sub(S, t.root)
  /\ Levelled(t, Sub(S, t.root), H, q, f) /\ Calm(t, Sub(S, t.root), n, n)
  /\ n # t.root => /\ q \in Sub(S, t.root) /\ f \in Sides /\ t.link[f][q] = n /\ IsRed(t, n)
                   /\ ~IsRed(t, t.root)
  /\ n = t.root => q = Null
  /\ H2 = [H EXCEPT ![n] = IF IsRed(t, n) THEN H[n] + 1 ELSE H[n]]

\* A subtree that turns black has one level more.
LEMMA Blackened ==
  ASSUME NEW t, NEW S, NEW H, NEW H2, NEW n, NEW q, NEW f, Blackens(t, S, H, H2, n, q, f),
         NEW u, u = Paint(t, n, "black")
  PROVE  Idle(u, S, H2) /\ u.root = t.root
<1> DEFINE M == Sub(S, t.root)
<1>1. /\ Shaped(t, S) /\ H \in [Nodes -> Nat] /\ n \in M
      /\ Levelled(t, M, H, q, f) /\ Calm(t, M, n, n)
      /\ n # t.root => /\ q \in M /\ f \in Sides /\ t.link[f][q] = n /\ IsRed(t, n)
                       /\ ~IsRed(t, t.root)
      /\ n = t.root => q = Null
      /\ H2 = [H EXCEPT ![n] = IF IsRed(t, n) THEN H[n] + 1 ELSE H[n]]
  BY DEF Blackens
<1>2. /\ t \in Trees /\ M \in SUBSET Nodes /\ n \in Nodes /\ t.root \in M
      /\ \A x \in M : x \in Nodes /\ x # Null
      /\ \A x \in M, g \in Sides : t.link[g][x] \in Links
  <2>1. t \in Trees /\ M \in SUBSET Nodes /\ n \in Nodes /\ t.root \in M
    BY <1>1, SubType DEF Shaped
  <2>2. \A x \in M : x \in Nodes /\ x # Null
    BY <2>1, LinksAre
  <2>3. \A x \in M, g \in Sides : t.link[g][x] \in Nodes \cup {Null}
    BY <1>1, <2>1, SubType
  <2> QED
    BY <2>1, <2>2, <2>3, LinksAre
<1>3. "black" \in Colors
  BY DEF Colors
<1>4. IsPainted(u, t, S, n, "black")
  BY <1>1, <1>2, <1>3, Painted
<1>5. /\ Shaped(u, S) /\ u.root = t.root /\ u.link = t.link
      /\ \A x \in Nodes : u.color[x] = IF x = n THEN "black" ELSE t.color[x]
  BY <1>4 DEF IsPainted
<1>6. /\ H2 \in [Nodes -> Nat] /\ \A x \in Nodes : x # n => H2[x] = H[x]
      /\ H2[n] = (IF IsRed(t, n) THEN H[n] + 1 ELSE H[n]) /\ H[n] \in Nat
  BY <1>1, <1>2
<1>7. /\ ~IsRed(u, n) /\ \A x \in Links : x # n => (IsRed(u, x) <=> IsRed(t, x))
      /\ Blacks(u, n) = 1 /\ Blacks(t, n) = (IF IsRed(t, n) THEN 0 ELSE 1)
      /\ \A x \in Nodes : x # n => Blacks(u, x) = Blacks(t, x)
  <2>1. t.color[n] \in Colors
    BY <1>2 DEF Trees
  <2> QED
    BY <1>2, <1>5, <2>1, LinksAre DEF IsRed, Blacks, Colors
<1>8. ASSUME NEW x \in M, NEW g \in Sides, t.link[g][x] = n
      PROVE  n # t.root /\ x = q /\ g = f
  <2>1. x = t.parent[n] /\ x # Null
    BY <1>1, <1>2, <1>8, ParentFacts
  <2>2. n # t.root
    BY <1>1, <2>1, ParentFacts
  <2>3. q = t.parent[n]
    BY <1>1, <2>2, ParentFacts
  <2>4. g = SideOf(t, q, n) /\ f = SideOf(t, q, n)
    BY <1>1, <1>8, <2>1, <2>2, <2>3, SideOfChild
  <2> QED
    BY <2>1, <2>2, <2>3, <2>4
<1>9. ASSUME NEW x \in M, NEW g \in Sides
      PROVE  H2[x] = High(H2, u.link[g][x]) + Short(Null, "left", x, g) + Blacks(u, x)
  <2>1. PICK c : c = t.link[g][x]
    OBVIOUS
  <2>2. H[x] = High(H, c) + Short(q, f, x, g) + Blacks(t, x)
    BY <1>1, <2>1 DEF Levelled, LevelAt
  <2>3. /\ c \in Links /\ u.link[g][x] = c /\ x \in Nodes /\ High(H, c) \in Nat
        /\ Short(Null, "left", x, g) = 0 /\ Blacks(t, x) \in {0, 1} /\ H[x] \in Nat
    <3>1. c \in Links /\ u.link[g][x] = c /\ x \in Nodes
      BY <1>2, <1>5, <2>1
    <3> QED
      BY <1>1, <1>2, <3>1, ColorTypes
  <2>4. High(H2, c) = IF c = n THEN H2[n] ELSE High(H, c)
    BY <1>2, <1>6, <2>3, LinksAre DEF High
  <2>5. H2[x] + Blacks(t, x) = H[x] + Blacks(u, x)
    BY <1>6, <1>7, <2>3
  <2>6. Blacks(u, x) \in {0, 1} /\ H2[x] \in Nat
    BY <1>6, <2>3 DEF Blacks
  <2>7. CASE c = n
    <3>1. x = q /\ g = f /\ n # t.root
      BY <1>8, <2>1, <2>7
    <3>2. Short(q, f, x, g) = 1 /\ High(H, c) = H[n] /\ H2[n] = H[n] + 1
      BY <1>1, <1>2, <1>6, <2>7, <3>1 DEF Short, High
    <3> QED
      BY <1>6, <2>2, <2>3, <2>4, <2>5, <2>6, <2>7, <3>2
  <2>8. CASE c # n
    <3>1. Short(q, f, x, g) = 0
      <4>1. CASE n = t.root
        BY <1>1, <1>2, <4>1 DEF Short
      <4>2. CASE n # t.root
        BY <1>1, <2>1, <2>8, <4>2 DEF Short
      <4> QED
        BY <4>1, <4>2
    <3> QED
      BY <2>2, <2>3, <2>4, <2>5, <2>6, <2>8, <3>1
  <2> QED
    BY <2>7, <2>8
<1>10. Calm(u, M, Null, Null)
  <2> SUFFICES ASSUME NEW x \in M, NEW g \in Sides, IsRed(u, x), IsRed(u, u.link[g][x])
               PROVE  FALSE
    BY DEF Calm, CalmAt
  <2>1. x # n /\ IsRed(t, x) /\ x \in Links
    BY <1>2, <1>7, LinksAre
  <2>2. t.link[g][x] # n /\ IsRed(t, t.link[g][x])
    BY <1>2, <1>5, <1>7
  <2>3. CalmAt(t, n, n, x)
    BY <1>1 DEF Calm
  <2> QED
    BY <2>1, <2>2, <2>3 DEF CalmAt
<1>11. ~IsRed(u, u.root)
  BY <1>1, <1>2, <1>5, <1>7, LinksAre
<1>12. Levelled(u, M, H2, Null, "left")
  BY <1>9 DEF Levelled, LevelAt
<1> QED
  BY <1>5, <1>6, <1>10, <1>11, <1>12 DEF Idle

\* Painting the root black ends an insertion.
LEMMA InsertEnds ==
  ASSUME NEW t, NEW S, NEW H, NEW n, Inserting(t, S, H, n), ~InsertLoops(t, n),
         NEW u, u = Paint(t, t.root, "black")
  PROVE  (\E H2 : Idle(u, S, H2)) /\ u.root = t.root
<1> DEFINE M == Sub(S, t.root)
<1>1. /\ Shaped(t, S) /\ H \in [Nodes -> Nat] /\ n \in M /\ IsRed(t, n)
      /\ Levelled(t, M, H, Null, "left") /\ Calm(t, M, n, Null)
      /\ IsRed(t, t.root) => n = t.root
  BY DEF Inserting
<1>2. t.root \in M /\ \A x \in M : x \in Nodes /\ x # Null
  <2>1. t.root \in M /\ M \in SUBSET Nodes
    BY <1>1, SubType
  <2> QED
    BY <2>1, LinksAre
\* n is not the red child of a red node any more
<1>3. Calm(t, M, t.root, t.root)
  <2> SUFFICES ASSUME NEW x \in M, NEW g \in Sides, IsRed(t, x), IsRed(t, t.link[g][x])
               PROVE  t.link[g][x] = t.root
    BY DEF Calm, CalmAt
  <2>1. t.link[g][x] = n
    BY <1>1, <1>2 DEF Calm, CalmAt
  <2>2. x = t.parent[n]
    BY <1>1, <2>1, ParentFacts
  <2> QED
    BY <2>2 DEF InsertLoops
<1>4. PICK H2 : H2 = [H EXCEPT ![t.root] = IF IsRed(t, t.root) THEN H[t.root] + 1 ELSE H[t.root]]
  OBVIOUS
<1>5. Blackens(t, S, H, H2, t.root, Null, "left")
  BY <1>1, <1>2, <1>3, <1>4 DEF Blackens
<1> QED
  BY <1>5, Blackened

\* Painting the node at work black ends an erasure.
LEMMA EraseEnds ==
  ASSUME NEW t, NEW S, NEW H, NEW n, NEW p, Erasing(t, S, H, n, p), ~EraseLoops(t, n),
         NEW u, u = EraseEnd(t, n)
  PROVE  (\E H2 : Idle(u, S, H2)) /\ u.root = t.root
<1> DEFINE M == Sub(S, t.root)
<1>1. /\ Shaped(t, S) /\ H \in [Nodes -> Nat] /\ Calm(t, M, n, n)
      /\ IF n = t.root THEN Levelled(t, M, H, Null, "left")
             ELSE Lacking(t, S, H, n, p, SideOf(t, p, n))
      /\ IsRed(t, n) \/ n = t.root
  BY DEF Erasing, EraseLoops
<1>2. CASE n = Null
  <2>1. t.root = Null /\ M = {} /\ u = t
    BY <1>1, <1>2 DEF IsRed, Sub, EraseEnd
  <2>2. Idle(t, S, H)
    BY <1>1, <2>1 DEF Idle, Levelled, Calm, IsRed
  <2> QED
    BY <2>1, <2>2
<1>3. CASE n # Null
  <2>1. u = Paint(t, n, "black")
    BY <1>3 DEF EraseEnd
  <2>2. PICK H2 : H2 = [H EXCEPT ![n] = IF IsRed(t, n) THEN H[n] + 1 ELSE H[n]]
    OBVIOUS
  <2>3. \E q, f : Blackens(t, S, H, H2, n, q, f)
    <3>1. CASE n = t.root
      <4>1. n \in M
        BY <1>1, <1>3, <3>1, SubType
      <4>2. Blackens(t, S, H, H2, n, Null, "left")
        BY <1>1, <2>2, <3>1, <4>1 DEF Blackens
      <4> QED
        BY <4>2
    <3>2. CASE n # t.root
      <4>1. PICK d : d = SideOf(t, p, n)
        OBVIOUS
      <4>2. /\ p \in M /\ d \in Sides /\ n = t.link[d][p] /\ Levelled(t, M, H, p, d)
            /\ ~IsRed(t, t.root)
        BY <1>1, <3>2, <4>1 DEF Lacking
      <4>3. n \in M
        BY <1>1, <1>3, <4>2, ChildFacts
      <4>4. Blackens(t, S, H, H2, n, p, d)
        BY <1>1, <2>2, <3>2, <4>2, <4>3 DEF Blackens
      <4> QED
        BY <4>4
    <3> QED
      BY <3>1, <3>2
  <2> QED
    BY <2>1, <2>3, Blackened
<1> QED
  BY <1>2, <1>3

-----------------------------------------------------------------------------
(* The two rules of colours, for the whole tree. *)

\* The subtrees a child is in are those its parent is in, and its own.
LEMMA AboveChild ==
  ASSUME NEW t, NEW S, Shaped(t, S), NEW n \in Sub(S, t.root), NEW d \in Sides,
         NEW c, c = t.link[d][n], c # Null, NEW m \in Sub(S, t.root)
  PROVE  c \in S[m] <=> m = c \/ n \in S[m]
<1>1. /\ c \in Sub(S, t.root) /\ c \in S[c] /\ c \in S[n]
      /\ n \notin S[c] /\ n \in Nodes /\ m \in Nodes
  BY ChildFacts, SubType
<1>2. ASSUME n \in S[m] PROVE c \in S[m]
  BY <1>1, <1>2, Nested
<1>3. ASSUME c \in S[m], m # c, n \notin S[m] PROVE FALSE
  <2>1. m \in S[n] /\ m # n
    <3>1. n \in S[m] \/ m \in S[n]
      BY <1>1, <1>3, Laminar
    <3>2. m \in S[m]
      BY <1>1, SubType
    <3> QED
      BY <1>3, <3>1, <3>2
  <2>2. PICK f \in Sides : t.link[f][n] # Null /\ m \in S[t.link[f][n]]
    BY <2>1, NodeSides
  <2>3. t.link[f][n] \in Sub(S, t.root)
    BY <2>2, ChildFacts
  <2>4. c \in S[t.link[f][n]]
    BY <1>3, <2>2, <2>3, Nested
  <2>5. f = d
    <3>1. SUFFICES ASSUME f # d PROVE FALSE
      OBVIOUS
    <3>2. f = Opposite(d)
      BY <2>2, <3>1, OppositeFacts
    <3>3. c \in Sub(S, t.link[d][n]) /\ c \in Sub(S, t.link[f][n])
      BY <1>1, <2>2, <2>4 DEF Sub
    <3> QED
      BY <3>2, <3>3, NodeSides
  <2>6. m \in S[c]
    BY <2>2, <2>5
  <2>7. PICK h \in Sides : t.link[h][c] # Null /\ m \in S[t.link[h][c]]
    BY <1>1, <1>3, <2>6, NodeSides
  <2>8. t.link[h][c] \in Sub(S, t.root) /\ c \notin S[t.link[h][c]]
    BY <1>1, <2>7, ChildFacts
  <2>9. S[m] \subseteq S[t.link[h][c]]
    BY <2>7, <2>8, Nested
  <2> QED
    BY <1>3, <2>8, <2>9
<1> QED
  BY <1>1, <1>2, <1>3

\* The root is in no other subtree.
LEMMA AboveRoot ==
  ASSUME NEW t, NEW S, Shaped(t, S), NEW m \in Sub(S, t.root)
  PROVE  t.root \in S[m] <=> m = t.root
<1>1. t.root # Null /\ t.root \in Sub(S, t.root) /\ m \in Nodes /\ Sub(S, t.root) = S[t.root]
  <2>1. t.root # Null
    BY DEF Sub
  <2> QED
    BY <2>1, SubType
<1>2. ASSUME t.root \in S[m], m # t.root PROVE FALSE
  <2>1. PICK f \in Sides : t.link[f][t.root] # Null /\ m \in S[t.link[f][t.root]]
    BY <1>1, <1>2, NodeSides
  <2>2. t.link[f][t.root] \in Sub(S, t.root) /\ t.root \notin S[t.link[f][t.root]]
    BY <1>1, <2>1, ChildFacts
  <2>3. S[m] \subseteq S[t.link[f][t.root]]
    BY <2>1, <2>2, Nested
  <2> QED
    BY <1>2, <2>2, <2>3
<1>3. m \in S[m]
  BY <1>1, SubType
<1> QED
  BY <1>2, <1>3

\* x is the subtree that lacks a black, hanging on link f of q, or the whole tree.
Lacks(t, M, x, q, f) ==
  /\ f \in Sides
  /\ \/ q = Null /\ x \in {Null, t.root}
     \/ q \in M /\ x = t.link[f][q]

Below(S, x, n) == IF n \in Sub(S, x) THEN 1 ELSE 0

\* The black nodes on the way to n
BlacksTo(t, S, n) == {m \in Sub(S, t.root) : n \in S[m] /\ ~IsRed(t, m)}

\* They can be counted.
LEMMA BlacksToFinite ==
  ASSUME NEW t, NEW S, Shaped(t, S), NEW n
  PROVE  IsFiniteSet(BlacksTo(t, S, n)) /\ Cardinality(BlacksTo(t, S, n)) \in Nat
<1>1. BlacksTo(t, S, n) \subseteq Nodes
  BY SubType DEF BlacksTo
<1>2. IsFiniteSet(BlacksTo(t, S, n))
  BY <1>1, NodeAssumption, FS_Subset
<1> QED
  BY <1>2, FS_CardinalityType

\* Going to a child meets one black more if the child is black.
LEMMA BlacksToChild ==
  ASSUME NEW t, NEW S, Shaped(t, S), NEW n \in Sub(S, t.root), NEW d \in Sides,
         NEW c, c = t.link[d][n], c # Null
  PROVE  Cardinality(BlacksTo(t, S, c)) = Cardinality(BlacksTo(t, S, n)) + Blacks(t, c)
<1>1. /\ c \in Sub(S, t.root) /\ c \in Nodes /\ n \notin S[c] /\ t \in Trees
  BY ChildFacts DEF Shaped
<1>2. \A m \in Sub(S, t.root) : c \in S[m] <=> m = c \/ n \in S[m]
  BY AboveChild
<1>3. IsFiniteSet(BlacksTo(t, S, n)) /\ Cardinality(BlacksTo(t, S, n)) \in Nat
  BY BlacksToFinite
<1>4. c \notin BlacksTo(t, S, n)
  BY <1>1 DEF BlacksTo
<1>5. t.color[c] \in {"red", "black"} /\ c # Null
  BY <1>1 DEF Trees, Colors
<1>6. CASE IsRed(t, c)
  <2>1. BlacksTo(t, S, c) = BlacksTo(t, S, n)
    BY <1>2, <1>6 DEF BlacksTo
  <2>2. Blacks(t, c) = 0
    BY <1>6 DEF IsRed, Blacks
  <2> QED
    BY <1>3, <2>1, <2>2
<1>7. CASE ~IsRed(t, c)
  <2>1. BlacksTo(t, S, c) = BlacksTo(t, S, n) \cup {c}
    BY <1>1, <1>2, <1>7 DEF BlacksTo
  <2>2. Blacks(t, c) = 1
    BY <1>5, <1>7 DEF IsRed, Blacks
  <2>3. Cardinality(BlacksTo(t, S, n) \cup {c}) = Cardinality(BlacksTo(t, S, n)) + 1
    BY <1>3, <1>4, FS_AddElement
  <2> QED
    BY <2>1, <2>2, <2>3
<1> QED
  BY <1>6, <1>7

\* On the way to the root there is only the root.
LEMMA BlacksToRoot ==
  ASSUME NEW t, NEW S, Shaped(t, S), t.root # Null
  PROVE  Cardinality(BlacksTo(t, S, t.root)) = Blacks(t, t.root)
<1>1. t.root \in Sub(S, t.root) /\ t.root \in Nodes /\ t \in Trees
  BY SubType DEF Shaped
<1>2. \A m \in Sub(S, t.root) : t.root \in S[m] <=> m = t.root
  BY AboveRoot
<1>3. t.color[t.root] \in {"red", "black"}
  BY <1>1 DEF Trees, Colors
<1>4. CASE IsRed(t, t.root)
  <2>1. BlacksTo(t, S, t.root) = {}
    BY <1>2, <1>4 DEF BlacksTo
  <2>2. Blacks(t, t.root) = 0
    BY <1>4 DEF IsRed, Blacks
  <2> QED
    BY <2>1, <2>2, FS_EmptySet
<1>5. CASE ~IsRed(t, t.root)
  <2>1. BlacksTo(t, S, t.root) = {t.root}
    BY <1>1, <1>2, <1>5 DEF BlacksTo
  <2>2. Blacks(t, t.root) = 1
    BY <1>3, <1>5 DEF IsRed, Blacks
  <2> QED
    BY <2>1, <2>2, FS_Singleton
<1> QED
  BY <1>4, <1>5

\* The step over a link accounts for what is lacking below it.
LEMMA BelowChild ==
  ASSUME NEW t, NEW S, Shaped(t, S), NEW M, M = Sub(S, t.root),
         NEW x, NEW q, NEW f, Lacks(t, M, x, q, f),
         NEW p \in M, NEW d \in Sides, NEW n, n = t.link[d][p], n # Null
  PROVE  Below(S, x, n) = Below(S, x, p) + Short(q, f, p, d)
<1>1. n \in M /\ n \in Nodes /\ p \in Nodes /\ p # Null /\ t.parent[n] = p /\ n # t.root
  <2>1. n \in M /\ n \in Nodes /\ p \in Nodes /\ t.parent[n] = p
    BY ChildFacts
  <2> QED
    BY <2>1, ParentFacts, LinksAre
<1>4. Null \notin M
  BY SubType, NodeAssumption
<1>2. CASE q = Null
  <2>1. Short(q, f, p, d) = 0
    BY <1>1, <1>2 DEF Short
  <2>2. Below(S, x, n) = Below(S, x, p)
    <3>1. CASE x = Null
      BY <3>1 DEF Below, Sub
    <3>2. CASE x # Null
      <4>1. x = t.root
        BY <1>2, <1>4, <3>2 DEF Lacks
      <4> QED
        BY <1>1, <4>1 DEF Below
    <3> QED
      BY <3>1, <3>2
  <2>3. Below(S, x, p) \in {0, 1}
    BY DEF Below
  <2> QED
    BY <2>1, <2>2, <2>3
<1>3. CASE q # Null
  <2>1. q \in M /\ x = t.link[f][q] /\ f \in Sides
    BY <1>3 DEF Lacks
  <2>2. CASE x = Null
    <3>1. Short(q, f, p, d) = 0
      BY <2>1, <2>2 DEF Short
    <3> QED
      BY <2>2, <3>1 DEF Below, Sub
  <2>3. CASE x # Null
    <3>1. x \in M /\ x \in Nodes /\ t.parent[x] = q /\ q \notin S[x] /\ x \in S[x]
              /\ Sub(S, x) = S[x]
      <4>1. x \in M /\ x \in Nodes /\ t.parent[x] = q /\ q \notin S[x] /\ x \in S[x]
        BY <2>1, <2>3, ChildFacts
      <4> QED
        BY <2>3, <4>1 DEF Sub
    <3>2. CASE n = x
      <4>1. p = q
        BY <1>1, <3>1, <3>2
      <4>2. d = f
        <5>1. \A g \in Sides : t.link[g][p] = n => g = SideOf(t, p, n)
          BY <1>1, SideOfChild
        <5> QED
          BY <2>1, <3>2, <4>1, <5>1
      <4>3. Short(q, f, p, d) = 1
        BY <4>1, <4>2 DEF Short
      <4>4. Below(S, x, n) = 1 /\ Below(S, x, p) = 0
        BY <3>1, <3>2, <4>1 DEF Below
      <4> QED
        BY <4>3, <4>4
    <3>3. CASE n # x
      <4>1. Short(q, f, p, d) = 0
        BY <2>1, <3>3 DEF Short
      <4>2. n \in S[x] <=> p \in S[x]
        BY <3>1, <3>3, AboveChild
      <4>3. Below(S, x, n) = Below(S, x, p) /\ Below(S, x, p) \in {0, 1}
        BY <3>1, <4>2 DEF Below
      <4> QED
        BY <4>1, <4>3
    <3> QED
      BY <3>2, <3>3
  <2> QED
    BY <2>2, <2>3
<1> QED
  BY <1>2, <1>3

\* What is met on the way to n, what is left below it and what is lacking add up to the
\* same number for every node.
WaySum(t, S, H, x, n) ==
  Cardinality(BlacksTo(t, S, n)) + H[n] - Blacks(t, n) + Below(S, x, n)

\* The sum is that of the root: it stays the same over every link.
LEMMA WayDown ==
  ASSUME NEW t, NEW S, Shaped(t, S), NEW M, M = Sub(S, t.root), NEW H \in [Nodes -> Nat],
         NEW x, NEW q, NEW f, Lacks(t, M, x, q, f), Levelled(t, M, H, q, f),
         NEW n \in M
  PROVE  WaySum(t, S, H, x, n) = H[t.root] + Below(S, x, t.root)
<1>1. /\ t \in Trees /\ M \subseteq Nodes /\ t.root # Null /\ t.root \in M /\ t.root \in Nodes
  <2>1. t.root # Null
    BY DEF Sub
  <2> QED
    BY <2>1, SubType DEF Shaped
<1> DEFINE Same(m) == WaySum(t, S, H, x, m) = H[t.root] + Below(S, x, t.root)
           X == {m \in M : ~Same(m)}
           Out == [m \in Nodes |-> Nodes \ S[m]]
<1>2. SUFFICES ASSUME X # {} PROVE FALSE
  OBVIOUS
<1>3. X \in SUBSET Nodes /\ Out \in [Nodes -> SUBSET Nodes]
  BY <1>1
<1>4. PICK m \in X : \A l \in X : Out[l] \subseteq Out[m] => Out[l] = Out[m]
  <2> HIDE DEF X, Out
  <2> QED
    BY <1>2, <1>3, SmallestSet
<1>5. m \in M /\ m \in Nodes /\ ~Same(m)
  BY <1>1, <1>4
<1>6. \A k \in Nodes : Blacks(t, k) \in {0, 1} /\ H[k] \in Nat /\ Below(S, x, k) \in {0, 1}
  BY DEF Blacks, Below
<1>7. CASE m = t.root
  <2>1. Cardinality(BlacksTo(t, S, m)) = Blacks(t, m)
    BY <1>1, <1>7, BlacksToRoot
  <2>2. Blacks(t, m) \in Int /\ H[m] \in Int /\ Below(S, x, m) \in Int
    BY <1>5, <1>6
  <2>3. WaySum(t, S, H, x, m) = H[m] + Below(S, x, m)
    BY <2>1, <2>2 DEF WaySum
  <2> QED
    BY <1>5, <1>7, <2>3
<1>8. CASE m # t.root
  <2>1. PICK p : p = t.parent[m]
    OBVIOUS
  <2>2. p \in M /\ p \in Nodes /\ S[m] \subseteq S[p] /\ p \notin S[m]
            /\ \E d \in Sides : t.link[d][p] = m
    BY <1>5, <1>8, <2>1, ParentFacts
  <2>3. PICK d \in Sides : t.link[d][p] = m
    BY <2>2
  <2>4. Same(p)
    <3>1. S[m] \in SUBSET Nodes /\ S[p] \in SUBSET Nodes /\ p \in S[p]
      BY <1>5, <2>2 DEF Shaped
    <3>2. Out[p] \subseteq Out[m] /\ Out[p] # Out[m]
      BY <1>5, <2>2, <3>1
    <3> HIDE DEF Out
    <3> QED
      BY <1>4, <2>2, <3>2
  <2>5. m # Null
    BY <1>5, NodeAssumption
  <2>6. Below(S, x, m) = Below(S, x, p) + Short(q, f, p, d)
    BY <2>2, <2>3, <2>5, BelowChild
  <2>7. Cardinality(BlacksTo(t, S, m)) = Cardinality(BlacksTo(t, S, p)) + Blacks(t, m)
    BY <2>2, <2>3, <2>5, BlacksToChild
  <2>8. H[p] = H[m] + Short(q, f, p, d) + Blacks(t, p)
    <3>1. LevelAt(t, H, q, f, p)
      BY <2>2 DEF Levelled
    <3>2. H[p] = High(H, m) + Short(q, f, p, d) + Blacks(t, p)
      BY <2>3, <3>1 DEF LevelAt
    <3> QED
      BY <2>5, <3>2 DEF High
  <2>9. /\ Cardinality(BlacksTo(t, S, p)) \in Int /\ Blacks(t, m) \in Int /\ Blacks(t, p) \in Int
        /\ H[m] \in Int /\ H[p] \in Int /\ Below(S, x, p) \in Int /\ Short(q, f, p, d) \in Int
    <3>1. Cardinality(BlacksTo(t, S, p)) \in Nat
      BY BlacksToFinite
    <3>2. Short(q, f, p, d) \in Int
      BY DEF Short
    <3> QED
      BY <1>5, <1>6, <2>2, <3>1, <3>2
  <2>10. WaySum(t, S, H, x, m) = WaySum(t, S, H, x, p)
    BY <2>6, <2>7, <2>8, <2>9 DEF WaySum
  <2> QED
    BY <1>5, <2>4, <2>10
<1> QED
  BY <1>7, <1>8

\* At an empty link nothing is left below.
LEMMA WayEnds ==
  ASSUME NEW t, NEW S, Shaped(t, S), NEW M, M = Sub(S, t.root), NEW H \in [Nodes -> Nat],
         NEW x, NEW q, NEW f, Lacks(t, M, x, q, f), Levelled(t, M, H, q, f),
         NEW n \in M, NEW d \in Sides, t.link[d][n] = Null
  PROVE  Cardinality(BlacksTo(t, S, n)) + Short(q, f, n, d) + Below(S, x, n)
           = H[t.root] + Below(S, x, t.root)
<1>1. WaySum(t, S, H, x, n) = H[t.root] + Below(S, x, t.root)
  BY WayDown
<1>2. H[n] = Short(q, f, n, d) + Blacks(t, n)
  <2>1. LevelAt(t, H, q, f, n)
    BY DEF Levelled
  <2>2. H[n] = High(H, Null) + Short(q, f, n, d) + Blacks(t, n)
    BY <2>1 DEF LevelAt
  <2> QED
    BY <2>2 DEF High, Short, Blacks
<1>3. /\ Cardinality(BlacksTo(t, S, n)) \in Int /\ Blacks(t, n) \in Int
      /\ Short(q, f, n, d) \in Int /\ Below(S, x, n) \in Int
  <2>1. Cardinality(BlacksTo(t, S, n)) \in Nat
    BY BlacksToFinite
  <2> QED
    BY <2>1 DEF Blacks, Short, Below
<1> QED
  BY <1>1, <1>2, <1>3 DEF WaySum

-----------------------------------------------------------------------------
(* Walking the tree: ks_rb_next and ks_rb_prev. *)

\* A node outside a subtree is on the same side of everything in it.
LEMMA Outside ==
  ASSUME NEW t, NEW S, Shaped(t, S), NEW n \in Sub(S, t.root),
         NEW m \in Sub(S, t.root), m \notin S[n], NEW y \in S[n], NEW z \in S[n],
         NEW d \in Sides, Beyond(d, Key[m], Key[y])
  PROVE  Beyond(d, Key[m], Key[z])
<1> DEFINE M == Sub(S, t.root)
           X == {l \in M : m \in S[l] /\ n \in S[l]}
<1>1. /\ t.root \in M /\ M = S[t.root] /\ M \in SUBSET Nodes /\ n \in S[n] /\ m \in S[m]
  <2>1. t.root # Null
    BY DEF Sub
  <2> QED
    BY <2>1, SubType
<1>2. y \in M /\ z \in M
  BY Nested
<1>3. Key[m] \in Int /\ Key[y] \in Int /\ Key[z] \in Int
  BY <1>1, <1>2, SubType
<1>4. X \in SUBSET Nodes /\ X # {}
  BY <1>1
<1>5. PICK l \in X : \A j \in X : S[j] \subseteq S[l] => l \in S[j]
  <2> HIDE DEF X
  <2> QED
    BY <1>4, Smallest
<1>6. l \in M /\ l \in Nodes /\ m \in S[l] /\ n \in S[l] /\ l # n /\ Key[l] \in Int
  BY <1>1, <1>4, <1>5, SubType
<1>7. PICK g \in Sides : t.link[g][l] # Null /\ n \in S[t.link[g][l]]
  BY <1>6, NodeSides
<1>8. /\ t.link[g][l] \in M /\ S[t.link[g][l]] \subseteq S[l] /\ l \notin S[t.link[g][l]]
      /\ \A j \in S[t.link[g][l]] : Beyond(g, Key[j], Key[l])
  BY <1>6, <1>7, ChildFacts
<1>9. Beyond(g, Key[y], Key[l]) /\ Beyond(g, Key[z], Key[l])
  <2>1. S[n] \subseteq S[t.link[g][l]]
    BY <1>7, <1>8, Nested
  <2> QED
    BY <1>8, <2>1
<1>10. m \notin S[t.link[g][l]]
  BY <1>5, <1>6, <1>7, <1>8
<1>11. CASE m = l
  <2>1. Beyond(Opposite(g), Key[m], Key[y]) /\ Beyond(Opposite(g), Key[m], Key[z])
    BY <1>3, <1>9, <1>11, BeyondFacts
  <2>2. d = Opposite(g)
    BY <1>3, <2>1, BeyondFacts, OppositeFacts
  <2> QED
    BY <2>1, <2>2
<1>12. CASE m # l
  <2>1. PICK f \in Sides : t.link[f][l] # Null /\ m \in S[t.link[f][l]]
    BY <1>6, <1>12, NodeSides
  <2>2. f = Opposite(g)
    BY <1>10, <2>1, OppositeFacts
  <2>3. Beyond(f, Key[m], Key[l])
    BY <1>6, <2>1, ChildFacts
  <2>4. Beyond(f, Key[l], Key[y]) /\ Beyond(f, Key[l], Key[z])
    BY <1>3, <1>6, <1>9, <2>2, BeyondFacts
  <2>5. Beyond(f, Key[m], Key[y]) /\ Beyond(f, Key[m], Key[z])
    BY <1>3, <1>6, <2>3, <2>4, BeyondFacts
  <2>6. d = f
    BY <1>3, <2>5, BeyondFacts, OppositeFacts
  <2> QED
    BY <2>5, <2>6
<1> QED
  BY <1>11, <1>12

\* y is the next node on side d that is not in W, or there is none.
NextOn(M, d, W, n, y) ==
  IF y = Null THEN \A m \in M \ W : ~Beyond(d, Key[m], Key[n])
  ELSE /\ y \in M \ W /\ Beyond(d, Key[y], Key[n])
       /\ \A m \in M \ W : Beyond(d, Key[m], Key[n]) => m = y \/ Beyond(d, Key[m], Key[y])

\* The climb finds the next node outside the subtree.
Climb(t, d) == CHOOSE c : c = [m \in Nodes |->
  LET p == t.parent[m] IN IF p # Null /\ t.link[d][p] = m THEN c[p] ELSE p]

\* The climb is the recursion that ks_rb_next and ks_rb_prev write as a loop.
LEMMA ClimbGoes ==
  ASSUME NEW t, NEW S, Shaped(t, S), NEW d \in Sides, NEW n \in Nodes
  PROVE  Climb(t, d)[n] = LET p == t.parent[n]
                          IN  IF p # Null /\ t.link[d][p] = n THEN Climb(t, d)[p] ELSE p
<1> DEFINE F == [m \in Nodes |-> IF t.parent[m] # Null /\ t.link[d][t.parent[m]] = m
                                 THEN t.parent[m] ELSE Null]
           V == [m \in Nodes |-> t.parent[m]]
<1>1. F \in [Nodes -> Nodes \cup {Null}]
  BY SubType
<1>2. \A m \in Nodes : /\ F[m] = IF t.parent[m] # Null /\ t.link[d][t.parent[m]] = m
                                 THEN t.parent[m] ELSE Null
                       /\ V[m] = t.parent[m]
  OBVIOUS
<1> HIDE DEF F, V
<1>3. PICK g : g = [m \in Nodes |-> IF F[m] = Null THEN V[m] ELSE g[F[m]]]
  BY <1>1, WalkExists
<1>4. \A m \in Nodes : g[m] = LET p == t.parent[m] IN IF p # Null
          /\ t.link[d][p] = m THEN g[p] ELSE p
  BY <1>2, <1>3
<1>5. g = [m \in Nodes |-> LET p == t.parent[m] IN IF p # Null /\ t.link[d][p] = m THEN g[p] ELSE p]
  BY <1>3, <1>4
<1>6. Climb(t, d) = [m \in Nodes |-> LET p == t.parent[m]
                                     IN  IF p # Null /\ t.link[d][p] = m THEN Climb(t, d)[p] ELSE p]
  BY <1>5 DEF Climb
<1> QED
  BY <1>6

\* The climb ends at the next node outside the subtree, or at Null behind the last one.
LEMMA ClimbFinds ==
  ASSUME NEW t, NEW S, Shaped(t, S), NEW d \in Sides, NEW M, M = Sub(S, t.root), NEW n \in M
  PROVE  NextOn(M, d, S[n], n, Climb(t, d)[n])
<1> DEFINE Fine(m) == NextOn(M, d, S[m], m, Climb(t, d)[m])
           X == {m \in M : ~Fine(m)}
           Out == [m \in Nodes |-> Nodes \ S[m]]
<1>1. /\ t \in Trees /\ M \subseteq Nodes /\ t.root # Null /\ t.root \in M /\ t.root \in Nodes
      /\ M = S[t.root]
  <2>1. t.root # Null
    BY DEF Sub
  <2> QED
    BY <2>1, SubType DEF Shaped
<1>2. SUFFICES ASSUME X # {} PROVE FALSE
  OBVIOUS
<1>3. X \in SUBSET Nodes /\ Out \in [Nodes -> SUBSET Nodes]
  BY <1>1
<1>4. PICK m \in X : \A l \in X : Out[l] \subseteq Out[m] => Out[l] = Out[m]
  <2> HIDE DEF X, Out
  <2> QED
    BY <1>2, <1>3, SmallestSet
<1>5. m \in M /\ m \in Nodes /\ ~Fine(m) /\ m \in S[m]
  BY <1>1, <1>4, SubType
<1>6. CASE m = t.root
  <2>1. t.parent[m] = Null
    BY <1>5, <1>6, ParentFacts
  <2>2. Climb(t, d)[m] = Null
    BY <1>5, <2>1, ClimbGoes
  <2>3. M \ S[m] = {}
    BY <1>1, <1>6
  <2> QED
    BY <1>5, <2>2, <2>3 DEF NextOn
<1>7. CASE m # t.root
  <2>1. PICK p : p = t.parent[m]
    OBVIOUS
  <2>2. /\ p \in M /\ p \in Nodes /\ p # Null /\ S[m] \subseteq S[p] /\ p \notin S[m]
        /\ \E f \in Sides : t.link[f][p] = m
    <3>1. p \in M /\ p \in Nodes /\ S[m] \subseteq S[p] /\ p \notin S[m]
          /\ \E f \in Sides : t.link[f][p] = m
      BY <1>5, <1>7, <2>1, ParentFacts
    <3> QED
      BY <3>1, NodeAssumption
  <2>3. PICK f \in Sides : t.link[f][p] = m
    BY <2>2
  <2>4. m # Null /\ p \in S[p] /\ m \in S[p]
    BY <1>5, <2>2, NodeAssumption, SubType
  <2>5. Beyond(f, Key[m], Key[p]) /\ \A j \in S[m] : Beyond(f, Key[j], Key[p])
    BY <1>5, <2>2, <2>3, <2>4, ChildFacts
  <2>6. ASSUME NEW j \in M PROVE Key[j] \in Int
    BY <1>1, <2>6, SubType
  <2>7. Opposite(f) \in Sides /\ Beyond(Opposite(f), Key[p], Key[m])
    BY <1>5, <2>2, <2>5, <2>6, BeyondFacts, OppositeFacts
  \* A node below the parent and outside this subtree is on the other side.
  <2>8. ASSUME NEW j \in S[p], j \notin S[m]
        PROVE  j = p \/ Beyond(Opposite(f), Key[j], Key[p])
    <3>1. SUFFICES ASSUME j # p PROVE Beyond(Opposite(f), Key[j], Key[p])
      OBVIOUS
    <3>2. PICK h \in Sides : t.link[h][p] # Null /\ j \in S[t.link[h][p]]
      BY <2>2, <2>8, <3>1, NodeSides
    <3>3. h = Opposite(f)
      BY <2>3, <2>8, <3>2, OppositeFacts
    <3> QED
      BY <2>2, <3>2, <3>3, ChildFacts
  <2>9. ASSUME NEW j \in M \ S[p] PROVE Beyond(d, Key[j], Key[m]) <=> Beyond(d, Key[j], Key[p])
    <3>1. j \in M /\ j \notin S[p]
      BY <2>9
    <3> QED
      BY <2>2, <2>4, <3>1, Outside
  <2>10. CASE t.link[d][p] = m
    <3>1. f = d
      <4>1. \A g \in Sides : t.link[g][p] = m => g = SideOf(t, p, m)
        BY <1>5, <1>7, <2>1, SideOfChild
      <4> QED
        BY <2>3, <2>10, <4>1
    <3>2. Climb(t, d)[m] = Climb(t, d)[p]
      BY <1>5, <2>1, <2>2, <2>10, ClimbGoes
    <3>3. Fine(p)
      <4>1. S[m] \in SUBSET Nodes /\ S[p] \in SUBSET Nodes
        BY <1>5, <2>2 DEF Shaped
      <4>2. Out[p] \subseteq Out[m] /\ Out[p] # Out[m]
        BY <1>5, <2>2, <2>4, <4>1
      <4> HIDE DEF Out
      <4> QED
        BY <1>4, <2>2, <4>2
    <3>4. PICK r : r = Climb(t, d)[m]
      OBVIOUS
    <3>5. NextOn(M, d, S[p], p, r)
      BY <3>2, <3>3, <3>4
    <3>6. ASSUME NEW j \in M \ S[m], Beyond(d, Key[j], Key[m]) PROVE j \in M \ S[p]
      <4>1. SUFFICES ASSUME j \in S[p] PROVE FALSE
        BY <3>6
      <4>2. Beyond(Opposite(d), Key[j], Key[m])
        <5>1. CASE j = p
          BY <2>7, <3>1, <5>1
        <5>2. CASE j # p
          <6>1. Beyond(Opposite(d), Key[j], Key[p])
            BY <2>8, <3>1, <3>6, <4>1, <5>2
          <6> QED
            BY <1>5, <2>2, <2>6, <2>7, <3>1, <3>6, <6>1, BeyondFacts
        <5> QED
          BY <5>1, <5>2
      <4> QED
        BY <1>5, <2>6, <3>6, <4>2, BeyondFacts
    <3>7. NextOn(M, d, S[m], m, r)
      <4>1. CASE r = Null
        <5>1. \A j \in M \ S[p] : ~Beyond(d, Key[j], Key[p])
          BY <3>5, <4>1 DEF NextOn
        <5>2. \A j \in M \ S[m] : ~Beyond(d, Key[j], Key[m])
          BY <2>9, <3>6, <5>1
        <5> QED
          BY <4>1, <5>2 DEF NextOn
      <4>2. CASE r # Null
        <5>1. /\ r \in M \ S[p] /\ Beyond(d, Key[r], Key[p])
              /\ \A j \in M \ S[p] : Beyond(d, Key[j], Key[p]) => j = r \/ Beyond(d, Key[j], Key[r])
          BY <3>5, <4>2 DEF NextOn
        <5>2. r \in M \ S[m] /\ Beyond(d, Key[r], Key[m])
          BY <2>2, <2>9, <5>1
        <5>3. \A j \in M \ S[m] : Beyond(d, Key[j], Key[m]) => j = r \/ Beyond(d, Key[j], Key[r])
          BY <2>9, <3>6, <5>1
        <5> QED
          BY <4>2, <5>2, <5>3 DEF NextOn
      <4> QED
        BY <4>1, <4>2
    <3> QED
      BY <1>5, <3>4, <3>7
  <2>11. CASE t.link[d][p] # m
    <3>1. f = Opposite(d) /\ d = Opposite(f)
      BY <2>3, <2>11, OppositeFacts
    <3>2. Climb(t, d)[m] = p
      BY <1>5, <2>1, <2>11, ClimbGoes
    <3>3. p \in M \ S[m] /\ Beyond(d, Key[p], Key[m])
      BY <2>2, <2>7, <3>1
    <3>4. ASSUME NEW j \in M \ S[m], Beyond(d, Key[j], Key[m])
          PROVE  j = p \/ Beyond(d, Key[j], Key[p])
      <4>1. CASE j \in S[p]
        BY <2>8, <3>1, <3>4, <4>1
      <4>2. CASE j \notin S[p]
        BY <2>9, <3>4, <4>2
      <4> QED
        BY <4>1, <4>2
    <3>5. NextOn(M, d, S[m], m, p)
      BY <2>2, <3>3, <3>4 DEF NextOn
    <3> QED
      BY <1>5, <3>2, <3>5
  <2> QED
    BY <2>10, <2>11
<1> QED
  BY <1>6, <1>7

\* The next node, of all
LEMMA NeighbourIs ==
  ASSUME NEW t, NEW S, Shaped(t, S), NEW d \in Sides, NEW M, M = Sub(S, t.root), NEW n \in M
  PROVE  NextOn(M, d, {}, n, Neighbour(t, d, n))
<1>1. /\ M \subseteq Nodes /\ n \in Nodes /\ n \in S[n] /\ Opposite(d) \in Sides
             /\ Opposite(Opposite(d)) = d
      /\ \A j \in M : Key[j] \in Int
  <2>1. M \subseteq Nodes
    BY SubType
  <2> QED
    BY <2>1, SubType, OppositeFacts
<1>2. \A k \in Sides : \A j \in M : ~Beyond(k, Key[j], Key[j])
  BY <1>1, BeyondFacts
<1>3. CASE t.link[d][n] # Null
  <2>1. PICK c, y : c = t.link[d][n] /\ y = Neighbour(t, d, n)
    OBVIOUS
  <2>2. y = Outermost(t, Opposite(d), c)
    BY <1>3, <2>1 DEF Neighbour
  <2>3. c \in M /\ S[c] \subseteq S[n] /\ \A j \in S[c] : Beyond(d, Key[j], Key[n])
    BY <1>3, <2>1, ChildFacts
  <2>4. IsOutermost(t, S, Opposite(d), c, y)
    BY <1>1, <2>2, <2>3, OutermostIs
  <2>5. y \in S[c] /\ \A j \in S[c] : j # y => Beyond(d, Key[j], Key[y])
    BY <1>1, <2>4 DEF IsOutermost
  <2>6. y \in M /\ y # Null /\ y \in S[n] /\ Beyond(d, Key[y], Key[n])
    <3>1. y \in M
      BY <2>3, <2>5, Nested
    <3> QED
      BY <1>1, <2>3, <2>5, <3>1, NodeAssumption
  <2>7. ASSUME NEW j \in M, Beyond(d, Key[j], Key[n]) PROVE j = y \/ Beyond(d, Key[j], Key[y])
    <3>1. CASE j \notin S[n]
      BY <1>1, <2>6, <2>7, <3>1, Outside
    <3>2. CASE j \in S[n]
      <4>1. j # n
        BY <1>2, <2>7
      <4>2. PICK h \in Sides : t.link[h][n] # Null /\ j \in S[t.link[h][n]]
        BY <3>2, <4>1, NodeSides
      <4>3. Beyond(h, Key[j], Key[n])
        BY <4>2, ChildFacts
      <4>4. h = d
        <5>1. Key[j] \in Int /\ Key[n] \in Int
          BY <1>1
        <5> QED
          BY <2>7, <4>3, <5>1, BeyondFacts, OppositeFacts
      <4> QED
        BY <2>1, <2>5, <4>2, <4>4
    <3> QED
      BY <3>1, <3>2
  <2> QED
    BY <2>1, <2>6, <2>7 DEF NextOn
<1>4. CASE t.link[d][n] = Null
  <2>1. Neighbour(t, d, n) = Climb(t, d)[n]
    BY <1>4 DEF Neighbour, Climb
  <2>2. PICK y : y = Climb(t, d)[n]
    OBVIOUS
  <2>3. NextOn(M, d, S[n], n, y)
    BY <2>2, ClimbFinds
  <2>4. ASSUME NEW j \in M, Beyond(d, Key[j], Key[n]) PROVE j \in M \ S[n]
    <3>1. SUFFICES ASSUME j \in S[n] PROVE FALSE
      BY <2>4
    <3>2. j # n
      BY <1>2, <2>4
    <3>3. PICK h \in Sides : t.link[h][n] # Null /\ j \in S[t.link[h][n]]
      BY <3>1, <3>2, NodeSides
    <3>4. Beyond(h, Key[j], Key[n]) /\ h = Opposite(d)
      BY <1>4, <3>3, ChildFacts, OppositeFacts
    <3> QED
      BY <1>1, <2>4, <3>4, BeyondFacts
  <2>5. NextOn(M, d, {}, n, y)
    <3>1. CASE y = Null
      BY <2>3, <2>4, <3>1 DEF NextOn
    <3>2. CASE y # Null
      BY <2>3, <2>4, <3>2 DEF NextOn
    <3> QED
      BY <3>1, <3>2
  <2> QED
    BY <2>1, <2>2, <2>5
<1> QED
  BY <1>3, <1>4

-----------------------------------------------------------------------------
(* Going through the whole tree. *)

\* The entries from v on
Rest(M, d, v) == IF v = Null THEN {} ELSE {m \in M : m = v \/ Beyond(d, Key[m], Key[v])}

\* They can be counted.
LEMMA RestFinite ==
  ASSUME NEW M \in SUBSET Nodes, NEW d, NEW v
  PROVE  IsFiniteSet(Rest(M, d, v)) /\ Cardinality(Rest(M, d, v)) \in Nat
<1>1. Rest(M, d, v) \in SUBSET Nodes
  BY DEF Rest
<1>2. IsFiniteSet(Rest(M, d, v))
  BY <1>1, NodeAssumption, FS_Subset
<1> QED
  BY <1>2, FS_CardinalityType

\* ks_rb_first and ks_rb_last start where everything is still to come.
LEMMA RestOfFirst ==
  ASSUME NEW t, NEW S, Shaped(t, S), NEW d \in Sides, NEW M, M = Sub(S, t.root),
         NEW v, v = EndOf(t, Opposite(d))
  PROVE  v \in M \cup {Null} /\ Rest(M, d, v) = M
<1>1. CASE t.root = Null
  BY <1>1 DEF EndOf, Sub, Rest
<1>2. CASE t.root # Null
  <2>1. t.root \in M /\ M = S[t.root] /\ v = Outermost(t, Opposite(d), t.root)
    BY <1>2, SubType DEF EndOf, Sub
  <2>2. Opposite(d) \in Sides /\ Opposite(Opposite(d)) = d
    BY OppositeFacts
  <2>3. IsOutermost(t, S, Opposite(d), t.root, v)
    BY <2>1, <2>2, OutermostIs
  <2>4. v \in M /\ \A m \in M : m # v => Beyond(d, Key[m], Key[v])
    BY <2>1, <2>2, <2>3 DEF IsOutermost
  <2>5. v # Null
    BY <2>4, SubType, NodeAssumption
  <2> QED
    BY <2>4, <2>5 DEF Rest
<1> QED
  BY <1>1, <1>2

\* Every step leaves one entry less to visit.
LEMMA RestShrinks ==
  ASSUME NEW t, NEW S, Shaped(t, S), NEW d \in Sides, NEW M, M = Sub(S, t.root),
         NEW v \in M, NEW w, w = Neighbour(t, d, v)
  PROVE  /\ w \in M \cup {Null} /\ (w # Null => Beyond(d, Key[w], Key[v]))
         /\ Cardinality(Rest(M, d, w)) = Cardinality(Rest(M, d, v)) - 1
<1>1. M \in SUBSET Nodes /\ v # Null /\ \A m \in M : Key[m] \in Int
  <2>1. M \in SUBSET Nodes
    BY SubType
  <2> QED
    BY <2>1, SubType
<1>2. NextOn(M, d, {}, v, w)
  BY NeighbourIs
<1>3. w # Null => w \in M /\ Beyond(d, Key[w], Key[v])
  BY <1>2 DEF NextOn
<1>4. ~Beyond(d, Key[v], Key[v])
  BY <1>1, BeyondFacts
<1>5. Rest(M, d, v) \ {v} = {m \in M : Beyond(d, Key[m], Key[v])} /\ v \in Rest(M, d, v)
  BY <1>1, <1>4 DEF Rest
<1>6. Rest(M, d, w) = {m \in M : Beyond(d, Key[m], Key[v])}
  <2>1. CASE w = Null
    BY <1>2, <2>1 DEF NextOn, Rest
  <2>2. CASE w # Null
    <3>1. \A m \in M : Beyond(d, Key[m], Key[v]) => m = w \/ Beyond(d, Key[m], Key[w])
      BY <1>2, <2>2 DEF NextOn
    <3>2. ASSUME NEW m \in M, Beyond(d, Key[m], Key[w]) PROVE Beyond(d, Key[m], Key[v])
      <4>1. Key[m] \in Int /\ Key[w] \in Int /\ Key[v] \in Int /\ Beyond(d, Key[w], Key[v])
        BY <1>1, <1>3, <2>2
      <4> QED
        BY <3>2, <4>1, BeyondFacts
    <3> QED
      BY <1>3, <2>2, <3>1, <3>2 DEF Rest
  <2> QED
    BY <2>1, <2>2
<1>7. Cardinality(Rest(M, d, v) \ {v}) = Cardinality(Rest(M, d, v)) - 1
  BY <1>1, <1>5, RestFinite, FS_RemoveElement
<1> QED
  BY <1>3, <1>5, <1>6, <1>7

-----------------------------------------------------------------------------
(* table_get and table_add: the search. *)

\* Where the search for k ends: a node on the search paths of which every node says that
\* k belongs where the path goes.
IsPosition(t, S, k, n, p) ==
  /\ p \in S[n]
  /\ k = Key[p] \/ t.link[Direction(k, p)][p] = Null
  /\ \A m \in S[n] : p \in S[m] /\ m # p =>
       k # Key[m] /\ p \in Sub(S, t.link[Direction(k, m)][m])

\* The search of the table ends at such a node.
LEMMA PositionIs ==
  ASSUME NEW S, Shaped(tree, S), NEW k \in Int
  PROVE  IF tree.root = Null THEN Position(k) = Null
             ELSE IsPosition(tree, S, k, tree.root, Position(k))
<1> DEFINE walk[n \in Nodes] ==
             LET d == Direction(k, n)
             IN  IF k = Key[n] \/ tree.link[d][n] = Null THEN n ELSE walk[tree.link[d][n]]
<1>1. Position(k) = IF tree.root = Null THEN Null ELSE walk[tree.root]
  BY DEF Position
<1> DEFINE F == [n \in Nodes |-> IF k = Key[n] THEN Null ELSE tree.link[Direction(k, n)][n]]
<1>2. \A n \in Nodes : Direction(k, n) \in Sides
  BY DEF Direction, Sides
<1>3. F \in [Nodes -> Nodes \cup {Null}]
  BY <1>2, SubType
<1>4. \A n \in Nodes : F[n] = IF k = Key[n] THEN Null ELSE tree.link[Direction(k, n)][n]
  OBVIOUS
<1> HIDE DEF F
<1>5. \A n \in Nodes : walk[n] = IF F[n] = Null THEN n ELSE walk[F[n]]
  <2> DEFINE V == [m \in Nodes |-> m]
  <2>1. PICK g : g = [m \in Nodes |-> IF F[m] = Null THEN V[m] ELSE g[F[m]]]
    <3> HIDE DEF V
    <3> QED
      BY <1>3, WalkExists
  <2>2. \A m \in Nodes : V[m] = m
    OBVIOUS
  <2> HIDE DEF V
  <2>3. \A n \in Nodes : g[n] = IF k = Key[n] \/ tree.link[Direction(k, n)][n] = Null THEN n
                                ELSE g[tree.link[Direction(k, n)][n]]
    BY <1>4, <2>1, <2>2
  <2>4. g = [n \in Nodes |-> LET d == Direction(k, n)
                             IN  IF k = Key[n] \/ tree.link[d][n] = Null THEN n
                                     ELSE g[tree.link[d][n]]]
    BY <2>1, <2>3
  <2>5. walk = [n \in Nodes |-> LET d == Direction(k, n)
                                IN  IF k = Key[n] \/ tree.link[d][n] = Null THEN n
                                    ELSE walk[tree.link[d][n]]]
    BY <2>4
  <2> HIDE DEF walk
  <2> QED
    BY <1>4, <2>5
<1> HIDE DEF walk
<1> DEFINE M == Sub(S, tree.root)
           X == {n \in M : ~IsPosition(tree, S, k, n, walk[n])}
<1>6. SUFFICES X = {}
  <2>1. tree.root # Null => tree.root \in M
    BY SubType
  <2> QED
    BY <1>1, <1>6, <2>1
<1>7. SUFFICES ASSUME X # {} PROVE FALSE
  OBVIOUS
<1>8. X \in SUBSET Nodes
  BY SubType
<1>9. PICK n \in X : \A l \in X : S[l] \subseteq S[n] => n \in S[l]
  <2> HIDE DEF X
  <2> QED
    BY <1>7, <1>8, Smallest
<1>10. n \in Nodes /\ n \in M /\ n \in S[n] /\ walk[n] = IF F[n] = Null THEN n ELSE walk[F[n]]
  BY <1>5, <1>8, <1>9, SubType
<1>11. CASE F[n] = Null
  <2>1. ASSUME NEW m \in S[n], n \in S[m], m # n PROVE FALSE
    <3>1. PICK f \in Sides : tree.link[f][n] # Null /\ m \in S[tree.link[f][n]]
      BY <1>10, <2>1, NodeSides
    <3>2. tree.link[f][n] \in M /\ n \notin S[tree.link[f][n]]
      BY <1>10, <3>1, ChildFacts
    <3>3. S[m] \subseteq S[tree.link[f][n]]
      BY <3>1, <3>2, Nested
    <3> QED
      BY <2>1, <3>2, <3>3
  <2>2. k = Key[n] \/ tree.link[Direction(k, n)][n] = Null
    BY <1>4, <1>10, <1>11
  <2>3. IsPosition(tree, S, k, n, n)
    BY <1>10, <2>1, <2>2 DEF IsPosition
  <2> QED
    BY <1>9, <1>10, <1>11, <2>3
<1>12. CASE F[n] # Null
  <2>1. PICK c, d, p : c = F[n] /\ d = Direction(k, n) /\ p = walk[n]
    OBVIOUS
  <2>2. c = tree.link[d][n] /\ c # Null /\ k # Key[n] /\ d \in Sides /\ p = walk[c]
    BY <1>2, <1>4, <1>10, <1>12, <2>1
  <2>3. c \in M /\ S[c] \subseteq S[n] /\ n \notin S[c]
    BY <1>10, <2>2, ChildFacts
  <2>4. IsPosition(tree, S, k, c, p)
    BY <1>9, <2>2, <2>3
  <2>5. /\ p \in S[c]
        /\ k = Key[p] \/ tree.link[Direction(k, p)][p] = Null
        /\ \A m \in S[c] : p \in S[m] /\ m # p =>
             k # Key[m] /\ p \in Sub(S, tree.link[Direction(k, m)][m])
    BY <2>4 DEF IsPosition
  <2>6. ASSUME NEW m \in S[n], p \in S[m], m # p
        PROVE  k # Key[m] /\ p \in Sub(S, tree.link[Direction(k, m)][m])
    <3>1. CASE m = n
      <4>1. Sub(S, c) = S[c]
        BY <2>2 DEF Sub
      <4> QED
        BY <2>1, <2>2, <2>5, <3>1, <4>1
    <3>2. CASE m # n
      <4>1. m \in S[c]
        <5>1. m \in M
          BY <1>10, Nested
        <5>2. m \in S[c] \/ c \in S[m]
          BY <2>3, <2>5, <2>6, <5>1, Laminar
        <5>3. ASSUME c \in S[m] PROVE m = c \/ m = n
          <6>1. PICK f \in Sides : tree.link[f][n] # Null /\ m \in S[tree.link[f][n]]
            BY <1>10, <3>2, NodeSides
          <6>2. tree.link[f][n] \in M
            BY <1>10, <6>1, ChildFacts
          <6>3. c \in S[tree.link[f][n]]
            BY <5>3, <6>1, <6>2, Nested
          <6>4. f = d
            <7>1. SUFFICES ASSUME f # d PROVE FALSE
              OBVIOUS
            <7>2. f = Opposite(d)
              BY <2>2, <7>1, OppositeFacts
            <7>3. c \in Sub(S, tree.link[d][n]) /\ c \in Sub(S, tree.link[f][n])
              BY <2>2, <2>3, <6>1, <6>3, SubType DEF Sub
            <7> QED
              BY <1>10, <2>2, <7>2, <7>3, NodeSides
          <6>5. m \in S[c]
            BY <2>2, <6>1, <6>4
          <6>6. m # c => FALSE
            <7>1. SUFFICES ASSUME m # c PROVE FALSE
              OBVIOUS
            <7>2. PICK h \in Sides : tree.link[h][c] # Null /\ m \in S[tree.link[h][c]]
              BY <2>3, <6>5, <7>1, NodeSides
            <7>3. tree.link[h][c] \in M /\ c \notin S[tree.link[h][c]]
              BY <2>3, <7>2, ChildFacts
            <7>4. S[m] \subseteq S[tree.link[h][c]]
              BY <7>2, <7>3, Nested
            <7> QED
              BY <5>3, <7>3, <7>4
          <6> QED
            BY <6>6
        <5>4. c \in S[c]
          BY <2>3, SubType
        <5> QED
          BY <3>2, <5>2, <5>3, <5>4
      <4> QED
        BY <2>5, <2>6, <4>1
    <3> QED
      BY <3>1, <3>2
  <2>7. IsPosition(tree, S, k, n, p)
    BY <2>3, <2>5, <2>6 DEF IsPosition
  <2> QED
    BY <1>9, <2>1, <2>7
<1> QED
  BY <1>11, <1>12

\* The search goes to the side on which the key belongs.
LEMMA DirectionFacts ==
  ASSUME NEW k \in Int, NEW n \in Nodes
  PROVE  /\ Direction(k, n) \in Sides
         /\ k # Key[n] => Beyond(Direction(k, n), k, Key[n])
         /\ \A f \in Sides : Beyond(f, k, Key[n]) => f = Direction(k, n)
<1>1. Key[n] \in Int
  BY NodeAssumption
<1> QED
  BY <1>1 DEF Direction, Beyond, Sides

\* The search finds an entry with the key if there is one.
LEMMA FoundIs ==
  ASSUME NEW S, Shaped(tree, S), NEW k \in Int
  PROVE  /\ Found(k) <=> \E m \in Sub(S, tree.root) : Key[m] = k
         /\ Found(k) => Position(k) \in Sub(S, tree.root)
         /\ Position(k) = Null <=> tree.root = Null
<1> DEFINE M == Sub(S, tree.root)
<1>1. CASE tree.root = Null
  <2>1. Position(k) = Null /\ M = {}
    BY <1>1, PositionIs DEF Sub
  <2> QED
    BY <1>1, <2>1 DEF Found
<1>2. CASE tree.root # Null
  <2>1. PICK p : p = Position(k)
    OBVIOUS
  <2>2. IsPosition(tree, S, k, tree.root, p)
    BY <1>2, <2>1, PositionIs
  <2>3. tree.root \in M /\ M = S[tree.root]
    BY <1>2, SubType DEF Sub
  <2>4. /\ p \in M
        /\ k = Key[p] \/ tree.link[Direction(k, p)][p] = Null
        /\ \A m \in M : p \in S[m] /\ m # p =>
             k # Key[m] /\ p \in Sub(S, tree.link[Direction(k, m)][m])
    BY <2>2, <2>3 DEF IsPosition
  <2>5. p # Null /\ p \in Nodes
    BY <2>4, SubType
  <2>6. ASSUME NEW m \in M, Key[m] = k, Key[p] # k PROVE FALSE
    <3> DEFINE X == {l \in M : p \in S[l] /\ m \in S[l]}
    <3>1. X \in SUBSET Nodes /\ X # {}
      BY <2>3, <2>4, SubType
    <3>2. PICK l \in X : \A j \in X : S[j] \subseteq S[l] => l \in S[j]
      <4> HIDE DEF X
      <4> QED
        BY <3>1, Smallest
    <3>3. l \in M /\ l \in Nodes /\ p \in S[l] /\ m \in S[l] /\ p # m
      BY <2>6, <3>1, <3>2
    <3>4. l # m
      BY <2>4, <2>6, <3>3
    <3>5. PICK f \in Sides : tree.link[f][l] # Null /\ m \in S[tree.link[f][l]]
      BY <3>3, <3>4, NodeSides
    <3>6. /\ tree.link[f][l] \in M /\ S[tree.link[f][l]] \subseteq S[l]
          /\ l \notin S[tree.link[f][l]] /\ Beyond(f, Key[m], Key[l])
      BY <3>3, <3>5, ChildFacts
    <3>7. f = Direction(k, l)
      BY <2>6, <3>3, <3>6, DirectionFacts
    <3>8. l # p
      BY <2>4, <2>6, <3>5, <3>7
    <3>9. p \in Sub(S, tree.link[f][l])
      BY <2>4, <3>3, <3>7, <3>8
    <3>10. p \in S[tree.link[f][l]]
      BY <3>5, <3>9 DEF Sub
    <3> QED
      BY <3>2, <3>5, <3>6, <3>10
  <2> QED
    BY <1>2, <2>1, <2>4, <2>5, <2>6 DEF Found
<1> QED
  BY <1>1, <1>2

\* It ends at a place where the new entry fits.
LEMMA PositionLinks ==
  ASSUME NEW S, Shaped(tree, S), NEW n \in Nodes, n \notin Sub(S, tree.root), ~Found(Key[n]),
         NEW p, p = Position(Key[n]), NEW d, d = IF p = Null THEN "left" ELSE Direction(Key[n], p)
  PROVE  CanLink(tree, S, n, p, d)
<1> DEFINE M == Sub(S, tree.root)
<1>1. Key[n] \in Int
  BY NodeAssumption
<1>2. p = Null <=> tree.root = Null
  BY <1>1, FoundIs
<1>3. CASE p = Null
  <2>1. d \in Sides
    BY <1>3 DEF Sides
  <2> QED
    BY <1>2, <1>3, <2>1 DEF CanLink
<1>4. CASE p # Null
  <2>1. tree.root # Null /\ M = S[tree.root]
    BY <1>2, <1>4 DEF Sub
  <2>2. IsPosition(tree, S, Key[n], tree.root, p)
    BY <1>1, <2>1, PositionIs
  <2>3. /\ p \in M
        /\ Key[n] = Key[p] \/ tree.link[Direction(Key[n], p)][p] = Null
        /\ \A m \in M : p \in S[m] /\ m # p =>
             Key[n] # Key[m] /\ p \in Sub(S, tree.link[Direction(Key[n], m)][m])
    BY <2>1, <2>2 DEF IsPosition
  <2>4. p \in Nodes /\ Key[n] # Key[p] /\ d = Direction(Key[n], p)
    BY <1>1, <1>4, <2>3, FoundIs, SubType
  <2>5. d \in Sides /\ tree.link[d][p] = Null /\ Beyond(d, Key[n], Key[p])
    BY <1>1, <2>3, <2>4, DirectionFacts
  <2>6. ASSUME NEW m \in M, NEW f \in Sides, p \in Sub(S, tree.link[f][m])
        PROVE  Beyond(f, Key[n], Key[m])
    <3>1. m \in Nodes /\ p \in S[m] /\ p # m /\ p \notin Sub(S, tree.link[Opposite(f)][m])
      BY <2>6, NodeSides, SubType
    <3>2. Key[n] # Key[m] /\ p \in Sub(S, tree.link[Direction(Key[n], m)][m])
      BY <2>3, <3>1
    <3>3. Direction(Key[n], m) \in Sides /\ Beyond(Direction(Key[n], m), Key[n], Key[m])
      BY <1>1, <3>1, <3>2, DirectionFacts
    <3>4. f = Direction(Key[n], m)
      BY <3>1, <3>2, <3>3, OppositeFacts
    <3> QED
      BY <3>3, <3>4
  <2> QED
    BY <1>2, <1>4, <2>3, <2>5, <2>6 DEF CanLink
<1> QED
  BY <1>3, <1>4

-----------------------------------------------------------------------------
(* The inductive invariant. *)

\* S and H show that the tree is what it has to be at this point of the code.
Sound(S, H) ==
  /\ pc = "idle" => Idle(tree, S, H)
  /\ pc = "insert" => Inserting(tree, S, H, at)
  /\ pc = "erase" => /\ Erasing(tree, S, H, at, par)
                     /\ at \in Sub(S, tree.root) \cup {Null}
                            /\ par \in Sub(S, tree.root) \cup {Null}

Typed ==
  /\ pc \in {"idle", "insert", "erase"} /\ e \in BOOLEAN
  /\ at \in Nodes \cup {Null} /\ par \in Nodes \cup {Null}

TreeInv == Typed /\ \E S, H : Sound(S, H)

\* Members is what the witness says it is.
LEMMA SoundMembers ==
  ASSUME Typed, NEW S, NEW H, Sound(S, H)
  PROVE  Shaped(tree, S) /\ Members(tree) = Sub(S, tree.root) /\ Members(tree) \subseteq Nodes
<1>1. Shaped(tree, S)
  BY DEF Typed, Sound, Idle, Inserting, Erasing
<1>2. tree.root \in Sub(S, tree.root) \cup {Null} /\ Sub(S, tree.root) \subseteq Nodes
  BY <1>1, SubType
<1>3. Subtree(tree, tree.root) = Sub(S, tree.root)
  BY <1>1, <1>2, SubtreeIs
<1> QED
  BY <1>1, <1>2, <1>3 DEF Members

\* The step leads to a sound tree with the entries X.
Reaches(X) == Typed' /\ \E S, H : Sound(S, H)' /\ Sub(S, tree.root)' = X

\* Such a step keeps the invariant.
LEMMA Reached ==
  ASSUME NEW X, Reaches(X)
  PROVE  TreeInv' /\ Members(tree)' = X
<1>1. Typed'
  BY DEF Reaches
<1>2. PICK S, H : Sound(S, H)' /\ Sub(S, tree.root)' = X
  BY DEF Reaches
<1>3. (Shaped(tree, S) /\ Members(tree) = Sub(S, tree.root))'
  BY <1>1, <1>2, SoundMembers, PTL
<1> QED
  BY <1>1, <1>2, <1>3 DEF TreeInv

\* table_init makes an empty tree.
LEMMA InitIsSound ==
  ASSUME Init
  PROVE  TreeInv /\ Members(tree) = {}
<1> DEFINE S == [n \in Nodes |-> {n}]
           H == [n \in Nodes |-> 0]
<1>1. tree.root = Null /\ tree \in Trees
  BY NodeAssumption DEF Init, EmptyTree, Trees, Colors
<1>2. Sub(S, tree.root) = {}
  BY <1>1 DEF Sub
<1>3. S \in [Nodes -> SUBSET Nodes] /\ H \in [Nodes -> Nat] /\ \A n \in Nodes : n \in S[n]
  OBVIOUS
<1> HIDE DEF S, H
<1>4. Shaped(tree, S)
  BY <1>1, <1>2, <1>3 DEF Shaped
<1>5. Idle(tree, S, H)
  BY <1>1, <1>2, <1>3, <1>4 DEF Idle, Levelled, Calm, IsRed
<1>6. Typed /\ Sound(S, H)
  BY <1>5 DEF Typed, Sound, Init
<1>7. Members(tree) = {}
  BY <1>2, <1>6, SoundMembers
<1> QED
  BY <1>6, <1>7 DEF TreeInv

\* table_add refuses a key that is there and adds the entry otherwise.
LEMMA AddReaches ==
  ASSUME TreeInv, NEW te \in Nodes, table_add(te)
  PROVE  /\ te \notin Members(tree)
         /\ IF \E n \in Members(tree) : Key[n] = Key[te]
            THEN e' = FALSE /\ Reaches(Members(tree))
            ELSE e' = TRUE /\ Reaches(Members(tree) \cup {te})
<1>1. PICK S, H : Typed /\ Sound(S, H)
  BY DEF TreeInv
<1>2. Shaped(tree, S) /\ Members(tree) = Sub(S, tree.root)
  BY <1>1, SoundMembers
<1>3. pc = "idle" /\ te \notin Members(tree) /\ Idle(tree, S, H) /\ par' = par
  BY <1>1 DEF table_add, Sound
<1>4. Found(Key[te]) <=> \E n \in Members(tree) : Key[n] = Key[te]
  BY <1>2, FoundIs, NodeAssumption
<1>5. CASE Found(Key[te])
  <2>1. e' = FALSE /\ tree' = tree /\ pc' = pc /\ at' = at
    BY <1>5 DEF table_add
  <2>2. Typed' /\ Sound(S, H)' /\ Sub(S, tree.root)' = Members(tree)
    BY <1>1, <1>2, <1>3, <2>1 DEF Typed, Sound
  <2> QED
    BY <1>3, <1>4, <1>5, <2>1, <2>2 DEF Reaches
<1>6. CASE ~Found(Key[te])
  <2>1. PICK p, d : p = Position(Key[te]) /\ d = IF p = Null THEN "left" ELSE Direction(Key[te], p)
    OBVIOUS
  <2>2. /\ tree' = LinkNode(tree, te, p, d) /\ pc' = "insert" /\ at' = te /\ e' = TRUE
    BY <1>6, <2>1 DEF table_add
  <2>3. CanLink(tree, S, te, p, d)
    BY <1>2, <1>3, <1>6, <2>1, PositionLinks
  <2>4. PICK S2, H2 : Inserting(tree', S2, H2, te) /\ Sub(S2, tree'.root) = Members(tree) \cup {te}
    BY <1>2, <1>3, <2>2, <2>3, LinkInserts
  <2>5. Typed' /\ Sound(S2, H2)' /\ Sub(S2, tree.root)' = Members(tree) \cup {te}
    BY <1>1, <1>3, <2>2, <2>4 DEF Typed, Sound
  <2> QED
    BY <1>3, <1>4, <1>6, <2>2, <2>5 DEF Reaches
<1> QED
  BY <1>5, <1>6

\* A turn of ks_rb_insert_color changes no entry.
LEMMA InsertReaches ==
  ASSUME TreeInv, ks_rb_insert_color
  PROVE  Reaches(Members(tree)) /\ e' = e
<1>1. PICK S, H : Typed /\ Sound(S, H)
  BY DEF TreeInv
<1>2. Shaped(tree, S) /\ Members(tree) = Sub(S, tree.root) /\ Members(tree) \subseteq Nodes
  BY <1>1, SoundMembers
<1>3. pc = "insert" /\ Inserting(tree, S, H, at) /\ par' = par /\ e' = e
  BY <1>1 DEF ks_rb_insert_color, Sound
<1>4. ASSUME NEW n, at' = n, pc' = pc, NEW S2, NEW H2, Inserting(tree', S2, H2, n),
             Sub(S2, tree'.root) = Members(tree)
      PROVE  Reaches(Members(tree))
  <2>1. n \in Nodes
    BY <1>2, <1>4 DEF Inserting
  <2>2. Typed' /\ Sound(S2, H2)' /\ Sub(S2, tree.root)' = Members(tree)
    BY <1>1, <1>3, <1>4, <2>1 DEF Typed, Sound
  <2> QED
    BY <2>2 DEF Reaches
<1>5. CASE InsertLoops(tree, at) /\ IsRed(tree, Uncle(tree, at))
  <2>1. /\ tree' = InsertRecolor(tree, at) /\ at' = tree.parent[tree.parent[at]] /\ pc' = pc
    BY <1>5 DEF ks_rb_insert_color
  <2>2. PICK H2 : /\ Inserting(InsertRecolor(tree, at), S, H2, tree.parent[tree.parent[at]])
                  /\ InsertRecolor(tree, at).root = tree.root
    BY <1>3, <1>5, InsertRecolors
  <2> QED
    BY <1>2, <1>3, <1>4, <2>1, <2>2
<1>6. CASE InsertLoops(tree, at) /\ ~IsRed(tree, Uncle(tree, at))
  <2>1. PICK r : r = InsertRotate(tree, at)
    OBVIOUS
  <2>2. tree' = r.tree /\ at' = r.at /\ pc' = pc
    BY <1>6, <2>1 DEF ks_rb_insert_color
  <2>3. PICK S2, H2 : Inserting(r.tree, S2, H2, r.at) /\ Sub(S2, r.tree.root) = Sub(S, tree.root)
    BY <1>3, <1>6, <2>1, InsertRotates
  <2> QED
    BY <1>2, <1>3, <1>4, <2>2, <2>3
<1>7. CASE ~InsertLoops(tree, at)
  <2>1. tree' = Paint(tree, tree.root, "black") /\ pc' = "idle" /\ at' = Null
    BY <1>7 DEF ks_rb_insert_color
  <2>2. PICK H2 : Idle(tree', S, H2) /\ tree'.root = tree.root
    BY <1>3, <1>7, <2>1, InsertEnds
  <2>3. Typed' /\ Sound(S, H2)' /\ Sub(S, tree.root)' = Members(tree)
    BY <1>1, <1>2, <1>3, <2>1, <2>2 DEF Typed, Sound
  <2> QED
    BY <1>3, <2>3 DEF Reaches
<1> QED
  BY <1>3, <1>5, <1>6, <1>7

\* table_del takes out exactly the entry it was given.
LEMMA DelReaches ==
  ASSUME TreeInv, NEW te \in Nodes, table_del(te)
  PROVE  te \in Members(tree) /\ Reaches(Members(tree) \ {te}) /\ e' = e
<1>1. PICK S, H : Typed /\ Sound(S, H)
  BY DEF TreeInv
<1>2. Shaped(tree, S) /\ Members(tree) = Sub(S, tree.root) /\ Members(tree) \subseteq Nodes
  BY <1>1, SoundMembers
<1>3. pc = "idle" /\ te \in Members(tree) /\ Idle(tree, S, H) /\ e' = e
  BY <1>1 DEF table_del, Sound
<1>4. PICK w : w = Unlink(tree, te)
  OBVIOUS
<1>5. /\ \E S2, H2 : /\ LeftBehind(w.tree, S2, H2, w.color, w.at, w.par)
                     /\ Sub(S2, w.tree.root) = Members(tree) \ {te}
      /\ w.at \in (Members(tree) \ {te}) \cup {Null} /\ w.par \in (Members(tree) \ {te}) \cup {Null}
  BY <1>2, <1>3, <1>4, UnlinkLeaves
<1>6. PICK S2, H2 : /\ LeftBehind(w.tree, S2, H2, w.color, w.at, w.par)
                    /\ Sub(S2, w.tree.root) = Members(tree) \ {te}
  BY <1>5
<1>7. tree' = w.tree
  BY <1>4 DEF table_del
<1>8. CASE w.color = "black"
  <2>1. pc' = "erase" /\ at' = w.at /\ par' = w.par
    BY <1>4, <1>8 DEF table_del, NeedsErase
  <2>2. Typed' /\ Sound(S2, H2)' /\ Sub(S2, tree.root)' = Members(tree) \ {te}
    BY <1>1, <1>2, <1>3, <1>5, <1>6, <1>7, <1>8, <2>1 DEF Typed, Sound, LeftBehind
  <2> QED
    BY <1>3, <2>2 DEF Reaches
<1>9. CASE w.color # "black"
  <2>1. pc' = pc /\ at' = at /\ par' = par
    BY <1>4, <1>9 DEF table_del, NeedsErase
  <2>2. Typed' /\ Sound(S2, H2)' /\ Sub(S2, tree.root)' = Members(tree) \ {te}
    BY <1>1, <1>3, <1>6, <1>7, <1>9, <2>1 DEF Typed, Sound, LeftBehind
  <2> QED
    BY <1>3, <2>2 DEF Reaches
<1> QED
  BY <1>8, <1>9

\* A turn of __rb_erase_color changes no entry.
LEMMA EraseReaches ==
  ASSUME TreeInv, rb_erase_color
  PROVE  Reaches(Members(tree)) /\ e' = e
<1>1. PICK S, H : Typed /\ Sound(S, H)
  BY DEF TreeInv
<1>2. Shaped(tree, S) /\ Members(tree) = Sub(S, tree.root) /\ Members(tree) \subseteq Nodes
  BY <1>1, SoundMembers
<1>3. /\ pc = "erase" /\ Erasing(tree, S, H, at, par) /\ e' = e
  BY <1>1 DEF rb_erase_color, Sound
<1>4. CASE ~EraseLoops(tree, at)
  <2>1. tree' = EraseEnd(tree, at) /\ pc' = "idle" /\ at' = Null /\ par' = Null
    BY <1>4 DEF rb_erase_color
  <2>2. PICK H2 : Idle(tree', S, H2) /\ tree'.root = tree.root
    BY <1>3, <1>4, <2>1, EraseEnds
  <2>3. Typed' /\ Sound(S, H2)' /\ Sub(S, tree.root)' = Members(tree)
    BY <1>1, <1>2, <1>3, <2>1, <2>2 DEF Typed, Sound
  <2> QED
    BY <1>3, <2>3 DEF Reaches
<1>5. CASE EraseLoops(tree, at)
  <2>1. PICK w, d : w = EraseSibling(tree, at, par) /\ d = SideOf(tree, par, at)
    OBVIOUS
  <2>2. Lacking(tree, S, H, at, par, d) /\ ~IsRed(tree, at) /\ pc' = pc
    BY <1>3, <1>5, <2>1 DEF Erasing, EraseLoops, rb_erase_color
  <2>3. par \in Members(tree) /\ par \in Nodes
    BY <1>2, <2>2 DEF Lacking
  <2>4. PICK S2, H2 :
          IF BothNephewsBlack(w, at, par)
          THEN LET u == EraseRecolor(w, at, par)
               IN  Erasing(u, S2, H2, par, w.parent[par]) /\ Sub(S2, u.root) = Sub(S, tree.root)
          ELSE LET u == EraseRotate(w, at, par)
               IN  Erasing(u, S2, H2, u.root, par) /\ Sub(S2, u.root) = Sub(S, tree.root)
    BY <2>1, <2>2, EraseTurns
  <2>5. CASE BothNephewsBlack(w, at, par)
    <3>1. tree' = EraseRecolor(w, at, par) /\ at' = par /\ par' = w.parent[par]
      BY <1>5, <2>1, <2>5 DEF rb_erase_color
    <3>2. Erasing(tree', S2, H2, par, par') /\ Sub(S2, tree'.root) = Members(tree)
      BY <1>2, <2>4, <2>5, <3>1
    <3>3. w \in Trees
      <4>1. PICK S3, H3 : Lacking(w, S3, H3, at, par, d)
        BY <2>1, <2>2, EraseSiblings
      <4> QED
        BY <4>1 DEF Lacking, Shaped
    <3>4. tree'.parent = w.parent
      BY <3>1, <3>3 DEF EraseRecolor, Paint, Trees
    <3>5. Shaped(tree', S2)
      BY <3>2 DEF Erasing
    <3>6. par' \in Members(tree) \cup {Null}
      BY <2>3, <3>1, <3>2, <3>4, <3>5, ParentFacts
    <3>7. Typed' /\ Sound(S2, H2)' /\ Sub(S2, tree.root)' = Members(tree)
      BY <1>1, <1>2, <1>3, <2>2, <2>3, <3>1, <3>2, <3>6 DEF Typed, Sound
    <3> QED
      BY <1>3, <3>7 DEF Reaches
  <2>6. CASE ~BothNephewsBlack(w, at, par)
    <3>1. tree' = EraseRotate(w, at, par) /\ at' = tree'.root /\ par' = par
      BY <1>5, <2>1, <2>6 DEF rb_erase_color
    <3>2. Erasing(tree', S2, H2, at', par') /\ Sub(S2, tree'.root) = Members(tree)
      BY <1>2, <2>4, <2>6, <3>1
    <3>3. Shaped(tree', S2)
      BY <3>2 DEF Erasing
    <3>4. at' \in Members(tree) \cup {Null}
      BY <3>1, <3>2, <3>3, SubType
    <3>5. Typed' /\ Sound(S2, H2)' /\ Sub(S2, tree.root)' = Members(tree)
      BY <1>1, <1>2, <1>3, <2>2, <2>3, <3>1, <3>2, <3>4 DEF Typed, Sound
    <3> QED
      BY <1>3, <3>5 DEF Reaches
  <2> QED
    BY <2>5, <2>6
<1> QED
  BY <1>4, <1>5

\* ks_rb_replace_node exchanges two entries with the same key.
LEMMA ReplaceReaches ==
  ASSUME TreeInv, NEW te \in Nodes, NEW n \in Nodes, ks_rb_replace_node(te, n)
  PROVE  /\ te \in Members(tree) /\ n \notin Members(tree) /\ Key[n] = Key[te] /\ e' = e
         /\ Reaches((Members(tree) \ {te}) \cup {n})
<1>1. PICK S, H : Typed /\ Sound(S, H)
  BY DEF TreeInv
<1>2. Shaped(tree, S) /\ Members(tree) = Sub(S, tree.root)
  BY <1>1, SoundMembers
<1>3. /\ pc = "idle" /\ te \in Members(tree) /\ n \notin Members(tree) /\ Key[n] = Key[te]
      /\ tree' = Replace(tree, te, n) /\ pc' = pc /\ at' = at /\ par' = par /\ e' = e
      /\ Idle(tree, S, H)
  BY <1>1 DEF ks_rb_replace_node, Sound
<1>4. PICK S2, H2 : Idle(tree', S2, H2) /\ Sub(S2, tree'.root) = (Members(tree) \ {te}) \cup {n}
  BY <1>2, <1>3, ReplaceKeeps
<1>5. Typed' /\ Sound(S2, H2)' /\ Sub(S2, tree.root)' = (Members(tree) \ {te}) \cup {n}
  BY <1>1, <1>3, <1>4 DEF Typed, Sound
<1> QED
  BY <1>3, <1>5 DEF Reaches

-----------------------------------------------------------------------------
(* The invariant, and what it says of the order and of table_get. *)

\* A step that leaves the variables alone keeps the invariant.
LEMMA SoundStays ==
  ASSUME TreeInv, UNCHANGED vars
  PROVE  TreeInv' /\ Members(tree)' = Members(tree)
<1>1. PICK S, H : Typed /\ Sound(S, H)
  BY DEF TreeInv
<1>2. tree' = tree /\ pc' = pc /\ at' = at /\ par' = par /\ e' = e
  BY DEF vars
<1>3. Members(tree) = Sub(S, tree.root)
  BY <1>1, SoundMembers
<1>4. Typed' /\ Sound(S, H)' /\ Sub(S, tree.root)' = Members(tree)
  BY <1>1, <1>2, <1>3 DEF Typed, Sound
<1>5. Reaches(Members(tree))
  BY <1>4 DEF Reaches
<1> QED
  BY <1>5, Reached

\* Every step of the table keeps it.
LEMMA TreeStep ==
  ASSUME TreeInv, [Next]_vars
  PROVE  TreeInv'
<1>1. CASE ks_rb_insert_color
  BY <1>1, InsertReaches, Reached
<1>2. CASE rb_erase_color
  BY <1>2, EraseReaches, Reached
<1>3. ASSUME NEW te \in Nodes, table_add(te) PROVE TreeInv'
  BY <1>3, AddReaches, Reached
<1>4. ASSUME NEW te \in Nodes, table_del(te) PROVE TreeInv'
  BY <1>4, DelReaches, Reached
<1>5. ASSUME NEW te \in Nodes, NEW n \in Nodes, ks_rb_replace_node(te, n) PROVE TreeInv'
  BY <1>5, ReplaceReaches, Reached
<1>6. CASE UNCHANGED vars
  BY <1>6, SoundStays
<1> QED
  BY <1>1, <1>2, <1>3, <1>4, <1>5, <1>6 DEF Next, Balance

\* TreeInv is an invariant: in every state, between two operations and between two
\* turns of a loop, the tree is shaped, levelled and calm as far as the code at that point needs.
THEOREM AlwaysSound == Spec => []TreeInv
<1>1. Init => TreeInv
  BY InitIsSound
<1>2. TreeInv /\ [Next]_vars => TreeInv'
  BY TreeStep
<1> QED
  BY <1>1, <1>2, PTL DEF Spec

\* The local conditions on the witness say the same of whole subtrees.
LEMMA SearchTreeHolds ==
  ASSUME TreeInv
  PROVE  SearchTree
<1>1. PICK S, H : Typed /\ Sound(S, H)
  BY DEF TreeInv
<1>2. Shaped(tree, S) /\ Members(tree) = Sub(S, tree.root) /\ Members(tree) \subseteq Nodes
  BY <1>1, SoundMembers
<1>3. TypeOK
  <2>1. tree \in Trees
    BY <1>2 DEF Shaped
  <2>2. pc = "insert" => at \in Members(tree)
    BY <1>1, <1>2 DEF Sound, Inserting
  <2>3. pc = "erase" => {at, par} \subseteq Members(tree) \cup {Null}
    BY <1>1, <1>2 DEF Sound
  <2> QED
    BY <1>1, <2>1, <2>2, <2>3 DEF Typed, TypeOK
<1>4. ASSUME NEW n \in Members(tree), NEW d \in Sides, NEW m \in Subtree(tree, tree.link[d][n])
      PROVE  Beyond(d, Key[m], Key[n])
  <2>1. tree.link[d][n] = Null \/ tree.link[d][n] \in Sub(S, tree.root)
    BY <1>2, ChildFacts
  <2>2. Subtree(tree, tree.link[d][n]) = Sub(S, tree.link[d][n])
    BY <1>2, <2>1, SubtreeIs
  <2>3. tree.link[d][n] # Null /\ m \in S[tree.link[d][n]]
    BY <1>4, <2>2 DEF Sub
  <2> QED
    BY <1>2, <2>3, ChildFacts
<1>5. SearchOrder
  <2>1. ASSUME NEW n \in Members(tree), NEW m \in Subtree(tree, tree.link["left"][n])
        PROVE  Key[m] > Key[n]
    BY <1>4, <2>1 DEF Beyond, Sides
  <2>2. ASSUME NEW n \in Members(tree), NEW m \in Subtree(tree, tree.link["right"][n])
        PROVE  Key[m] < Key[n]
    <3>1. Beyond("right", Key[m], Key[n])
      BY <1>4, <2>2 DEF Sides
    <3> QED
      BY <3>1 DEF Beyond
  <2> QED
    BY <2>1, <2>2 DEF SearchOrder
<1>6. LinksAgree
  <2>1. ASSUME NEW n \in Members(tree), NEW d \in Sides, tree.link[d][n] # Null
        PROVE  tree.parent[tree.link[d][n]] = n
    BY <1>2, <2>1, ChildFacts
  <2>2. tree.root # Null => tree.parent[tree.root] = Null
    BY <1>2 DEF Shaped
  <2> QED
    BY <2>1, <2>2 DEF LinksAgree
<1> QED
  BY <1>3, <1>5, <1>6 DEF SearchTree

\* The tree of table.c is a binary search tree linked both ways in every state, for any
\* number of entries and any keys: no rotation and no unlinking loses or misplaces one.
THEOREM AlwaysSearchTree == Spec => []SearchTree
<1>1. TreeInv => SearchTree
  BY SearchTreeHolds
<1> QED
  BY <1>1, AlwaysSound, PTL

\* table_get finds an entry exactly if it is there.
LEMMA GetFindsHolds ==
  ASSUME TreeInv
  PROVE  GetFinds
<1>1. PICK S, H : Typed /\ Sound(S, H)
  BY DEF TreeInv
<1>2. Shaped(tree, S) /\ Members(tree) = Sub(S, tree.root) /\ Members(tree) \subseteq Nodes
  BY <1>1, SoundMembers
<1> SUFFICES ASSUME NEW n \in Nodes
             PROVE  table_get(Key[n]) =
                      IF \E m \in Members(tree) : Key[m] = Key[n]
                      THEN CHOOSE m \in Members(tree) : Key[m] = Key[n] ELSE Null
  BY DEF GetFinds
<1>3. Key[n] \in Int
  BY NodeAssumption
<1>4. /\ Found(Key[n]) <=> \E m \in Members(tree) : Key[m] = Key[n]
      /\ Found(Key[n]) => Position(Key[n]) \in Members(tree)
  BY <1>2, <1>3, FoundIs
<1>5. CASE ~Found(Key[n])
  BY <1>4, <1>5 DEF table_get
<1>6. CASE Found(Key[n])
  <2>1. PICK p : p = Position(Key[n])
    OBVIOUS
  <2>2. p \in Members(tree) /\ Key[p] = Key[n] /\ table_get(Key[n]) = p
    BY <1>4, <1>6, <2>1 DEF Found, table_get
  <2>3. \A m \in Members(tree) : Key[m] = Key[n] => m = p
    BY <1>2, <2>2, KeysDiffer
  <2>4. p = CHOOSE m \in Members(tree) : Key[m] = Key[n]
    BY <2>2, <2>3
  <2> QED
    BY <2>2, <2>4
<1> QED
  BY <1>5, <1>6

-----------------------------------------------------------------------------
(* The rules of colours. *)

\* Where the tree of the invariant lacks a black
Lack == IF pc = "erase" THEN at ELSE Null
Above == IF pc = "erase" /\ at # tree.root THEN par ELSE Null
Across == IF pc = "erase" /\ at # tree.root THEN SideOf(tree, par, at) ELSE "left"

\* The invariant, with the place of the lacking black in one form for every loop.
LEMMA SoundLevels ==
  ASSUME NEW S, NEW H, Typed, Sound(S, H)
  PROVE  /\ Shaped(tree, S) /\ H \in [Nodes -> Nat]
         /\ Lacks(tree, Sub(S, tree.root), Lack, Above, Across)
         /\ Levelled(tree, Sub(S, tree.root), H, Above, Across)
<1>1. "left" \in Sides
  BY DEF Sides
<1>2. CASE pc # "erase"
  <2>1. /\ Shaped(tree, S) /\ H \in [Nodes -> Nat]
        /\ Levelled(tree, Sub(S, tree.root), H, Null, "left")
    BY <1>2 DEF Typed, Sound, Idle, Inserting
  <2> QED
    BY <1>1, <1>2, <2>1 DEF Lacks, Lack, Above, Across
<1>3. CASE pc = "erase" /\ at = tree.root
  <2>1. /\ Shaped(tree, S) /\ H \in [Nodes -> Nat]
        /\ Levelled(tree, Sub(S, tree.root), H, Null, "left")
    BY <1>3 DEF Sound, Erasing
  <2> QED
    BY <1>1, <1>3, <2>1 DEF Lacks, Lack, Above, Across
<1>4. CASE pc = "erase" /\ at # tree.root
  <2>1. Lacking(tree, S, H, at, par, Across)
    BY <1>4 DEF Sound, Erasing, Across
  <2> QED
    BY <1>4, <2>1 DEF Lacking, Lacks, Lack, Above
<1> QED
  BY <1>2, <1>3, <1>4

\* Two reds in a row only where the running loop is at work.
LEMMA RedRedHolds ==
  ASSUME TreeInv
  PROVE  RedRedOnlyInLoop
<1>1. PICK S, H : Typed /\ Sound(S, H)
  BY DEF TreeInv
<1>2. Shaped(tree, S) /\ Members(tree) = Sub(S, tree.root) /\ Members(tree) \subseteq Nodes
  BY <1>1, SoundMembers
<1>3. pc = "idle" => ~IsRed(tree, tree.root)
  BY <1>1 DEF Sound, Idle
<1>4. ASSUME NEW n \in Members(tree), IsRed(tree, n), IsRed(tree, tree.parent[n])
      PROVE  \/ pc = "insert" /\ at = n
             \/ pc = "erase" /\ at \in {n, tree.parent[n]}
  <2>1. PICK p : p = tree.parent[n]
    OBVIOUS
  <2>2. p # Null /\ n # Null
    BY <1>4, <2>1 DEF IsRed
  <2>3. p \in Members(tree) /\ \E d \in Sides : tree.link[d][p] = n
    <3>1. n # tree.root
      BY <1>2, <2>1, <2>2, ParentFacts
    <3> QED
      BY <1>2, <2>1, <3>1, ParentFacts
  <2>4. PICK d \in Sides : tree.link[d][p] = n
    BY <2>3
  <2>5. ASSUME NEW x, NEW y, Calm(tree, Members(tree), x, y) PROVE n = x \/ p = y
    <3>1. CalmAt(tree, x, y, p)
      BY <2>3, <2>5 DEF Calm
    <3> QED
      BY <1>4, <2>1, <2>4, <3>1 DEF CalmAt
  <2>6. CASE pc = "idle"
    <3>1. Calm(tree, Members(tree), Null, Null)
      BY <1>1, <1>2, <2>6 DEF Sound, Idle
    <3> QED
      BY <2>2, <2>5, <3>1
  <2>7. CASE pc = "insert"
    <3>1. Calm(tree, Members(tree), at, Null)
      BY <1>1, <1>2, <2>7 DEF Sound, Inserting
    <3> QED
      BY <2>2, <2>5, <2>7, <3>1
  <2>8. CASE pc = "erase"
    <3>1. Calm(tree, Members(tree), at, at)
      BY <1>1, <1>2, <2>8 DEF Sound, Erasing
    <3> QED
      BY <2>1, <2>5, <2>8, <3>1
  <2> QED
    BY <1>1, <2>6, <2>7, <2>8 DEF Typed
<1> QED
  BY <1>3, <1>4 DEF RedRedOnlyInLoop

\* BlackDepth counts the blacks met, and what is lacking there.
LEMMA DepthIs ==
  ASSUME NEW S, NEW H, Typed, Sound(S, H), NEW n \in Sub(S, tree.root), NEW d \in Sides,
         tree.link[d][n] = Null
  PROVE  BlackDepth(n, d) =
           Cardinality(BlacksTo(tree, S, n)) + Short(Above, Across, n, d) + Below(S, Lack, n)
<1>1. Shaped(tree, S) /\ Members(tree) = Sub(S, tree.root) /\ Members(tree) \subseteq Nodes
  BY SoundMembers
<1>2. BlackAbove(n) = BlacksTo(tree, S, n)
  <2>1. ASSUME NEW m \in Members(tree) PROVE n \in Subtree(tree, m) <=> n \in S[m]
    <3>1. Subtree(tree, m) = Sub(S, m)
      BY <1>1, SubtreeIs
    <3> QED
      BY <1>1, <3>1, SubType
  <2> QED
    BY <1>1, <2>1 DEF BlackAbove, BlacksTo
<1>3. Cardinality(BlacksTo(tree, S, n)) \in Nat
  BY <1>1, BlacksToFinite
<1> DEFINE more == \/ at = Null /\ par = n /\ SideOf(tree, n, Null) = d
                   \/ at # Null /\ n \in Subtree(tree, at)
<1>4. BlackDepth(n, d) = Cardinality(BlacksTo(tree, S, n)) + (IF pc = "erase" /\ more THEN 1 ELSE 0)
  BY <1>2 DEF BlackDepth
<1>5. n # Null /\ tree.root # Null
  BY <1>1, NodeAssumption DEF Sub
<1>6. (IF pc = "erase" /\ more THEN 1 ELSE 0) = Short(Above, Across, n, d) + Below(S, Lack, n)
  <2>1. CASE pc # "erase"
    BY <1>5, <2>1 DEF Lack, Above, Across, Short, Below, Sub
  <2>2. CASE pc = "erase" /\ at = tree.root
    <3>1. Subtree(tree, at) = Sub(S, at)
      BY <1>1, <2>2, SubType, SubtreeIs
    <3>2. more
      BY <1>5, <2>2, <3>1
    <3>3. Short(Above, Across, n, d) = 0 /\ Below(S, Lack, n) = 1
      BY <1>5, <2>2 DEF Lack, Above, Short, Below
    <3> QED
      BY <2>2, <3>2, <3>3
  <2>3. CASE pc = "erase" /\ at # tree.root
    <3>1. Above = par /\ Across = SideOf(tree, par, at) /\ Lack = at
      BY <2>3 DEF Above, Across, Lack
    <3>2. Lacking(tree, S, H, at, par, SideOf(tree, par, at))
      BY <2>3 DEF Sound, Erasing
    <3>3. at = tree.link[Across][par] /\ par \in Members(tree) /\ Across \in Sides
      BY <1>1, <3>1, <3>2 DEF Lacking
    <3>4. CASE at = Null
      <4>1. Below(S, Lack, n) = 0
        BY <3>1, <3>4 DEF Below, Sub
      <4>2. more <=> par = n /\ Across = d
        BY <3>1, <3>4
      <4>3. Short(Above, Across, n, d) = IF par = n /\ Across = d THEN 1 ELSE 0
        BY <3>1 DEF Short
      <4> HIDE DEF more
      <4> QED
        BY <2>3, <4>1, <4>2, <4>3
    <3>5. CASE at # Null
      <4>1. Short(Above, Across, n, d) = 0
        BY <3>1, <3>3, <3>5 DEF Short
      <4>2. Subtree(tree, at) = Sub(S, at)
        <5>1. at \in Sub(S, tree.root)
          BY <2>3, <3>5 DEF Sound
        <5> QED
          BY <1>1, <5>1, SubtreeIs
      <4>3. more <=> n \in Sub(S, at)
        BY <3>5, <4>2
      <4>4. Below(S, Lack, n) = IF n \in Sub(S, at) THEN 1 ELSE 0
        BY <3>1 DEF Below
      <4> HIDE DEF more
      <4> QED
        BY <2>3, <4>1, <4>3, <4>4
    <3> QED
      BY <3>4, <3>5
  <2> QED
    BY <2>1, <2>2, <2>3
<1>7. Short(Above, Across, n, d) \in Nat /\ Below(S, Lack, n) \in Nat
  BY DEF Short, Below
<1> QED
  BY <1>3, <1>4, <1>6, <1>7

\* All ways to an empty link meet as many blacks.
LEMMA BlackBalancedHolds ==
  ASSUME TreeInv
  PROVE  BlackBalanced
<1>1. PICK S, H : Typed /\ Sound(S, H)
  BY DEF TreeInv
<1>2. Shaped(tree, S) /\ Members(tree) = Sub(S, tree.root) /\ Members(tree) \subseteq Nodes
  BY <1>1, SoundMembers
<1> DEFINE Leaves == {p \in Members(tree) \X Sides : tree.link[p[2]][p[1]] = Null}
           Depths == {BlackDepth(p[1], p[2]) : p \in Leaves}
           K == H[tree.root] + Below(S, Lack, tree.root)
<1>3. /\ H \in [Nodes -> Nat]
      /\ Lacks(tree, Sub(S, tree.root), Lack, Above, Across)
      /\ Levelled(tree, Sub(S, tree.root), H, Above, Across)
  BY <1>1, SoundLevels
<1>4. ASSUME NEW p \in Leaves PROVE BlackDepth(p[1], p[2]) = K
  <2>1. PICK n \in Members(tree), d \in Sides : p[1] = n /\ p[2] = d /\ tree.link[d][n] = Null
    OBVIOUS
  <2>2. BlackDepth(n, d) =
          Cardinality(BlacksTo(tree, S, n)) + Short(Above, Across, n, d) + Below(S, Lack, n)
    BY <1>1, <1>2, <2>1, DepthIs
  <2>3. Cardinality(BlacksTo(tree, S, n)) + Short(Above, Across, n, d) + Below(S, Lack, n) = K
    BY <1>2, <1>3, <2>1, WayEnds
  <2> QED
    BY <2>1, <2>2, <2>3
<1>5. Depths \in SUBSET {K}
  BY <1>4
<1>6. Cardinality(Depths) <= 1
  <2> HIDE DEF Depths, K
  <2>1. IsFiniteSet({K}) /\ Cardinality({K}) = 1
    BY FS_Singleton
  <2> QED
    BY <1>5, <2>1, FS_Subset
<1> QED
  BY <1>6 DEF BlackBalanced

\* The two rules of colours, up to the place ks_rb_insert_color and __rb_erase_color are at
\* work: once they are done no way down is more than twice as long as another.
THEOREM AlwaysRedBlack == Spec => []RedBlack
<1>1. TreeInv => RedBlack
  BY RedRedHolds, BlackBalancedHolds DEF RedBlack
<1> QED
  BY <1>1, AlwaysSound, PTL

-----------------------------------------------------------------------------
(* The table is the map that TableMap describes. *)

\* The empty table is the empty map.
LEMMA InitMaps ==
  ASSUME Init
  PROVE  Map!MapInit
<1>1. Members(tree) = {} /\ e = TRUE
  BY InitIsSound DEF Init
<1> QED
  BY <1>1 DEF Map!MapInit

\* Every step of the table is one of the map, or changes nothing of it.
LEMMA StepMaps ==
  ASSUME TreeInv, [Next]_vars
  PROVE  [Map!MapNext]_<<Members(tree), e>>
<1>1. CASE ks_rb_insert_color
  <2>1. Members(tree)' = Members(tree) /\ e' = e
    BY <1>1, InsertReaches, Reached
  <2> QED
    BY <2>1
<1>2. CASE rb_erase_color
  <2>1. Members(tree)' = Members(tree) /\ e' = e
    BY <1>2, EraseReaches, Reached
  <2> QED
    BY <2>1
<1>3. ASSUME NEW te \in Nodes, table_add(te) PROVE Map!MapNext
  <2>1. te \notin Members(tree)
    BY <1>3, AddReaches
  <2>2. CASE \E n \in Members(tree) : Key[n] = Key[te]
    <3>1. e' = FALSE /\ Members(tree)' = Members(tree)
      BY <1>3, <2>2, AddReaches, Reached
    <3>2. Map!Add(te)
      BY <2>1, <2>2, <3>1 DEF Map!Add, Map!HasKey
    <3> QED
      BY <3>2 DEF Map!MapNext
  <2>3. CASE ~\E n \in Members(tree) : Key[n] = Key[te]
    <3>1. e' = TRUE /\ Members(tree)' = Members(tree) \cup {te}
      BY <1>3, <2>3, AddReaches, Reached
    <3>2. Map!Add(te)
      BY <2>1, <2>3, <3>1 DEF Map!Add, Map!HasKey
    <3> QED
      BY <3>2 DEF Map!MapNext
  <2> QED
    BY <2>2, <2>3
<1>4. ASSUME NEW te \in Nodes, table_del(te) PROVE Map!MapNext
  <2>1. te \in Members(tree) /\ Members(tree)' = Members(tree) \ {te} /\ e' = e
    BY <1>4, DelReaches, Reached
  <2>2. Map!Del(te)
    BY <2>1 DEF Map!Del
  <2> QED
    BY <2>2 DEF Map!MapNext
<1>5. ASSUME NEW te \in Nodes, NEW n \in Nodes, ks_rb_replace_node(te, n) PROVE Map!MapNext
  <2>1. /\ te \in Members(tree) /\ n \notin Members(tree) /\ Key[n] = Key[te] /\ e' = e
        /\ Members(tree)' = (Members(tree) \ {te}) \cup {n}
    BY <1>5, ReplaceReaches, Reached
  <2>2. Map!Swap(te, n)
    BY <2>1 DEF Map!Swap
  <2> QED
    BY <2>2 DEF Map!MapNext
<1>6. CASE UNCHANGED vars
  <2>1. Members(tree)' = Members(tree) /\ e' = e
    BY <1>6, SoundStays DEF vars
  <2> QED
    BY <2>1
<1> QED
  BY <1>1, <1>2, <1>3, <1>4, <1>5, <1>6 DEF Next, Balance

\* The table implements the map that table.h promises: table_add, table_del and
\* ks_rb_replace_node do to the entries what they should, and balancing does nothing to them.
THEOREM TableIsMap == Spec => ImplementsMap
<1>1. Init => Map!MapInit
  BY InitMaps
<1>2. TreeInv /\ [Next]_vars => [Map!MapNext]_<<Members(tree), e>>
  BY StepMaps
<1> QED
  BY <1>1, <1>2, AlwaysSound, PTL DEF Spec, ImplementsMap, Map!MapSpec, Map!mapVars

-----------------------------------------------------------------------------
(* table_for_each. *)

\* A nonempty set of numbers has a least one.
LEMMA LeastNumber ==
  ASSUME NEW T \in SUBSET Nat, T # {}
  PROVE  \E least \in T : \A m \in T : least <= m
<1> DEFINE R == OpToRel(<, Nat)
<1>1. IsWellFoundedOn(R, Nat)
  BY NatLessThanWellFounded
<1> HIDE DEF R
<1>2. PICK least \in T : \A m \in T : ~(<<m, least>> \in R)
  BY <1>1, WFMin
<1>3. \A m, k \in Nat : <<m, k>> \in R <=> m < k
  BY DEF R, OpToRel
<1>4. ASSUME NEW m \in T PROVE least <= m
  <2>1. ~(<<m, least>> \in R) /\ m \in Nat /\ least \in Nat
    BY <1>2
  <2>2. ~(m < least)
    BY <1>3, <2>1
  <2> QED
    BY <2>1, <2>2
<1> QED
  BY <1>4

Onward(d, v) == IF v = Null THEN Null ELSE Neighbour(tree, d, v)

IsVisit(g, d, k) ==
  g = [i \in 1 .. k |-> IF i = 1 THEN EndOf(tree, Opposite(d)) ELSE Onward(d, g[i - 1])]

\* The sequence of entries a loop over the table meets exists.
LEMMA VisitExists ==
  ASSUME NEW d, NEW k \in Nat
  PROVE  \E g : IsVisit(g, d, k)
<1> DEFINE T == {i \in Nat : ~\E g : IsVisit(g, d, i)}
<1>1. SUFFICES ASSUME T # {} PROVE FALSE
  OBVIOUS
<1>2. PICK n \in T : \A m \in T : n <= m
  <2>1. T \in SUBSET Nat
    OBVIOUS
  <2> HIDE DEF T
  <2> QED
    BY <1>1, <2>1, LeastNumber
<1>3. n \in Nat /\ ~\E g : IsVisit(g, d, n)
  BY <1>2
<1>4. CASE n = 0
  <2> DEFINE g == [i \in 1 .. 0 |-> Null]
  <2>1. IsVisit(g, d, 0)
    BY DEF IsVisit
  <2> QED
    BY <1>3, <1>4, <2>1
<1>5. CASE n # 0
  <2>1. n - 1 \in Nat /\ ~(n <= n - 1)
    BY <1>3, <1>5
  <2>2. PICK g : IsVisit(g, d, n - 1)
    <3>1. n - 1 \notin T
      BY <1>2, <2>1
    <3> QED
      BY <2>1, <3>1
  <2>3. \A i \in 1 .. n - 1 : g[i] = IF i = 1 THEN EndOf(tree, Opposite(d)) ELSE Onward(d, g[i - 1])
    BY <2>2 DEF IsVisit
  <2> DEFINE val == IF n = 1 THEN EndOf(tree, Opposite(d)) ELSE Onward(d, g[n - 1])
             h == [i \in 1 .. n |-> IF i = n THEN val ELSE g[i]]
  <2>4. \A i \in 1 .. n : h[i] = IF i = n THEN val ELSE g[i]
    OBVIOUS
  <2>5. DOMAIN h = 1 .. n /\ h = [i \in 1 .. n |-> h[i]]
    OBVIOUS
  <2>6. val = IF n = 1 THEN EndOf(tree, Opposite(d)) ELSE Onward(d, g[n - 1])
    OBVIOUS
  <2> HIDE DEF h, val
  <2>7. ASSUME NEW i \in 1 .. n
        PROVE  h[i] = IF i = 1 THEN EndOf(tree, Opposite(d)) ELSE Onward(d, h[i - 1])
    <3>1. i # 1 => i - 1 \in 1 .. n /\ i - 1 # n
      BY <1>3, <2>7
    <3>2. i # 1 => h[i - 1] = g[i - 1]
      BY <2>4, <3>1
    <3>3. CASE i = n
      BY <2>4, <2>6, <3>2, <3>3
    <3>4. CASE i # n
      <4>1. i \in 1 .. n - 1
        BY <1>3, <2>7, <3>4
      <4> QED
        BY <2>3, <2>4, <3>2, <3>4, <4>1
    <3> QED
      BY <3>3, <3>4
  <2>8. h = [i \in 1 .. n |-> IF i = 1 THEN EndOf(tree, Opposite(d)) ELSE Onward(d, h[i - 1])]
    BY <2>5, <2>7
  <2>9. IsVisit(h, d, n)
    BY <2>8 DEF IsVisit
  <2> QED
    BY <1>3, <2>9
<1> QED
  BY <1>4, <1>5

\* table_for_each starts at one end and goes on to the next entry.
LEMMA VisitGoes ==
  ASSUME NEW d
  PROVE  IsVisit(Visited(d), d, Cardinality(Nodes) + 1)
<1> DEFINE visit[i \in 1 .. Cardinality(Nodes) + 1] ==
             IF i = 1 THEN EndOf(tree, Opposite(d))
             ELSE LET v == visit[i - 1] IN IF v = Null THEN Null ELSE Neighbour(tree, d, v)
<1>1. Visited(d) = visit
  BY DEF Visited
<1>2. Cardinality(Nodes) + 1 \in Nat
  BY NodeAssumption, FS_CardinalityType
<1>3. PICK g : IsVisit(g, d, Cardinality(Nodes) + 1)
  BY <1>2, VisitExists
<1>4. g = [i \in 1 .. Cardinality(Nodes) + 1 |->
             IF i = 1 THEN EndOf(tree, Opposite(d))
             ELSE LET v == g[i - 1] IN IF v = Null THEN Null ELSE Neighbour(tree, d, v)]
  BY <1>3 DEF IsVisit, Onward
<1>5. visit = [i \in 1 .. Cardinality(Nodes) + 1 |->
                 IF i = 1 THEN EndOf(tree, Opposite(d))
                 ELSE LET v == visit[i - 1] IN IF v = Null THEN Null ELSE Neighbour(tree, d, v)]
  BY <1>4
<1> HIDE DEF visit
<1>6. IsVisit(visit, d, Cardinality(Nodes) + 1)
  BY <1>5 DEF IsVisit, Onward
<1> QED
  BY <1>1, <1>6

\* After i - 1 steps that many entries are behind.
LEMMA VisitCounts ==
  ASSUME NEW S, Shaped(tree, S), NEW d \in Sides, NEW M, M = Sub(S, tree.root),
         NEW visit, visit = Visited(d), NEW i \in 1 .. Cardinality(M) + 1
  PROVE  /\ visit[i] \in M \cup {Null}
         /\ Cardinality(Rest(M, d, visit[i])) = Cardinality(M) + 1 - i
         /\ i <= Cardinality(M) <=> visit[i] # Null
         /\ i <= Cardinality(M) => visit[i + 1] = Neighbour(tree, d, visit[i])
<1> DEFINE size == Cardinality(M)
           Counts(j) == /\ visit[j] \in M \cup {Null}
                        /\ Cardinality(Rest(M, d, visit[j])) = size + 1 - j
           T == {j \in 1 .. size + 1 : ~Counts(j)}
<1>1. M \in SUBSET Nodes
  BY SubType
<1>2. size \in Nat /\ size <= Cardinality(Nodes) /\ Cardinality(Nodes) \in Nat /\ IsFiniteSet(M)
  BY <1>1, NodeAssumption, FS_Subset, FS_CardinalityType
<1>3. IsVisit(visit, d, Cardinality(Nodes) + 1)
  BY VisitGoes
<1>4. ASSUME NEW j \in 1 .. size + 1
      PROVE  visit[j] = IF j = 1 THEN EndOf(tree, Opposite(d)) ELSE Onward(d, visit[j - 1])
  <2>1. j \in 1 .. Cardinality(Nodes) + 1
    BY <1>2
  <2> HIDE DEF size
  <2> QED
    BY <1>3, <2>1 DEF IsVisit
<1>5. ASSUME NEW j \in 1 .. size + 1, Counts(j)
      PROVE  j <= size <=> visit[j] # Null
  <2>1. CASE visit[j] = Null
    <3>1. Rest(M, d, visit[j]) = {}
      BY <2>1 DEF Rest
    <3>2. Cardinality(Rest(M, d, visit[j])) = 0
      BY <3>1, FS_EmptySet
    <3>3. size + 1 - j = 0
      BY <1>5, <3>2
    <3> HIDE DEF size
    <3> QED
      BY <1>2, <2>1, <3>3
  <2>2. CASE visit[j] # Null
    <3>1. visit[j] \in Rest(M, d, visit[j])
      BY <1>5, <2>2 DEF Rest
    <3>2. IsFiniteSet(Rest(M, d, visit[j])) /\ Cardinality(Rest(M, d, visit[j])) \in Nat
      BY <1>1, RestFinite
    <3>3. Cardinality(Rest(M, d, visit[j])) # 0
      BY <3>1, <3>2, FS_EmptySet
    <3>4. size + 1 - j # 0 /\ j <= size + 1 /\ j \in Int /\ size \in Int
      BY <1>2, <1>5, <3>3
    <3>5. j <= size
      <4> HIDE DEF size
      <4> QED
        BY <3>4
    <3> QED
      BY <2>2, <3>5
  <2> QED
    BY <2>1, <2>2
<1>6. ASSUME T # {} PROVE FALSE
  <2>1. PICK n \in T : \A m \in T : n <= m
    <3>1. T \in SUBSET Nat
      BY <1>2
    <3> HIDE DEF T
    <3> QED
      BY <1>6, <3>1, LeastNumber
  <2>2. n \in 1 .. size + 1 /\ ~Counts(n)
    BY <2>1
  <2>3. CASE n = 1
    <3>1. visit[n] = EndOf(tree, Opposite(d))
      BY <1>4, <2>2, <2>3
    <3>2. visit[n] \in M \cup {Null} /\ Rest(M, d, visit[n]) = M
      BY <3>1, RestOfFirst
    <3>3. size = size + 1 - n
      BY <1>2, <2>3
    <3> QED
      BY <2>2, <3>2, <3>3
  <2>4. CASE n # 1
    <3>1. n - 1 \in 1 .. size + 1 /\ n - 1 <= size /\ ~(n <= n - 1)
      BY <1>2, <2>2, <2>4
    <3>2. Counts(n - 1)
      <4>1. n - 1 \notin T
        BY <2>1, <3>1
      <4> QED
        BY <3>1, <4>1
    <3>3. visit[n - 1] # Null
      BY <1>5, <3>1, <3>2
    <3>4. visit[n] = Neighbour(tree, d, visit[n - 1])
      BY <1>4, <2>2, <2>4, <3>3 DEF Onward
    <3>5. visit[n - 1] \in M
      BY <3>2, <3>3
    <3>6. /\ visit[n] \in M \cup {Null}
          /\ Cardinality(Rest(M, d, visit[n])) = Cardinality(Rest(M, d, visit[n - 1])) - 1
      BY <3>4, <3>5, RestShrinks
    <3>7. Cardinality(Rest(M, d, visit[n])) = size + 1 - n
      <4>1. Cardinality(Rest(M, d, visit[n])) = (size + 1 - (n - 1)) - 1
        BY <3>2, <3>6
      <4>2. size \in Int /\ n \in Int
        BY <1>2, <2>2
      <4> HIDE DEF size
      <4> QED
        BY <4>1, <4>2
    <3> QED
      BY <2>2, <3>6, <3>7
  <2> QED
    BY <2>3, <2>4
<1>7. Counts(i)
  BY <1>6
<1>8. i <= size <=> visit[i] # Null
  BY <1>5, <1>7
<1>9. i <= size => visit[i + 1] = Neighbour(tree, d, visit[i])
  <2>1. SUFFICES ASSUME i <= size PROVE visit[i + 1] = Neighbour(tree, d, visit[i])
    OBVIOUS
  <2>2. i + 1 \in 1 .. size + 1 /\ i + 1 # 1 /\ (i + 1) - 1 = i
    BY <1>2, <2>1
  <2>3. visit[i + 1] = Onward(d, visit[i])
    BY <1>4, <2>2
  <2> QED
    BY <1>8, <2>1, <2>3 DEF Onward
<1> QED
  BY <1>7, <1>8, <1>9

\* The entries come in the order of their keys.
LEMMA VisitOrder ==
  ASSUME NEW S, Shaped(tree, S), NEW d \in Sides, NEW M, M = Sub(S, tree.root),
         NEW visit, visit = Visited(d),
         NEW i \in 1 .. Cardinality(M), NEW j \in 1 .. Cardinality(M), i < j
  PROVE  Beyond(d, Key[visit[j]], Key[visit[i]])
<1> DEFINE size == Cardinality(M)
           T == {k \in 1 .. size : i < k /\ ~Beyond(d, Key[visit[k]], Key[visit[i]])}
<1>1. M \in SUBSET Nodes
  BY SubType
<1>2. size \in Nat
  BY <1>1, NodeAssumption, FS_Subset, FS_CardinalityType
<1>3. ASSUME NEW k \in 1 .. size
      PROVE  visit[k] \in M /\ Key[visit[k]] \in Int /\ visit[k + 1] = Neighbour(tree, d, visit[k])
  <2>1. k \in 1 .. size + 1 /\ k <= size
    BY <1>2
  <2>2. /\ visit[k] \in M \cup {Null} /\ visit[k] # Null
        /\ visit[k + 1] = Neighbour(tree, d, visit[k])
    BY <2>1, VisitCounts
  <2> QED
    BY <1>1, <2>2, SubType
<1>4. ASSUME NEW k \in 1 .. size, k + 1 \in 1 .. size
      PROVE  Beyond(d, Key[visit[k + 1]], Key[visit[k]])
  <2>1. visit[k] \in M /\ visit[k + 1] = Neighbour(tree, d, visit[k]) /\ visit[k + 1] \in M
    BY <1>3, <1>4
  <2>2. visit[k + 1] # Null
    BY <1>1, <2>1, NodeAssumption
  <2> QED
    BY <2>1, <2>2, RestShrinks
<1>5. SUFFICES ASSUME T # {} PROVE FALSE
  OBVIOUS
<1>6. PICK n \in T : \A m \in T : n <= m
  <2>1. T \in SUBSET Nat
    BY <1>2
  <2> HIDE DEF T
  <2> QED
    BY <1>5, <2>1, LeastNumber
<1>7. n \in 1 .. size /\ i < n /\ ~Beyond(d, Key[visit[n]], Key[visit[i]])
  BY <1>6
<1>8. n - 1 \in 1 .. size /\ (n - 1) + 1 = n /\ (n - 1 = i \/ i < n - 1) /\ ~(n <= n - 1)
  BY <1>2, <1>7
<1>9. Beyond(d, Key[visit[n]], Key[visit[n - 1]])
  BY <1>4, <1>7, <1>8
<1>10. CASE n - 1 = i
  BY <1>7, <1>9, <1>10
<1>11. CASE i < n - 1
  <2>1. n - 1 \notin T
    BY <1>6, <1>8
  <2>2. Beyond(d, Key[visit[n - 1]], Key[visit[i]])
    BY <1>8, <1>11, <2>1
  <2>3. Key[visit[n]] \in Int /\ Key[visit[n - 1]] \in Int /\ Key[visit[i]] \in Int
    BY <1>3, <1>7, <1>8
  <2>4. Beyond(d, Key[visit[n]], Key[visit[i]])
    BY <1>9, <2>2, <2>3, BeyondFacts
  <2> QED
    BY <1>7, <2>4
<1> QED
  BY <1>8, <1>10, <1>11

\* table_for_each meets every entry once, in order, and stops.
LEMMA EachVisitedOnceHolds ==
  ASSUME TreeInv
  PROVE  EachVisitedOnce
<1>1. PICK S, H : Typed /\ Sound(S, H)
  BY DEF TreeInv
<1>2. PICK M : M = Members(tree)
  OBVIOUS
<1>3. Shaped(tree, S) /\ M = Sub(S, tree.root) /\ M \in SUBSET Nodes
  BY <1>1, <1>2, SoundMembers
<1>4. PICK size : size = Cardinality(M)
  OBVIOUS
<1>5. size \in Nat
  BY <1>3, <1>4, NodeAssumption, FS_Subset, FS_CardinalityType
<1>6. ASSUME NEW d \in Sides, NEW visit, visit = Visited(d)
      PROVE  /\ \A i \in 1 .. size : visit[i] \in M
             /\ \A i, j \in 1 .. size : i < j =>
                  IF d = "right" THEN Key[visit[i]] > Key[visit[j]]
                      ELSE Key[visit[i]] < Key[visit[j]]
             /\ visit[size + 1] = Null
  <2>1. ASSUME NEW i \in 1 .. size PROVE visit[i] \in M /\ Key[visit[i]] \in Int
    <3>1. i \in 1 .. size + 1 /\ i <= size
      BY <1>5
    <3>2. visit[i] \in M \cup {Null} /\ visit[i] # Null
      BY <1>3, <1>4, <1>6, <3>1, VisitCounts
    <3> QED
      BY <1>3, <3>2, SubType
  <2>2. ASSUME NEW i \in 1 .. size, NEW j \in 1 .. size, i < j
        PROVE  IF d = "right" THEN Key[visit[i]] > Key[visit[j]] ELSE Key[visit[i]] < Key[visit[j]]
    <3>1. Beyond(d, Key[visit[j]], Key[visit[i]])
      BY <1>3, <1>4, <1>6, <2>2, VisitOrder
    <3>2. Key[visit[i]] \in Int /\ Key[visit[j]] \in Int
      BY <2>1
    <3> QED
      BY <3>1, <3>2 DEF Beyond, Sides
  <2>3. visit[size + 1] = Null
    <3>1. size + 1 \in 1 .. size + 1 /\ ~(size + 1 <= size)
      BY <1>5
    <3> QED
      BY <1>3, <1>4, <1>6, <3>1, VisitCounts
  <2> QED
    BY <2>1, <2>2, <2>3
<1> QED
  BY <1>2, <1>4, <1>6 DEF EachVisitedOnce

\* table_get and table_for_each read exactly what is in the table, whatever was added,
\* deleted and replaced before.
THEOREM AlwaysReadsExact == Spec => []ReadsExact
<1>1. TreeInv => ReadsExact
  BY GetFindsHolds, EachVisitedOnceHolds DEF ReadsExact
<1> QED
  BY <1>1, AlwaysSound, PTL
=============================================================================
