-------------------------------- MODULE Heap --------------------------------
(***************************************************************************)
(* What an allocator promises: blocks of memory that do not overlap, each  *)
(* of which stays where it is and as long as it is until its own holder    *)
(* asks for something else.                                                *)
(***************************************************************************)
EXTENDS Integers, FiniteSets

VARIABLE blocks  \* the blocks that are held: first byte -> length

Bytes(b, a) == a..a + b[a] - 1

\* Two blocks meet if one begins in the other.
Disjoint(b) == \A a \in DOMAIN b, c \in DOMAIN b : a < c => a + b[a] <= c

Init == blocks = <<>>

\* A block is handed out.
Get == \E a \in DOMAIN blocks' :
  DOMAIN blocks = DOMAIN blocks' \ {a} /\ \A c \in DOMAIN blocks : blocks'[c] = blocks[c]

\* A block is given back.
Release == \E a \in DOMAIN blocks :
  DOMAIN blocks' = DOMAIN blocks \ {a} /\ \A c \in DOMAIN blocks' : blocks'[c] = blocks[c]

\* A block grows, shrinks or is cut into several, which lie where it lay.
Reshape == \E a \in DOMAIN blocks :
  /\ a \in DOMAIN blocks' /\ DOMAIN blocks \subseteq DOMAIN blocks'
  /\ \A c \in DOMAIN blocks \ {a} : blocks'[c] = blocks[c]
  /\ \A c \in DOMAIN blocks' \ DOMAIN blocks : a < c /\ c + blocks'[c] <= a + blocks[a]

\* All blocks are given back at once.
ReleaseAll == blocks' = <<>>

Next == (Get \/ Release \/ Reshape \/ ReleaseAll) /\ Disjoint(blocks')

Spec == Init /\ [][Next]_blocks
=============================================================================
