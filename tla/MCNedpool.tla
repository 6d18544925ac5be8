------------------------------ MODULE MCNedpool ------------------------------
(***************************************************************************)
(* Nedpool on small instances: neither the threads nor the mspaces are     *)
(* told apart but by equality.                                             *)
(***************************************************************************)
EXTENDS Nedpool, TLC

Symmetry == Permutations(Threads) \cup Permutations(Spaces)
=============================================================================
