------------------------------ MODULE MCMmapped ------------------------------
(***************************************************************************)
(* Mmapped with a few small pages.                                         *)
(***************************************************************************)
EXTENDS Mmapped

CONSTANT Memory  \* number of pages the system has

ASSUME MCCallersAreModest == ModestCallers

MCPages == {k * PageSize : k \in 1..Memory}
=============================================================================
