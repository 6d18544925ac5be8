---------------------------- MODULE MCThreadCache ----------------------------
(***************************************************************************)
(* ThreadCache with a handful of blocks of given usable sizes: one below   *)
(* the least request, one for each bin, one that dlmalloc rounded up, one  *)
(* that is just cached and one that is too large.                          *)
(***************************************************************************)
EXTENDS ThreadCache

MCUsable == <<16, 24, 40, 72, 80, 88>>
MCBlocks == DOMAIN MCUsable

ASSUME MCProductsFit == ProductsFit
=============================================================================
