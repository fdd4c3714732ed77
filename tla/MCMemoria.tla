------------------------------ MODULE MCMemoria -----------------------------
(***************************************************************************)
(* Values of the constants of Memoria for TLC.                             *)
(***************************************************************************)
EXTENDS MemoriaInvariant, TLC

Symmetry ==
  Permutations(Pids) \cup Permutations(Segments) \cup Permutations(SegmentIds)
=============================================================================
