---------------------------- MODULE MCMemoriaData ---------------------------
(***************************************************************************)
(* Values of the constants of MemoriaData for TLC.                         *)
(***************************************************************************)
EXTENDS MemoriaData, TLC

Symmetry ==
  Permutations(Pids) \cup Permutations(Segments) \cup Permutations(SegmentIds)
=============================================================================
