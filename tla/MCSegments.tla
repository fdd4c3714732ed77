----------------------------- MODULE MCSegments -----------------------------
(***************************************************************************)
(* Values of the constants of Segments for TLC.                            *)
(***************************************************************************)
EXTENDS SegmentsInvariant, TLC

Symmetry == Permutations(Procs)
=============================================================================
