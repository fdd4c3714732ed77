---------------------------- MODULE MCKernelFiles ----------------------------
(***************************************************************************)
(* Values of the constants of KernelFiles for TLC.                         *)
(***************************************************************************)
EXTENDS KernelFiles, TLC

Symmetry == Permutations(Procs) \cup Permutations(Files)
=============================================================================
