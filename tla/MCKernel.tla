------------------------------ MODULE MCKernel ------------------------------
(***************************************************************************)
(* Values of the constants of Kernel for TLC.                              *)
(***************************************************************************)
EXTENDS KernelInvariant, TLC

CONSTANTS p1, p2, p3, RA, RB

Ask(op) == [op |-> op, arg |-> NULL]
Take(r) == [op |-> "WAIT", arg |-> r]
Give(r) == [op |-> "SIGNAL", arg |-> r]

(* A resource of two instances, taken twice by one program, which gives    *)
(* one back, and signalled by another that does not hold it; a resource of *)
(* one instance, given back by its holder or by the holder's end; and one  *)
(* that is not there.                                                      *)
Mixed == {
  << Take(RA), Take(RA), Give(RA), Ask("EXIT") >>,
  << Give(RA), Take(RB), Ask("I_O"), Ask("EXIT") >>,
  << Take(RB), Take(RA), Give(RB), Ask("EXIT") >>,
  << Take(RB), Ask("YIELD"), Give(NULL), Ask("EXIT") >> }
TwoAndOne == [r \in {RA, RB} |-> IF r = RA THEN 2 ELSE 1]

(* Two resources, one taken with the other held; one is given back by      *)
(* SIGNAL and the other by the end of the process.                         *)
Nested == { << Take(RA), Take(RB), Ask("I_O"), Give(RA), Ask("EXIT") >> }
OneEach == [r \in Resources |-> 1]

(* Processes that end at once.                                             *)
Quick == { << Ask("EXIT") >> }

(* For HRRN: some processes block on I/O and others never do.              *)
Blocking == { << Ask("I_O"), Ask("EXIT") >>, << Ask("YIELD"), Ask("EXIT") >> }

Symmetry == Permutations(Procs)
=============================================================================
