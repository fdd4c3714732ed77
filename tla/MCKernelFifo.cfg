CONSTANTS
  p1 = p1
  p2 = p2
  p3 = p3
  RA = RA
  RB = RB
  Procs = {p1, p2, p3}
  Resources = {RA, RB}
  Instances <- TwoAndOne
  MaxMultiprogramming = 1
  AlgorithmIsHrrn = FALSE
  Ratios = {1, 2}
  Programs <- Mixed
  Main = Main
  NULL = NULL
SPECIFICATION Spec
SYMMETRY Symmetry
\* The kernel ends when the CPU or memory does, and idles with no process left.
CHECK_DEADLOCK FALSE
INVARIANTS
  MultiprogrammingBound
  PcbInOnePlace
  NoLostWakeup
  NoRoomWasted
  NoDanglingPcb
  ResourceConservation
  EverySignalHasAHolder
PROPERTIES
  ExitIsFinal
  InstancesAreAccounted
