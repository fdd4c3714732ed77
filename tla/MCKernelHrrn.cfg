CONSTANTS
  p1 = p1
  p2 = p2
  p3 = p3
  RA = RA
  RB = RB
  Procs = {p1, p2, p3}
  Resources = {RA}
  Instances <- OneEach
  MaxMultiprogramming = 3
  AlgorithmIsHrrn = TRUE
  Ratios = {1, 2, 3}
  Programs <- Blocking
  Main = Main
  NULL = NULL
SPECIFICATION Spec
SYMMETRY Symmetry
\* The kernel ends when the CPU or memory does, and idles with no process left.
CHECK_DEADLOCK FALSE
PROPERTIES
  HrrnKeepsReady
  HrrnPicksTheBest
