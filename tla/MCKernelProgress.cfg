CONSTANTS
  p1 = p1
  p2 = p2
  p3 = p3
  RA = RA
  RB = RB
  Procs = {p1, p2, p3}
  Resources = {RA, RB}
  Instances <- OneEach
  MaxMultiprogramming = 2
  AlgorithmIsHrrn = FALSE
  Ratios = {1, 2}
  Programs <- Nested
  Main = Main
  NULL = NULL
SPECIFICATION FairSpec
\* The kernel ends when the CPU or memory does, and idles with no process left.
CHECK_DEADLOCK FALSE
INVARIANTS NobodyWaitsForAFreeInstance FinishedStopTheMainLoop
PROPERTIES SubmittedEnds
