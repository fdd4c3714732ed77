CONSTANTS
  Procs = {p1, p2}
  SegmentIds = {1, 2}
  Sizes = {1, 2}
  AccessSizes = {0, 1, 2}
  Capacity = 3
  ZeroSize = 1
  MaxSegmentSize = 2
  TableBound = 3
  Manners = {"careful", "careless"}
  NULL = NULL
SPECIFICATION Spec
SYMMETRY Symmetry
\* The system may end in any of the ways of "system".
CHECK_DEADLOCK FALSE
INVARIANTS MmuIsExact TransfersFit NothingForgotten TablesOfTheLiving
