CONSTANTS
  Pids = {q1, q2}
  Segments = {s1, s2, s3}
  Zero = Zero
  SegmentIds = {a, b}
  Sizes = {1, 2, 3}
  MemorySize = 6
  ZeroSize = 1
  Algorithms = {"BEST", "FIRST", "WORST"}
  NoSegment = NoSegment
SPECIFICATION Spec
SYMMETRY Symmetry
\* memory may end in a read through NULL
CHECK_DEADLOCK FALSE
INVARIANTS RemainingIsFree NoOverlap AtMostOneByteOut TablesMatchRam NoConsecutiveCompaction
PROPERTIES PlacedAsConfigured ImplementsStore
