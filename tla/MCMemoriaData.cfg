CONSTANTS
  Pids = {q1}
  Segments = {s1, s2, s3}
  Zero = Zero
  SegmentIds = {a, b}
  Sizes = {1, 2}
  MemorySize = 5
  ZeroSize = 1
  Algorithms = {"BEST"}
  NoSegment = NoSegment
SPECIFICATION DataSpec
SYMMETRY Symmetry
\* memory may end in a read through NULL
CHECK_DEADLOCK FALSE
INVARIANTS OnlyTheFirstByteIsCut
