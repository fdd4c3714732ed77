CONSTANTS
  f1 = f1
  f2 = f2
  a1 = a1
  b1 = b1
  c1 = c1
  a2 = a2
  b2 = b2
  c2 = c2
  Files = {f1, f2}
  Letters <- ThreeLetters
  BlockCount = 5
  BlockWords = 2
  Sizes <- SizesByUsage
  Lengths <- LengthsByUsage
  Reserved = {}
  Usages = {"careful", "killed"}
  Empty = Empty
  NoFile = NoFile
SPECIFICATION Spec
SYMMETRY Symmetry
\* the file system may end in an access that faults
CHECK_DEADLOCK FALSE
INVARIANTS      PointersMatchSize
