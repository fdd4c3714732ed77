CONSTANTS
  Procs = {p1, p2}
  Files = {f1}
  OwnersClose = TRUE
  Gone = Gone
  NULL = NULL
SPECIFICATION Spec
\* The kernel may end, and idles with no process left.
CHECK_DEADLOCK FALSE
PROPERTIES WokenFromBlock
