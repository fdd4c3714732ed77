CONSTANTS
  Procs = {p1, p2, p3}
  Files = {f1, f2}
  OwnersClose = TRUE
  Gone = Gone
  NULL = NULL
SPECIFICATION FairSpec
\* The kernel may end, and idles with no process left.
CHECK_DEADLOCK FALSE
INVARIANTS AwaitedOnce OneOwner AnswersAreEnough
PROPERTIES ImplementsLocks RequestsEnd
