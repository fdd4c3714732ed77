\* The bytes between consoles, kernel, CPU and memory, with deaths.
CONSTANTS
  Procs <- MCProcs
  Pid <- MCPid
  Scripts <- MCScripts
  RegisterNames <- MCRegisterNames
  RegisterSizes <- MCRegisterSizes
  ByteValues = 256
  IntBytes = 2
  LongBytes = 2
  Heap = 10
  Pointer = 77
  ZeroSize = 8
  Cuts <- MCCuts
  NULL = NULL
  Torn = Torn

SPECIFICATION FairSpec
INVARIANTS
  InStep
  ContextSurvives
PROPERTIES
  EveryConsoleHears
CHECK_DEADLOCK FALSE
