SPECIFICATION Spec
CONSTANTS
  None = None
  Worlds <- MCWorlds
INVARIANTS
  TypeOK
  OutputIsTheStreams
  ExitCodeTells
  ClosedInsideOut
PROPERTIES
  DumpEnds
CHECK_DEADLOCK FALSE
