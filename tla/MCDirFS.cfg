\* Callers of one DirFS, over three databases, against its Close.
SPECIFICATION FairSpec
CONSTANTS
  c1 = c1
  c2 = c2
  Callers = {c1, c2}
  Requests = {"wal", "plain", "absent"}
  Main = "db"
  Sidecars <- MCSidecars
  Tree <- MCTree
  Free = Free
  MaxCalls = 3
INVARIANTS
  TypeOK
  PrivateScratch
  IssuedComplete
  CleanClose
PROPERTIES
  ImplementsStore
  CallsReturn
CHECK_DEADLOCK FALSE
