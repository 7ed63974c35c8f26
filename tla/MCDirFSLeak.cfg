SPECIFICATION Spec
CONSTANTS
  c1 = c1
  c2 = c2
  c3 = c3
  Callers = {c1, c2, c3}
  Requests = {"wal", "plain", "absent"}
  Main = "db"
  Sidecars <- MCSidecars
  Tree <- MCTree
  Free = Free
  MaxCalls = 3
SYMMETRY Symmetry
CHECK_DEADLOCK FALSE
INVARIANT NilCloseRemoved
