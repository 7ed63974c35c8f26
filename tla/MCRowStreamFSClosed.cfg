\* A stream without child queries reads an unlinked copy to its end.
SPECIFICATION Spec
CONSTANTS
  Iterators = {i1}
  Rows <- PlainRows
  Preloads = 1
  MaxRanges = 2
INVARIANT ClosedFSFails
CHECK_DEADLOCK FALSE
