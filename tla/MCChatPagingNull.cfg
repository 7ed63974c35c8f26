\* No cursor reaches a message without a date.
SPECIFICATION PagingSpec
CONSTANTS
  PerSecond = 3
  UnixDelta = 4
  HalfRange = 32
  ZeroSeconds <- MCZeroSeconds
  Ids = {1, 2, 3}
  Dates <- MCDates
  Defects = {FALSE}
  Limits = {2}
  Null = NULL
INVARIANT WalkMatchesOneShot
CHECK_DEADLOCK FALSE
