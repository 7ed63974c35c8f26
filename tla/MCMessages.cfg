\* Every conversation of up to four rows, dated before 2001, after it or not at
\* all; and bodies of messages and notes, whole and cut.
SPECIFICATION MCSpec
CONSTANTS
  PerSecond = 3
  UnixDelta = 4
  HalfRange = 32
  ZeroSeconds <- MCZeroSeconds
  Ids = {1, 2, 3, 4}
  Dates <- MCDates
  Defects = {FALSE, TRUE}
  Limits = {0, 1, 2}
  Null = NULL
  BodyRows <- MCRows
  Cuts <- MCCuts
INVARIANTS
  TypeOK
  CursorExact
  CleanWalkMatchesOneShot
  NeverBack
  BodyTrueOrUnknown
  UnknownOnlyWhenDamaged
PROPERTY WalkEnds
CHECK_DEADLOCK FALSE
