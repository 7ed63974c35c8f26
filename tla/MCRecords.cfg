SPECIFICATION Spec
CONSTANTS
  Null = NULL
  Spoilt = Spoilt
  Chat1 = 1
  MaxRanges = 2
  Worlds <- MCWorlds
INVARIANTS
  TypeOK
  RowsInOrder
  RecordsTrue
  OnlyDefectsWithheld
CHECK_DEADLOCK FALSE
