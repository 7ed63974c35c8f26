\* Two iterators of one domain, each ranged over twice, against both Closes.
SPECIFICATION FairSpec
CONSTANTS
  Iterators = {i1, i2}
  Rows <- MCRows
  Preloads = 2
  MaxRanges = 2
INVARIANTS
  TypeOK
  NoConnectionLeaks
  ClosedDomainFails
PROPERTIES
  KeepsContract
  RangeEnds
CHECK_DEADLOCK FALSE
