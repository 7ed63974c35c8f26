\* A note whose text lies behind a field that cannot be walked over.
SPECIFICATION BodySpec
CONSTANTS
  BodyRows <- MCNotes
  Cuts <- MCCuts
INVARIANT EveryBodyTrueOrUnknown
CHECK_DEADLOCK FALSE
