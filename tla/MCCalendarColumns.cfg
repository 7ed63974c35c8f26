\* The calendar's SELECTs name columns no unit lists.
SPECIFICATION Spec
CONSTANTS
  Domains = {"calendar"}
  Specs <- MCSpecs
  Anchored <- MCAnchored
  Streams <- MCStreams
  Backups <- MCBackups
  Hosts <- MCHosts
  MaxStores = 2
  LocalStore = 2
  Excepted = {}
INVARIANT NoAbsentColumn
CHECK_DEADLOCK FALSE
