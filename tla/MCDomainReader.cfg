\* Every iterator of six domains on every store that lacks up to two pieces.
SPECIFICATION Spec
CONSTANTS
  Domains = {"messages", "contacts", "calls", "calendar", "notes", "reminders"}
  Specs <- MCSpecs
  Anchored <- MCAnchored
  Streams <- MCStreams
  Backups <- MCBackups
  Hosts <- MCHosts
  MaxStores = 2
  LocalStore = 2
  Excepted = {"calendar", "reminders"}
INVARIANTS
  TypeOK
  HandlesReleased
  EveryStoreRead
  HonestStores
  NoAbsentColumn
  FailureExplained
  ListsAgree
  ExtraColumnHarmless
CHECK_DEADLOCK FALSE
