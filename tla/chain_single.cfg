SPECIFICATION ReadersSpec
CONSTANTS
  ingest = ingest
  Proc = {ingest}
  Kind <- MCKind
  Calls = {c1}
  Phases = {"intent", "result", "unattributed"}
  NoDraft = NoDraft
  Free = Free
  SealRequired = TRUE
  ExplicitRotation = FALSE
  MaxSeq = 3
  MaxFaults = 1
  Roles = {"verify", "verify all", "follow", "newest", "pages", "history"}
  PageSize = 1
INVARIANTS NoFalseAlarm SealLagsByOne CleanReportIsTrue AlarmsHaveACause ReadersMissNothing
PROPERTIES ImplementsOneWayTrail SealCatchesUp
CHECK_DEADLOCK FALSE
