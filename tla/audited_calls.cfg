SPECIFICATION CallSpec
CONSTANTS
  host = host
  other = other
  Proc = {host, other}
  Kind <- MCKind
  Owner <- MCOwner
  Calls = {c1, c2}
  Phases = {"intent", "result"}
  NoDraft = NoDraft
  NoCall = NoCall
  Free = Free
  SealRequired = FALSE
  ExplicitRotation = TRUE
  MaxSeq = 3
  MaxFaults = 1
INVARIANTS FailClosed ReturnedIsRecorded VerifyAllFlagsOrphans
PROPERTIES RunsUnderSeal CallsGoOn
CHECK_DEADLOCK FALSE
