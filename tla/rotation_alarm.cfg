SPECIFICATION Spec
CONSTANTS
  sdk = sdk
  ingest = ingest
  openclaw = openclaw
  unsealed = unsealed
  cli = cli
  Proc = {sdk}
  Kind <- MCKind
  Calls = {c1}
  Phases = {"intent"}
  NoDraft = NoDraft
  Free = Free
  SealRequired = TRUE
  ExplicitRotation = TRUE
  MaxSeq = 2
  MaxFaults = 0
INVARIANTS NoFalseAlarm
CHECK_DEADLOCK FALSE
