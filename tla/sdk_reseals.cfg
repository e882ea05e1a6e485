SPECIFICATION LegacySpec
CONSTANTS
  sdk = sdk
  ingest = ingest
  openclaw = openclaw
  unsealed = unsealed
  cli = cli
  Proc = {sdk}
  Kind <- MCKind
  Calls = {c1}
  Phases = {"intent"}
  NoDraft = NoDraft
  Free = Free
  SealRequired = TRUE
  ExplicitRotation = FALSE
  MaxSeq = 3
  MaxFaults = 0
PROPERTIES FirstSealIsOfTheFirstRow
CHECK_DEADLOCK FALSE
