SPECIFICATION FairSpec
CONSTANTS
  sdk = sdk
  ingest = ingest
  openclaw = openclaw
  unsealed = unsealed
  cli = cli
  Proc = {sdk, openclaw, cli}
  Kind <- MCKind
  Calls = {c1}
  Phases = {"intent", "result"}
  NoDraft = NoDraft
  Free = Free
  SealRequired = TRUE
  ExplicitRotation = TRUE
  MaxSeq = 2
  MaxFaults = 1
INVARIANTS ChainIntact HeadIsCommitted VerifyNeverBlamesTheChain
PROPERTIES HistoryKept ImplementsTrail LockIsReleased
CHECK_DEADLOCK FALSE
