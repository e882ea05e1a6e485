SPECIFICATION Spec
CONSTANTS
  plugin = plugin
  sdk = sdk
  ingest = ingest
  init = init
  again = again
  Proc = {sdk, init}
  Kind <- AdoptKind
  After <- AdoptAfter
  NoConfig = NoConfig
  NoKey = NoKey
  MaxRows = 2
INVARIANTS VerifyStartsAtGenesis
CHECK_DEADLOCK FALSE
