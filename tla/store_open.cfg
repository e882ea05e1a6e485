SPECIFICATION Spec
CONSTANTS
  plugin = plugin
  sdk = sdk
  ingest = ingest
  init = init
  again = again
  Proc = {plugin, sdk, ingest, init, again}
  Kind <- MCKind
  After <- AfterPlugin
  NoConfig = NoConfig
  NoKey = NoKey
  MaxRows = 2
INVARIANTS OneSealKey StoreIsSound
PROPERTIES ConfigOnlyHardens
CHECK_DEADLOCK FALSE
