SPECIFICATION Spec
CONSTANTS
  plugin = plugin
  sdk = sdk
  ingest = ingest
  init = init
  again = again
  Proc = {plugin, sdk}
  Kind <- SdkKind
  After <- AfterSdk
  NoConfig = NoConfig
  NoKey = NoKey
  MaxRows = 2
INVARIANTS StoreIsSound
CHECK_DEADLOCK FALSE
