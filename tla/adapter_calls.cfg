SPECIFICATION Spec
CONSTANTS
  c1 = c1
  c2 = c2
  None = None
  Split <- MCSplit
  Calls = {c1, c2}
  Menu <- MCMenu
  Who <- MCWho
  OptionSets <- MCOptionSets
  MaxItems = 2
  MaxFaults = 1
INVARIANTS EffectIsAnnounced RecordedAsSeen OkIsKept NumbersAreDistinct RowsNameTheirTarget
CHECK_DEADLOCK FALSE
