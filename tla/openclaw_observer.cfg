SPECIFICATION MCSpec
CONSTANTS
  write = write
  patch = patch
  diary = diary
  nested = nested
  Call = {write, patch}
  Event <- MCEvent
  File = {diary, nested}
  RootDream = {diary}
  NestedDream = {nested}
  Absent = Absent
  Dreamt = Dreamt
  Ttl = 0
  MaxEntries = 3
  Scan = {1, 2}
  MaxTime = 1
  MaxTrouble = 1
INVARIANTS ResultsMatchIntents RepeatsAreSuppressed ObservedWritesAreNotDreams
PROPERTIES DreamsAreCaught
CHECK_DEADLOCK FALSE
