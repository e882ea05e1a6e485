SPECIFICATION MCSpec
CONSTANTS
  add = add
  edit = edit
  skill = skill
  task = task
  skillCall = skillCall
  memoryMd = memoryMd
  dream = dream
  Call = {add, edit, skill}
  Invocation <- MCInvocation
  File = {memoryMd, dream}
  Fallback = {memoryMd}
  Elsewhere = Elsewhere
  Content = {absent, v1}
  Absent = absent
  NoId = NoId
  Window = 0
  MaxTime = 1
  MaxTrouble = 1
  HookKey = {k1, k2, k3}
  Thread = {t1, t2}
  TtlS = 1
  MaxEntries = 2
  MaxClock = 2
  MaxHooks = 4
INVARIANTS RepeatsAreKnown EachIntentIsUsedOnce NoChangeIsUnseen UndisturbedCallIsPaired
PROPERTIES ChangeIsNoticed
CHECK_DEADLOCK FALSE
