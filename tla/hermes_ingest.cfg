SPECIFICATION Spec
CONSTANTS
  MaxSends = 3
  HookThreads = 1
  NoEnvelope = NoEnvelope
  Stop = Stop
  QueueMax = 2
  MaxConsecutive = 2
  MaxSpawns = 2
  MaxFaults = 2
INVARIANTS RecordedOnce LossIsCounted AckMatches RecordedInOrder
PROPERTIES EveryEnvelopeIsAnswered
CHECK_DEADLOCK FALSE
