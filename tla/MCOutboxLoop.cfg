CONSTANTS
  i1 = i1
  Me = w1
  Ids = {i1}
  Intents <- MCIntents
  MaxAttempts = 2
  BatchSize = 1
  BusyBase = 1
  BusyMax = 4
  IdlePoll = 7
  StreakCap = 3
  MaxGhosts = 2
SPECIFICATION LoopSpec
INVARIANTS
  OneCycle
  StoppedMeansSettled
PROPERTIES
  EventuallyResolved
CHECK_DEADLOCK FALSE
