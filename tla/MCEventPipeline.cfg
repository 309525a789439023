SPECIFICATION FairSpec
CONSTANTS
  Loop = Loop
  Events = {1, 2}
  BatchSize = 2
  MaxFaults = 2
  Requests = {q1}
  MaxRetries = 2
INVARIANTS
  NothingSkipped
  TaskAloneCountsAll
PROPERTIES
  EffectsSpec
  EveryEventArrives
CHECK_DEADLOCK FALSE
