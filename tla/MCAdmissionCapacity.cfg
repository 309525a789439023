SPECIFICATION Spec
CONSTANTS
  alice = alice
  bob = bob
  basics = basics
  advanced = advanced
  key = key
  NoLimit = NoLimit
  NoKey = NoKey
  NoAsk = NoAsk
  Free = Free
  Enrollments = {e1, e2, e3}
  Modules = {m1}
  Asks <- SeatAsks
  Courses <- OneCourse
  Prerequisites <- NoPrerequisites
  Capacity <- OneSeat
INVARIANTS
  CapacityRespected
CHECK_DEADLOCK FALSE
