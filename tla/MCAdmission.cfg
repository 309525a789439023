SPECIFICATION Spec
CONSTANTS
  alice = alice
  bob = bob
  basics = basics
  advanced = advanced
  key = key
  NoLimit = NoLimit
  NoKey = NoKey
  NoAsk = NoAsk
  Free = Free
  Enrollments = {e1, e2, e3}
  Modules = {m1}
  Asks <- PathAsks
  Courses <- TwoCourses
  Prerequisites <- BasicsFirst
  Capacity <- OneSeatInBasics
SYMMETRY AdmissionSymmetry
INVARIANTS
  EnrolledHasProgress
  OverCapacityOnlyByOverlap
PROPERTIES
  ForeignLockKept
  LedgerSpec
CHECK_DEADLOCK FALSE
