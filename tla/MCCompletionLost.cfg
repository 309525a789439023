SPECIFICATION Spec
CONSTANTS
  None = None
  Enrollments = {e1}
  Modules = {m1, m2}
  Completers = {r1, r2}
  Cancellers = {}
  MaxInFlight = 2
INVARIANTS
  AllDoneIsCertified
CHECK_DEADLOCK FALSE
