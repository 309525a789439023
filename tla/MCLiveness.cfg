SPECIFICATION SpecParts
CONSTANTS
  alice = alice
  bob = bob
  course = course
  e1 = e1
  e2 = e2
  m1 = m1
  m2 = m2
  p1 = p1
  NoLimit = NoLimit
  NoKey = NoKey
  NoAsk = NoAsk
  Free = Free
  None = None
  Jobs = {j1}
  Processes = {p1, p2}
  MaxStarts = 2
  Queries = {q1, q2}
  Again = {q1, q2}
  Questions = {"why"}
  Asks <- OneAsk
  ChunkLists <- NothingFound
  RelevanceThreshold = 12
  High = 70
  Medium = 50
  MinGap = 8
  MaxChunks = 2
  MaxInput = 9
  Overhead = 1
  Reserve = 2
  MaxVersions = 1
  MaxChanges = 2
  MaxDepth = 0
  Callers = {b1, b2}
  FailMax = 2
  MaxFlips = 3
INVARIANTS
  CancelLostOnlyByRace
  OutcomesAreExplained
PROPERTIES
  EveryRequestEnds
  JobsEnd
  Recovers
  EnrollmentIsSeen
CHECK_DEADLOCK FALSE
