SPECIFICATION FairSpec
CHECK_DEADLOCK FALSE
CONSTANTS
  r1 = r1
  w1 = w1
  w2 = w2
  c1 = c1
  q1 = q1
  None = None
  MemoryIds = {r1}
  Contents = {c1}
  Models = {"large", "small"}
  Model = "large"
  Queriers = {q1}
  Resolutions = {r1}
  Workers = {w1, w2}
  MaxFaults = 2
INVARIANTS
  OneOutcome
PROPERTIES
  ServedIsEarned
  CaseIsLearned
