SPECIFICATION FairSpec
CONSTANTS
  w1 = w1
  w2 = w2
  b1 = b1
  b2 = b2
  None = None
  Workers <- MCWorkers
  Bridges <- MCOneBridge
  Kinds <- MCKinds
  MaxCommands = 2
  MaxSends = 1
  MaxNotes = 0
  MaxFaults = 1
  MaxDrops = 1
  MaxRuns = 2
PROPERTIES CaseMovesOn
CHECK_DEADLOCK FALSE
