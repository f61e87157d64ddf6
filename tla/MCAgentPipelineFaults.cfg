SPECIFICATION Spec
CONSTANTS
  w1 = w1
  w2 = w2
  b1 = b1
  b2 = b2
  None = None
  Workers <- MCWorkers
  Bridges <- MCBridges
  Kinds <- MCKinds
  MaxCommands = 2
  MaxSends = 1
  MaxNotes = 1
  MaxFaults = 1
  MaxDrops = 0
  MaxRuns = 2
SYMMETRY Symmetry
INVARIANTS DoneOnce ProjectedInOrder ExecutedAlone
PROPERTIES TerminatedIsFrozen
CHECK_DEADLOCK FALSE
