SPECIFICATION Spec
CONSTANTS
  w1 = w1
  w2 = w2
  b1 = b1
  b2 = b2
  None = None
  Workers <- MCWorkers
  Bridges <- MCBridges
  Kinds <- MCKinds
  MaxCommands = 2
  MaxSends = 2
  MaxNotes = 1
  MaxFaults = 0
  MaxDrops = 1
  MaxRuns = 2
SYMMETRY Symmetry
INVARIANTS HarmlessWithoutFault AwaitedInterruptIsActive
CHECK_DEADLOCK FALSE
