SPECIFICATION FairSpec
CHECK_DEADLOCK FALSE
CONSTANTS
  h1 = h1
  h3 = h3
  i1 = i1
  r1 = r1
  r2 = r2
  r3 = r3
  e1 = e1
  e2 = e2
  ev1 = ev1
  ev2 = ev2
  None = None
  SerialWriters = FALSE
  Handoffs = {h1, h3}
  Items = {i1}
  Requests = {r1, r2, r3}
  Executors = {e1, e2}
  V2 = {h1}
  HandoffOf <- MCHandoffOf
  Scope <- MCScope
  NeedsReturn = {r1}
  EventIds = {ev1, ev2}
  Times <- MCTimes
  MaxFaults = 2
INVARIANTS
  PaidAfterInspection
  EscalatedIsUnpaid
  ClosedOnce
  HeldForTheReturn
PROPERTIES
  ExecutionEnds
