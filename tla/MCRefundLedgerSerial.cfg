SPECIFICATION FairSpec
CHECK_DEADLOCK FALSE
CONSTANTS
  h1 = h1
  h2 = h2
  h3 = h3
  i1 = i1
  i2 = i2
  r1 = r1
  r1b = r1b
  r2 = r2
  r3 = r3
  e1 = e1
  e2 = e2
  None = None
  SerialWriters = TRUE
  Handoffs = {h1, h2}
  Items = {i1, i2}
  Requests = {r1, r1b, r2}
  Executors = {e1, e2}
  V2 = {h2}
  HandoffOf <- MCDuoHandoffOf
  Scope <- MCDuoScope

INVARIANTS
  PaidNeverRejected
PROPERTIES
  RefinesPromise
  TerminalIsFinal
  PaidIsRecorded
  StartedEnds
