SPECIFICATION Spec
CHECK_DEADLOCK FALSE
CONSTANTS
  h1 = h1
  h2 = h2
  h3 = h3
  i1 = i1
  i2 = i2
  r1 = r1
  r1b = r1b
  r2 = r2
  r3 = r3
  e1 = e1
  e2 = e2
  None = None
  SerialWriters = FALSE
  Handoffs = {h1, h2, h3}
  Items = {i1, i2}
  Requests = {r1, r1b, r2, r3}
  Executors = {e1, e2}
  V2 = {h3}
  HandoffOf <- MCHandoffOf
  Scope <- MCScope
SYMMETRY MCExecutorSymmetry
INVARIANTS
  NoItemPaidTwice
  SuccessIsPaid
  UnknownKeepsOwnership
PROPERTIES
  ReservationHandover
