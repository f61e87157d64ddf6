SPECIFICATION MCSpec
CHECK_DEADLOCK FALSE
CONSTANTS
  k1 = k1
  k2 = k2
  i1 = i1
  d1 = d1
  d2 = d2
  None = None
  Cases = {k1, k2}
  Watched = k1
  Images = {i1}
  Dispatchers = {d1, d2}
  MaxCommands = 3
  MaxFaults = 2
  MaxNotes = 1
  MaxReconnects = 2
  LastCommit = 3
  LastActivity = 4
  PageSize = 2
  MaxActions = 1
  MaxScreenFaults = 2
  Library <- MCLibrary
  Requests <- MCRequests
  Models = {"m1", "m2"}
  Readers <- MCReaders
  RequestOf <- MCRequestOf
  Verifiers <- MCVerifiers
  HandoffOf <- MCHandoffOf
  RiskCases = {"paid", "first", "last"}
  OpenedAt <- MCOpenedAt
  OrderOf <- MCOrderOf
  RiskCalls = {"first", "other", "last", "again"}
  AskedOf <- MCAskedOf
  Window = 2
  Orders = 1
  LastDay = 3
  NoSnapshot = NoSnapshot
  Summaries = {"s1"}
  Lifecycles = {"e1"}
  Capacity = 1
  Bridges = {"b1", "b2"}
  Slots = {"n1", "n2"}
  MaxTraceFaults = 2
INVARIANTS
  StreamIsComplete
  RepliesMeetTheirQuestions
  ScreenIsCurrent
  AnswersStand
  RiskIsSettled
  NarratedOnce
PROPERTIES
  CommandIsSent
  SummaryIsNarrated
