CONSTANTS
  Conns = {1, 2}
  Sizes = {3, 4}
  Oversize = 4
  MaxRequests = 2
  MaxLines = 1
  Permits = 1
  Modes = {"phone", "echo", "llm", "terminal"}
SPECIFICATION FairSpec
INVARIANTS
  TypeOK
  RequestsArriveInOrder
  RepliesArriveWhole
  PermitsAreHeldByCalls
  LinesReachTheLatest
PROPERTIES
  WorkersFinish
CHECK_DEADLOCK FALSE
