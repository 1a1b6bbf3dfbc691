CONSTANTS
  MaxLen = 2
  SessionLimit = 65535
  PhoneSessionBase = 32768
  AckRetries = 2
  WriteAttempts = 3
  MaxDrops = 0
  MaxMishaps = 2
  MaxTimers = 3
  ReplyLen = 1
  MaxUpdates = 0
  RequestLens = {2}
  ReplyKinds = {"reply"}
  UpdateKinds = {"catalogUpdate"}
  MaxRequests = 2
  MaxPowerCycles = 0
  PhoneIsSlow = TRUE
  CalculatorLeaves = TRUE
SPECIFICATION FairSpec
INVARIANTS
  TypeOK
  RequestsArriveOnceInOrder
  ResponsesArriveWholeOnce
PROPERTIES
  AcknowledgedRequestIsAccepted
  AcknowledgedResponseIsCompleted
  EveryRequestEnds
CHECK_DEADLOCK FALSE
