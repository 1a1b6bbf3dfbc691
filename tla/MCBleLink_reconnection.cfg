CONSTANTS
  MaxLen = 2
  SessionLimit = 65535
  PhoneSessionBase = 32768
  AckRetries = 2
  WriteAttempts = 3
  MaxDrops = 2
  MaxMishaps = 0
  MaxTimers = 1
  ReplyLen = 1
  MaxUpdates = 1
  RequestLens = {0, 2}
  ReplyKinds = {"reply"}
  UpdateKinds = {"catalogUpdate"}
  MaxRequests = 2
  MaxPowerCycles = 1
  PhoneIsSlow = TRUE
  CalculatorLeaves = TRUE
SPECIFICATION Spec
INVARIANTS
  RequestsArriveWhole
  AnswersMatchUntilDisturbed
CHECK_DEADLOCK FALSE
