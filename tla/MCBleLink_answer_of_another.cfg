CONSTANTS
  MaxLen = 2
  SessionLimit = 65535
  PhoneSessionBase = 32768
  AckRetries = 2
  WriteAttempts = 3
  MaxDrops = 0
  MaxMishaps = 0
  MaxTimers = 0
  ReplyLen = 1
  MaxUpdates = 1
  RequestLens = {1}
  ReplyKinds = {"reply"}
  UpdateKinds = {"update"}
  MaxRequests = 2
  MaxPowerCycles = 0
  PhoneIsSlow = FALSE
  CalculatorLeaves = FALSE
SPECIFICATION Spec
INVARIANTS
  AnswerBelongsToRequest
CHECK_DEADLOCK FALSE
