CONSTANTS
  Requests = {r1, r2, r3}
  Keys = {k1, k2}
  Ids = {i1}
  Texts = {t1, t2}
  Chats = {c1, c2, c3}
  MaxPinned = 2
  MaxCrashes = 1
  None = None
  r1 = r1
  r2 = r2
  r3 = r3
  k1 = k1
  k2 = k2
  i1 = i1
  t1 = t1
  t2 = t2
  c1 = c1
  c2 = c2
  c3 = c3
SPECIFICATION Spec
INVARIANTS
  OneAnswerPerKey
  PinsAreOfOnePut
PROPERTIES
  RecordsAreKept
CHECK_DEADLOCK FALSE
