CONSTANTS
  MaxChats = 2
  ClientIds = {m1}
  Sessions = {s1, s2}
  Targets <- MCOneChat
  Commands = {"SEND"}
  MaxCalls = 2
  MaxEdits = 0
  MaxTime = 1
  MaxRestarts = 0
  PlainReplies = TRUE
  m1 = m1
  s1 = s1
  s2 = s2
SPECIFICATION Spec
INVARIANTS
  ProviderCalledOnce
CHECK_DEADLOCK FALSE
