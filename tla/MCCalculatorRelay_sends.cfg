CONSTANTS
  MaxChats = 2
  ClientIds = {m1}
  Sessions = {s1, s2}
  Targets <- MCOneChat
  Commands = {"SEND", "POLL"}
  MaxCalls = 2
  MaxEdits = 0
  MaxTime = 2
  MaxRestarts = 0
  PlainReplies = FALSE
  m1 = m1
  s1 = s1
  s2 = s2
SPECIFICATION FairSpec
INVARIANTS
  TypeOK
  PageCoversItsRevision
PROPERTIES
  AnsweredMessageIsNotResubmitted
  DispatchedMessagesSettle
CHECK_DEADLOCK FALSE
