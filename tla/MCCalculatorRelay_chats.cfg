CONSTANTS
  MaxChats = 2
  ClientIds = {m1}
  Sessions = {s1, s2}
  Targets <- MCChatSlotAndNew
  Commands = {"LIST", "NEW", "OPEN", "SCROLL", "SEND"}
  MaxCalls = 2
  MaxEdits = 1
  MaxTime = 1
  MaxRestarts = 1
  PlainReplies = TRUE
  m1 = m1
  s1 = s1
  s2 = s2
SPECIFICATION Spec
INVARIANTS
  NewChatsArePinned
  AnswersHaveTheirQuestion
  CompleteMeansAnswered
SYMMETRY MCSymmetry
CHECK_DEADLOCK FALSE
