CONSTANTS
  Length = 4
  Conversations <- MCConversations
SPECIFICATION FairWireSpec
INVARIANTS
  LinesAreFree
  HeardIsGenuine
  OneBitApart
PROPERTIES
  ImplementsChannel
  EveryoneStops
CHECK_DEADLOCK FALSE
