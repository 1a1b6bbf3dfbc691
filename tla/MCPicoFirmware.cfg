CONSTANTS
  Frames <- MCFrames
  Opaque <- MCOpaque
  MaxBridged = 2
  MaxFrames = 3
  MaxBreaks = 1
  MaxCatalogs = 2
  BadCatalogs = {2}
  MaxRelays = 3
  MaxResets = 1
  Seed <- MCSeed
  Window = 2
  MaxFailures = 1
SPECIFICATION Spec
INVARIANTS
  TypeOK
  
  AnswersFollowTheirCatalog
  StoreMatchesMemory
  PromptsAreAnswered
  ChatsAreAddressable
CHECK_DEADLOCK FALSE
