CONSTANTS
  Frames <- MCFrames
  Opaque <- MCOpaque
  MaxBridged = 1
  MaxFrames = 1
  MaxBreaks = 1
  MaxCatalogs = 2
  BadCatalogs = {2}
  MaxRelays = 2
  MaxResets = 1
  Seed <- MCSeed
  Window = 2
  MaxFailures = 1
SPECIFICATION Spec
INVARIANTS
  BridgeKeepsRunning
CHECK_DEADLOCK FALSE
