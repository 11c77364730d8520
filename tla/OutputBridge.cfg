SPECIFICATION BridgeSpec
CONSTANTS
  MaxPending = 2
  MaxSize = 2
  FrameCount = 2
  CloseTrack = {TRUE, FALSE}
  MaxChunks = 4
  MaxGenerations = 1
CHECK_DEADLOCK FALSE
INVARIANTS NoDeliveryEscapes OldGenerationLeavesTrack
PROPERTIES TrackKeepsOrder ClosedDrains
