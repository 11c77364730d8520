SPECIFICATION Spec
CONSTANTS
  UiReader = 0
  ModelReader = 1
  CloseEvent = CloseEvent
  ResetEvent = ResetEvent
  OtherEvent = OtherEvent
  Timestamp <- MCTimestamp
  Batches <- MCCloseBatches
  UiKinds = {"blit", "interactive"}
  BackpressureModes = {"BLOCK"}
  PresentationModes = {"ON_DEMAND"}
  NoLimit = NoLimit
  StepLimits = {NoLimit, 1}
  Deadlines = {"ahead"}
  FrameCounts = {1}
  NoChunk = NoChunk
  MaxLog = 1
  MaxSteps = 2
  MaxWrites = 3
  MaxFailures = 1
PROPERTIES Terminates FiniteRunEnds

