SPECIFICATION Spec
CONSTANTS
  UiReader = 0
  ModelReader = 1
  CloseEvent = CloseEvent
  ResetEvent = ResetEvent
  OtherEvent = OtherEvent
  Timestamp <- MCTimestamp
  Batches <- MCBatches
  UiKinds = {"blit", "interactive"}
  BackpressureModes = {"BLOCK", "DROP_OLDEST"}
  PresentationModes = {"ON_DEMAND", "CONTINUOUS"}
  NoLimit = NoLimit
  StepLimits = {NoLimit, 1}
  Deadlines = {"none", "ahead"}
  FrameCounts = {1, 2}
  NoChunk = NoChunk
  MaxLog = 2
  MaxSteps = 2
  MaxWrites = 5
  MaxFailures = 2
CONSTRAINT TwoFamilies
INVARIANTS
  WindowOwnership
  TeardownAfterModel
  NoSilentFailure
  CloseCancelsReplacement
  FileRunWritesEveryFrame
PROPERTY KeepsManagerContract
