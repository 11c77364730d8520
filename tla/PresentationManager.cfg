SPECIFICATION Spec
CONSTANTS
  QueueCapacity = 1
  FrameCounts = {1, 2}
  MaxPublished = 4
  MaxGeneration = 2
  NoChunk = NoChunk
INVARIANTS ChunksAccounted BlockDropsNothing NothingStalePresented
PROPERTIES FramesInOrder PublishReturns
