SPECIFICATION Spec
CONSTANTS
  ui = ui
  model = model
  key = key
  reset = reset
  Readers <- MCReaders
  Events <- MCEvents
  ResetEvents <- MCResetEvents
  Timestamp <- MCTimestamp
  Batches <- MCBatches
  Times = {0}
  MaxLog = 4
  MaxGeneration = 2
INVARIANTS CursorsInWindow GenerationMatchesRead
PROPERTY ImplementsEventLog
