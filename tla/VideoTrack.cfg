SPECIFICATION Spec
CONSTANTS
  Capacity = 2
  MaxFrames = 4
  MaxClock = 2
CHECK_DEADLOCK FALSE
INVARIANTS FramesAccounted DrainedExactly
PROPERTIES ImplementsMailbox
