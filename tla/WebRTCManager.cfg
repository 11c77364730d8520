SPECIFICATION Spec
CONSTANTS
  s1 = s1
  s2 = s2
  i1 = i1
  None = None
  Sessions = {s1, s2}
  KeepConnection = {TRUE}
  Inputs = {i1}
  Asks <- MCAsks
INVARIANTS OpenPeerIsActive SlotAccounted ReleasedAfterCleanup
PROPERTIES LockDrains
