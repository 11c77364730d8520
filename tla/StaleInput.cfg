SPECIFICATION Spec
CONSTANTS
  Peers = {p1, p2, p3}
  None = None
  Server = Server
  MaxSessions = 2
  MaxEvents = 2
CHECK_DEADLOCK FALSE
INVARIANT NoInputOfCompletedUi
