SPECIFICATION FairSpec
CONSTANTS
  Sockets = {s1, s2}
  InitialCursor = 0
  MaxAttempts = 1
  MaxEventRows = 2
  BatchSize = 2
  MaxEvents = 3
  WireSize = 1
  MaxFaults = 1
  None = None
INVARIANTS NothingMissed NoneRejected NeverAhead SocketOrTimer
PROPERTIES ImplementsFeed StopIsFinal EventsArrive
CHECK_DEADLOCK FALSE
