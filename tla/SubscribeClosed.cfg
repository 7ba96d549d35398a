SPECIFICATION Spec
CONSTANTS
  Sockets = {s1, s2}
  InitialCursor = 0
  MaxAttempts = 2
  Cursors = {0, 1}
  None = None
INVARIANT CloseLetsGo
CHECK_DEADLOCK FALSE
