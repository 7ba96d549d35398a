SPECIFICATION Spec
CONSTANTS
  Connections = {s1}
  Afters <- MCAfters
  MaxEventRows = 3
  BatchSize = 2
  MaxEvents = 6
  WireSize = 2
  None = None
INVARIANTS NothingPassedOver FreshStartsNow
PROPERTY HistoryGapExact
CHECK_DEADLOCK FALSE
