SPECIFICATION FairSpec
CONSTANTS
  Callers = {u1}
  Collector = collector
  MaxFaults = 1
  MaxChats = 2
CHECK_DEADLOCK FALSE
INVARIANTS
  RememberedIsLogged
  RepliesCounted
PROPERTY RuntimeFollows
