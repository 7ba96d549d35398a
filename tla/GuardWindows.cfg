SPECIFICATION Spec
CONSTANTS
  Sources = {s1, s2, s3}
  Requests = {r1, r2}
  Limit = 2
  Window = 2
  MaxSources = 2
  LowSources = 1
  MaxBody = 2
  Lengths = {1, 3}
  NoLength = NoLength
  BadLength = BadLength
  MaxClock = 4
  MaxAttempts = 5
SYMMETRY Symmetry
CHECK_DEADLOCK FALSE
INVARIANTS
  WindowLimit
  AnsweredOnce
PROPERTIES
  TrimmedWhatItCould
  ImplementsRateLimit
