SPECIFICATION Spec
CONSTANTS
  RestartLimit = 0
  Requests = {r1, r2}
  MaxConcurrency = 1
  RateLimit = 2
  Minute = 2
  MaxTime = 0
INVARIANTS InflightIsCurrent
CHECK_DEADLOCK FALSE
