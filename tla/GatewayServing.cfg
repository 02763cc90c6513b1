SPECIFICATION FairSpec
CONSTANTS
  RestartLimit = 1
  Requests = {r1, r2}
  MaxConcurrency = 1
  RateLimit = 2
  Minute = 2
  MaxTime = 3
INVARIANTS OneBackend ReadyIsCurrent StopLeavesNothing AtMostMaxConcurrency RateIsLimited
PROPERTIES LifespanGoesOn
\* A gateway that has ended is the end of the story.
CHECK_DEADLOCK FALSE
