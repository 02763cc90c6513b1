SPECIFICATION TaskSpec
CONSTANTS
  r = r
  r2 = r2
  w = w
  w2 = w2
  f = f
  NoCall = NoCall
  Calls <- FourCalls
  ApprovalCalls <- TwoWrites
  Sig <- SharedSig
  Files <- OneFile
  File <- SameFile
  Batches <- PairCalls
  Deadline = 1
  MaxTime = 1
  MaxCrashes = 0
  MaxSteps = 3
  MaxToolCalls = 3
  StepField = 3
  CallField = 3
  RepeatLimit = 2
INVARIANTS ToolCallsCounted ActiveRunHasTask OutcomeIsLast SuccessfulReadOnce
PROPERTIES ActiveRunSettles
\* A terminal run is the end of the story.
CHECK_DEADLOCK FALSE
