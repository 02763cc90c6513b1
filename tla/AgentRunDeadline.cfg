SPECIFICATION Spec
CONSTANTS
  r = r
  r2 = r2
  w = w
  w2 = w2
  f = f
  NoCall = NoCall
  Calls <- TwoCalls
  ApprovalCalls <- OneWrite
  Sig <- OwnSig
  Files <- OneFile
  File <- SameFile
  Batches <- SingleCalls
  Deadline = 1
  MaxTime = 2
  MaxCrashes = 0
  MaxSteps = 2
  MaxToolCalls = 2
  StepField = 3
  CallField = 3
  RepeatLimit = 2
INVARIANTS RecordWithinDeadline
\* A terminal run, and a corrupt record after a crash, are ends of the story.
CHECK_DEADLOCK FALSE
