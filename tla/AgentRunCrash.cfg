SPECIFICATION FairSpec
CONSTANTS
  r = r
  r2 = r2
  w = w
  w2 = w2
  f = f
  NoCall = NoCall
  Calls <- ThreeCalls
  ApprovalCalls <- TwoWrites
  Sig <- OwnSig
  Files <- OneFile
  File <- SameFile
  Batches <- ReadOrWrites
  Deadline = 1
  MaxTime = 2
  MaxCrashes = 1
  MaxSteps = 1
  MaxToolCalls = 2
  StepField = 3
  CallField = 3
  RepeatLimit = 1
INVARIANTS CursorFollowsLog NoToolLoop CheckpointBehindLog
PROPERTIES FollowsLifecycle EventuallyTerminal
\* A terminal run, and a corrupt record after a crash, are ends of the story.
CHECK_DEADLOCK FALSE
