\* The bounds of the clock, the runs and the faults stop the model in the end.
CHECK_DEADLOCK FALSE
SPECIFICATION FairSpec
CONSTANTS
  Keys = {k}
  MaxRuns = 2
  Life = 1
  MaxLines = 2
  MaxTime = 2
  MaxFaults = 2
INVARIANTS TypeOK KeyNamesOneRun RunsPerKey StreamSendsAll ToldRunHasTask
PROPERTY ToldRunEnds
