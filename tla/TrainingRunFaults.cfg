SPECIFICATION Spec
CONSTANTS
  MaxSteps = 6
  SaveSteps = 2
  KeepLast = 2
  MaxDamage = 1
  MaxKills = 2
  MaxTerms = 2
  MaxErrors = 1
INVARIANTS LatestIsValid ReportedCheckpointExists TermWithinOneStep DamageIsSurvived
PROPERTIES PinsAreKept ResumeKeepsProgress
\* A run that has reported, or that nothing can resume, is finished.
CHECK_DEADLOCK FALSE
