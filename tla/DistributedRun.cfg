SPECIFICATION FairSpec
CONSTANTS
  MaxSteps = 4
  SaveSteps = 2
  KeepLast = 1
  MaxDamage = 1
  WorldSize = 2
  MaxDeaths = 2
  MaxErrors = 1
INVARIANTS MetricsAreCanonical RanksAgree LatestIsValid ReportedCheckpointExists
PROPERTIES ResumeKeepsProgress WorldEnds
