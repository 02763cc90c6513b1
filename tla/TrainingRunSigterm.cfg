SPECIFICATION Spec
CONSTANTS
  MaxSteps = 4
  SaveSteps = 2
  KeepLast = 2
  MaxDamage = 0
  MaxKills = 0
  MaxTerms = 1
  MaxErrors = 0
INVARIANTS NoSaveCollides
\* A run that has reported, or that nothing can resume, is finished.
CHECK_DEADLOCK FALSE
