SPECIFICATION FairSpec
CONSTANTS
  MaxSteps = 2
  SaveSteps = 2
  KeepLast = 1
  MaxDamage = 0
  WorldSize = 2
  MaxDeaths = 1
  MaxErrors = 0
PROPERTY FinalWorldSucceeds
