CONSTANTS
  NumPlans = 2
  PromptOf <- MCPromptOf
  NumCameras = 2
  MaxAttempt = 4
  PerConfig = 2
  MaxTries = 2
  MaxStarts = 2
  MaxCrashes = 1
  MaxSaveDeaths = 1
SPECIFICATION Spec
INVARIANTS
  DriftHasACause
  SeedReuseNeedsCrash
PROPERTY
  BlockRunEnds
