CONSTANTS
  NumPlans = 3
  PromptOf <- MCPromptOf
  SplitOf <- MCSplitOf
  SplitOrder <- MCSplitOrder
  NumCameras = 2
  MaxAttempt = 2
  Budgets = {1, 2}
  MaxStarts = 3
  MaxCrashes = 2
  MaxSaveDeaths = 0
SPECIFICATION Spec
INVARIANTS
  TypeOK
  RecordedSuccessIsOnDisk
  MetadataFollowsEpisodes
  NoPlanTwice
  ManifestAgrees
  RefusalHasACause
  RandomizedSplitsTrue
PROPERTY
  RefinesLedger
