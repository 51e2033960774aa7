CONSTANTS
  NumPlans = 3
  PromptOf <- MCPromptOf
  SplitOf <- MCSplitOf
  SplitOrder <- MCSplitOrder
  NumCameras = 2
  MaxAttempt = 2
  Budgets = {1, 2}
  MaxStarts = 2
  MaxCrashes = 1
  MaxSaveDeaths = 0
SPECIFICATION Spec
INVARIANT FinalSplitsTrue
