CONSTANTS
  NumPlans = 3
  PromptOf <- MCPromptOf
  SplitOf <- MCSplitOf
  SplitOrder <- MCSplitOrder
  NumCameras = 2
  MaxAttempt = 2
  Budgets = {1, 2}
  MaxStarts = 2
  MaxCrashes = 1
  MaxSaveDeaths = 1
  MaxBuilds = 2
  MaxRepairs = 2
  MaxSamplingAttempts = 2
  MaxTries = 2
  NumSamples = 2
  Jitters = {6, 12}
  PreloadedSets = {{}, {1, 3}}
  NumFiles = 2
  Guards = {1, 2}
  MaxPatches = 2
  SuiteRecords <- MCRecords
  Wanted <- MCWanted
  NumLayouts = 2
  ScoreScale = 12
SPECIFICATION ToolSpec
INVARIANTS
  OutputTrue
  RepairedSplitsTrue
  BatchKeepsFinished
  SchedulesHold
  TrainingHolds
  ScenesHold
PROPERTY
  CompleteIsRebuilt
