CONSTANTS
  Horizon = 2
  MaxSteps = 5
  HoldLimit = 1
  Wall = 1
  MaxWork = 2
SPECIFICATION Spec
INVARIANTS
  RowsAreFresh
  BlockedNeverCommanded
  FeedbackAddsUp
  SavedArraysFit
  NeverHurries
PROPERTY
  HoldIsFixed
