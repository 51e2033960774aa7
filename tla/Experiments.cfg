CONSTANTS
  NTrials = 2
  Lifts = {2}
  Revisions = {"rev1", "rev2"}
  Conditions <- MCConditions
  Horizon = 1
  MaxSteps = 2
  HoldSteps = 2
  MaxStarts = 2
SPECIFICATION Spec
INVARIANTS
  NoTrialTwice
  OwnTrialOnly
  FilesOfItsRecord
  ContactStops
  ReportCounts
  ReadersReadTheirRecord
