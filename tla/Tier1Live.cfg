SPECIFICATION FairSpec
CONSTANTS
  NumRobots = 2
  Jobs <- AllJobs
INVARIANTS
  EpochsAreTrue
  WrittenIsComplete
  CaptureIsCausal
  DiagnosisIsTrue
  HeaderIdsIncrease
  BudgetSuffices
PROPERTIES
  RunEnds
