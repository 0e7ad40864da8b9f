SPECIFICATION Spec
CONSTANTS
  FaultTick = 1
  OutageTicks = 1
  StatePeriod = 2
  Jobs <- AllJobs
INVARIANTS
  EpochsAreTrue
  SealedIsAnswered
  ReferencesAreCaptured
  HeaderIdsIncrease
  DiagnosisIsTrue
