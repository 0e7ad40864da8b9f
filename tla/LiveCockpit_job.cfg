CHECK_DEADLOCK FALSE
SPECIFICATION FairSpec
CONSTANTS
  NumRobots = 2
  Target = 1
  CrossTick = 1
  MaxTick = 3
  StatePeriod = 4
  VizPeriod = 3
  ArriveTick <- ArriveTicks
  Jobs <- AllJobs
INVARIANTS
  TypeOK
  EpochsAreTrue
  CaptureIsCausal
  SealedCaptureIsComplete
  DiagnosisIsTrue
  RetainedIsCurrent
PROPERTIES
  JobCompletes
