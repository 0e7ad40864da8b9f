SPECIFICATION Spec
CONSTANTS
  NumRobots = 1
  FaultTarget = 0
  MaxBatches = 2
  MaxTick = 3
  PollPeriod = 1
  FaultTick = 1
  OutageTicks = 1
  MaxEnvFaults = 0
  DeadlineCanExpire = FALSE
INVARIANTS
  AllBatchesTraverseMqtt
