SPECIFICATION FairSpec
CONSTANTS
  NumRobots = 2
  FaultTarget = 0
  MaxBatches = 2
  MaxTick = 3
  PollPeriod = 1
  FaultTick = 1
  OutageTicks = 1
  MaxEnvFaults = 1
  DeadlineCanExpire = TRUE
INVARIANTS
  DeliveriesAreExpected
  OutageSparesOrders
  PublishedIsOnItsWay
  AcceptedRunsAreComplete
  IInv
PROPERTIES
  BridgeFinishes
  FaultIsInjected
  CausalGateHolds
