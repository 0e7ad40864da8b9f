SPECIFICATION Spec
CONSTANTS
  Order = o
  Updates <- AllUpdates
  Contents <- AllContents
  Actions = {a1, a2}
  MaxEvents = 5
  Paced = TRUE
  Grace = TRUE
  Conforming = FALSE
INVARIANTS
  SteadyRobotIsCleared
  FleetBlameIsTrue
  LessEvidenceBlamesNobody
  SilenceIsReported
PROPERTIES
  VerdictsAreFinal
  ProvenOrderIsEvaluated
CHECK_DEADLOCK FALSE
