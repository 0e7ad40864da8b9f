SPECIFICATION Spec
CONSTANTS
  Order = o
  Updates <- OneUpdate
  Contents <- TwoContents
  Actions = {a1, a2}
  MaxEvents = 5
  Paced = FALSE
  Grace = TRUE
  Conforming = TRUE
INVARIANTS
  RobotIsCleared
CHECK_DEADLOCK FALSE
