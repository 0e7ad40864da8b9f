SPECIFICATION Spec
CONSTANTS
  Order = o
  Updates <- TwoUpdates
  Contents <- TwoContents
  Actions = {a1, a2}
  MaxEvents = 6
  Paced = TRUE
  Grace = TRUE
  Conforming = TRUE
INVARIANTS
  RobotIsCleared
CHECK_DEADLOCK FALSE
