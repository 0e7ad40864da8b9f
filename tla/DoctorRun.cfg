SPECIFICATION Spec
CONSTANTS
    MaxLines = 4
    MaxRecords = 3
    Limit = 7
    MessageCost = 2
    Reserve = 2
INVARIANTS
    RetainedStaysWithinLimit
    NoLineIsLost
    ValidIsComplete
    FleetBlameCoversTheFile
CHECK_DEADLOCK FALSE
