SPECIFICATION Spec
CONSTANTS
    MaxTurns = 2
    MaxCount = 2
    MaxReverts = 1
    MaxFaults = 1
INVARIANTS RefsHoldTheirTurn PlaceholdersGetCaptured
CHECK_DEADLOCK FALSE
