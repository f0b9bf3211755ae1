SPECIFICATION Spec
CONSTANTS
    MaxTurns = 1
    MaxCount = 2
    MaxReverts = 0
    MaxFaults = 0
PROPERTIES PlaceholdersSpareCaptures
CHECK_DEADLOCK FALSE
