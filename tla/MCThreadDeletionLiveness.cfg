CONSTANTS
    Terminals = {t1}
    HistoryLimit = 1
    MaxObjects = 1
    MaxFaults = 2
    MaxEvents = 3
SPECIFICATION Spec
PROPERTY CreateReturns
CHECK_DEADLOCK FALSE
