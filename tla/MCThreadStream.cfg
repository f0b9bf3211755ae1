CONSTANTS
    Calls = {a, b}
    Other = other
    MaxItems = 3
    MaxPending = 3
    MaxReplay = 2
    MaxEvents = 4
    MaxDisturbances = 1
SPECIFICATION Spec
INVARIANTS TypeOK ChargesHeld PendingHasWindow NothingLost LiveMeansCaughtUp
PROPERTIES Converges
CHECK_DEADLOCK FALSE
