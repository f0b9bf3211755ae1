CONSTANTS
    CommandIds = {cmd1, cmd2}
    Aggregates = {thread, project}
    Callers = {c1, c2}
    MaxEventsPerCommand = 2
    ReconcileReadLimit = 2
    ReconcileMayFail = TRUE
    MaxDispatches = 3
    MaxFaults = 2
    MaxCrashes = 1
CHECK_DEADLOCK FALSE
SPECIFICATION Spec
SYMMETRY Symmetry
INVARIANTS TypeOK ReceiptsMatchLog FeedOrdered
PROPERTIES ImplementsCommandLog NoStaleSettlement
