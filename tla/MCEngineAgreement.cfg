CONSTANTS
    CommandIds = {cmd1, cmd2}
    Aggregates = {thread}
    Callers = {c1, c2}
    MaxEventsPerCommand = 2
    ReconcileReadLimit = 2
    ReconcileMayFail = FALSE
    MaxDispatches = 3
    MaxFaults = 2
    MaxCrashes = 1
CHECK_DEADLOCK FALSE
SPECIFICATION FairSpec
INVARIANTS ReadModelAgrees FeedComplete ReadYourWrites
PROPERTIES EveryCallerAnswered
