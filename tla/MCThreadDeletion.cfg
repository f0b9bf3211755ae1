CONSTANTS
    Terminals = {t1}
    HistoryLimit = 1
    MaxObjects = 2
    MaxFaults = 2
    MaxEvents = 3
SPECIFICATION Spec
INVARIANTS TypeOK NoInheritedHistory NoOrphanProcess HistoriesGetWritten CleanUpSparesNext
PROPERTY ReopenedInFull
CHECK_DEADLOCK FALSE
