CONSTANTS
    Leases = {l1, l2, l3}
    NoLease = NoLease
    Relay = TRUE
    Ladder = 1
    MaxCalls = 3
    MaxLosses = 1
    MaxRefreshes = 1
SPECIFICATION Spec
INVARIANTS TypeOK NoSignalLost LeasesOwned
PROPERTIES DeadSessionFound ImplementsEnvironmentSession
CHECK_DEADLOCK FALSE
