CONSTANTS
    Aggregates = {a1, a2}
    MaxReplayGap = 1
    MaxEvents = 2
    MaxSessions = 2
    MaxDisturbances = 1
SPECIFICATION FairSpec
PROPERTIES Converges
CHECK_DEADLOCK FALSE
