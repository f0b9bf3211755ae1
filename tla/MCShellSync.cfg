CONSTANTS
    Aggregates = {a1, a2}
    MaxReplayGap = 1
    MaxEvents = 3
    MaxSessions = 2
    MaxDisturbances = 2
SPECIFICATION Spec
SYMMETRY Symmetry
INVARIANTS TypeOK ResumeLosesNothing LiveMeansSynchronized
PROPERTIES BackwardsOnlyByRemoval
CHECK_DEADLOCK FALSE
