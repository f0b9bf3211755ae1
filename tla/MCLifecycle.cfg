SPECIFICATION Spec
CONSTANTS
    Approvals = {approval}
    Questions = {question}
    Offers = {offer}
    ActivityWindow = 3
    MaxVersion = 5
    MaxRestarts = 1
INVARIANTS TypeOK SettledIsQuiet  PinnedNotSettled
PROPERTIES AutoSettleHidesNothing CleanUpSparesNewTurns
CHECK_DEADLOCK FALSE
