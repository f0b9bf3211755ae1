SPECIFICATION Spec
CONSTANTS
    Approvals = {}
    Questions = {question}
    Offers = {}
    ActivityWindow = 8
    MaxVersion = 4
    MaxRestarts = 1
INVARIANTS SettledHidesNoWork
CHECK_DEADLOCK FALSE
