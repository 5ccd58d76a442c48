SPECIFICATION Spec
CONSTANTS
    Jobs <- IntegerJobs
    Slash <- MCSlash
    Fold <- MCFold
    MAX_BACK_OFFSET = 3
    MAX_EXACT = 60
    BUFFER_SIZE = 4
INVARIANTS
    StatsAsPromised
CHECK_DEADLOCK FALSE
