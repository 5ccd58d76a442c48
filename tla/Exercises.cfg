SPECIFICATION Spec
CONSTANTS
    Jobs <- MCJobs
    Slash <- MCSlash
    Fold <- MCFold
    MAX_BACK_OFFSET = 3
    MAX_EXACT = 60
    BUFFER_SIZE = 4
INVARIANTS
    ResourcesReleased
    TextRecoverable
    ViewMirrorsDirectory
    ListedInOrder
    StatsRight
    AnswerPrinted
PROPERTIES
    EveryProgramEnds
CHECK_DEADLOCK FALSE
