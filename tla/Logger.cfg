SPECIFICATION Spec
CONSTANTS
    t1 = t1
    t2 = t2
    l1 = l1
    l2 = l2
    Threads <- MCThreads
    Loggers <- MCLoggers
    None = None
    BufferSize = 2
    Texts = {0, 1}
    Frames = {1}
    MaxCalls = 2
    MaxFaults = 1
INVARIANTS
    EntriesWhole
    ReturnedIsWritten
    ShortLinesWhole
    AllOrNothing
PROPERTIES
    CallsReturn
CHECK_DEADLOCK FALSE
