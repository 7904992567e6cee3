CONSTANTS
    Procs = {p1, p2}
    Blocks = {b1, b2}
    Vals = {0, 1}
    InitVal = 0
    MaxOpBlocks = 1
    LogSize = 3
    NLog = 3
    Nesting = {p1, p2}
    MaxCrash = 2
SPECIFICATION FairSpec
INVARIANTS
    DurableOnReturn
    ReservationSuffices
PROPERTIES
    ImplementsAtomicDisk
    SleepersWoken
CHECK_DEADLOCK FALSE
