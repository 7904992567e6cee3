CONSTANTS
    Procs = {p1, p2, p3}
    NoProc = NoProc
    D = 7
    W = 14
    Start = 12
    MaxReq = 4
SPECIFICATION FairSpec
CHECK_DEADLOCK FALSE
INVARIANTS
    RequestsIntact
    NoDescriptorDeadlock
PROPERTY
    RequestsFinish
