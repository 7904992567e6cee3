CONSTANTS
    N = 3
    CPUs = {c1, c2}
    NoCpu = NoCpu
    MaxPid = 3
    KillPids = {0, 2}
    FaultPids = {2}
    FilePids = {2}
    MaxFail = 0
SPECIFICATION Spec
SYMMETRY Symmetry
INVARIANTS
    StacksNotShared
    AssertionsHold
    LockOrder
    NoLostWakeup
    ParentsAlive
    KilledByKill
CHECK_DEADLOCK FALSE
