CONSTANTS
    N = 3
    CPUs = {c1, c2}
    NoCpu = NoCpu
    MaxPid = 4
    KillPids = {}
    FaultPids = {}
    FilePids = {}
    MaxFail = 1
SPECIFICATION TimerSpec
INVARIANTS
    AssertionsHold
PROPERTIES
    RunnableRuns
    EveryProcessReaped
