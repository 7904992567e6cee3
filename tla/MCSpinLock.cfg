CONSTANTS
    CPUs = {c1, c2}
    Locks = {1, 2}
    NoCpu = NoCpu
    MaxOff = 1
    ProcessLocks = {2}
    Threads = {t1}
    Scheduler = Scheduler
SPECIFICATION FairSpec
INVARIANTS
    AssertionsHold
    NoInterruptInCriticalSection
    InterruptsRestored
PROPERTIES
    SomeoneAcquires
    ImplementsAbstractLock
