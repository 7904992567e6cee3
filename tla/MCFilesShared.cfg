SPECIFICATION Spec
CONSTANTS
    Procs = {p1, p2}
    None = none
    First = p1
    SIZE = 2
    INPUT_BUF_LEN = 2
    MaxKeys = 3
    NOFILE = 3
    Amounts = {1, 3}
    MaxChunk = 2
    MaxTicks = 2
    MaxCalls = 4
    MaxConsoleCalls = 4
INVARIANT
    SharedWritesKept
CHECK_DEADLOCK FALSE
