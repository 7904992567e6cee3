SPECIFICATION Spec
CONSTANTS
    Procs = {p1, p2}
    NInodes = 4
    NBlocks = 3
    Slots = {1, 2, 3}
    None = none
    Paths <- MCPaths
    FirstName <- A
    Calls = {"open", "create", "mkdir", "link", "unlink", "chdir", "write"}
    NDIRECT = 1
    MAXFILE = 2
    MaxChunk = 2
    PerBlock = 3
    MaxCalls = 3
SYMMETRY Symmetry
INVARIANTS
    EntriesBacked
    ReferencesCovered
    CacheCoherent
    BlocksOwnedOnce
    AssertionsHold
    NoLockCycle
