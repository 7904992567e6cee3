CONSTANTS
    Users = {u1, u2}
    N = 3
    Blocks = {b1, b2, b3}
    NoBlock = NoBlock
    Shared = {b1}
SPECIFICATION Spec
SYMMETRY Symmetry
INVARIANTS
    ReferencesExact
    RingIntact
    SleepLockExcludes
    ProtectedBlocksCurrent
