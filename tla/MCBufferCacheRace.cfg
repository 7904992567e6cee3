CONSTANTS
    Users = {u1, u2}
    N = 2
    Blocks = {b1, b2, b3}
    NoBlock = NoBlock
    Shared = {b1}
SPECIFICATION Spec
INVARIANT BlocksCurrent
