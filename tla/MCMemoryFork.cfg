SPECIFICATION Spec
CONSTANTS
    Procs = {"p1", "p2"}
    First = "p1"
    Sizes = {7, 8, 11, 12, 13, 14, 15, 16, 21}
    PGSIZE = 2
    Fanout = 2
    MAXARG = 2
    MaxSize = 4
    MaxSegments = 1
    MaxCalls = 3
INVARIANT ForkFailsGracefully
