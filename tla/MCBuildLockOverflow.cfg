SPECIFICATION Spec
CONSTANTS
    Processes = {p1, p2}
    Conns = {c1, c2, c3, c4, c5, c6}
    None = None
    PoolSize = 2
    MaxOverflow = 1
    MaxDepth = 3
SYMMETRY LockSymmetry
INVARIANTS
    OneProcessBuilds
