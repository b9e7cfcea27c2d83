SPECIFICATION Spec
CONSTANTS
    Processes = {p1, p2}
    Conns = {c1, c2, c3, c4, c5}
    None = None
    PoolSize = 2
    MaxOverflow = 1
    MaxDepth = 2
INVARIANTS
    TypeOK
PROPERTIES
    OneBuilderWithinPool
