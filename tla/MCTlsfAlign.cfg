SPECIFICATION Spec
CONSTANTS
    SLI = 1
    PoolSize = 16
    FLCount = 5
    Requests = {1, 2}
    Aligns = {1, 2}
    AnyOrder = FALSE
    MaxLive = 3
INVARIANTS
    PointerLeadsToHeader
