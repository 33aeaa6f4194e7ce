SPECIFICATION Spec
CONSTANTS
    SLI = 1
    PoolSize = 16
    FLCount = 5
    Requests = {1, 2}
    Aligns = {1}
    AnyOrder = TRUE
    MaxLive = 4
INVARIANTS
    CallersDisjoint
