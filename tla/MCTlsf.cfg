SPECIFICATION Spec
CONSTANTS
    SLI = 1
    PoolSize = 11
    FLCount = 5
    Requests = {1, 2, 3, 32}
    Aligns = {1}
    AnyOrder = FALSE
    MaxLive = 4
INVARIANTS
    PoolTiled
    ListsMatchPool
    PanicsOnlyOverSize
PROPERTIES
    TlsfImplementsPool
