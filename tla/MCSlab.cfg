SPECIFICATION Spec
CONSTANTS
    Order = 1
    Pow2 <- TwoToThe
    PageUnits = 2
    Stride = 1
    ObjSize = 1
    PageBases = {1, 2}
    NumPages = 6
    MaxAllocs = 9
INVARIANTS
    FreeListSound
    PartialExact
    HeaderRecovered
    PagesAccounted
    NoneOnlyWhenExhausted
PROPERTIES
    SlabImplementsPool
