SPECIFICATION Spec
CONSTANTS
    Types = {"usable", "bootloader", "reserved"}
    PageUnits = 2
    Maps <- MCMaps
    Images <- MCImages
    MaxRegions = 5
    HugePages = 2
    Low = 2
    MaxOrder = 3
    Pow2 <- TwoToThe
    BitmapBits = 8
    HeapOrder = 2
    StackOrder = 1
    MaxTables = 2
INVARIANTS
    NothingInUseFree
    DonatedOnce
    AllReclaimed
    PoolMapped
    BootSucceeds
