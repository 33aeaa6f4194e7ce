SPECIFICATION FairSpec
CONSTANTS
    MaxOrder = 3
    Pow2 <- TwoToThe
    BitmapBits = 3
    Bases = {1}
    MaxAddr = 9
    MaxRegions = 2
    MaxAllocs = 3
INVARIANTS
    NoOverlap
    NoPageLost
    BitIsOneFreeBuddy
    IndInv
    UnlinksOnlyFreeBuddy
    CoalescedUpToSeams
    StatsExact
PROPERTIES
    RefinesPageAllocator
    OperationsEnd
    PanicsOnlyPastBitmap
