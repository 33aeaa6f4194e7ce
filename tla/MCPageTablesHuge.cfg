CONSTANTS
    Fan = 4
    RamFrames = 24
    MapEnd = 48
    LimineHuge = TRUE
    LimineRoot = 0
    LimineMem <- MCLimineMem
    LimineFrames <- MCLimineFrames
    Lapic = 40
    Fb = 44
    RunPages = {1, 128}
    RunFrames = {3}
    TlbPages = {1, 64}
    MmioLens = {2}
    HogSizes = {0, 1, 2}
SPECIFICATION Spec
INVARIANT MapTakesEffect
