SPECIFICATION Pairs
CONSTANTS
    SLI = 5
    MinSize = 32
    MaxSize = 2304
    Grain = 8
INVARIANTS
    SearchedClassFits
    SearchMissesLittle
