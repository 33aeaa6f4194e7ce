SPECIFICATION Spec
CONSTANTS
    CharW = 2
    CharH = 2
    Geometries <- MCGeometries
    VgaWidth = 2
    VgaHeight = 3
    Printable = {"a"}
    Other = {"0xc3"}
    Strings <- MCStrings
    MaxText = 7
INVARIANTS
    FbShowsText
    NoWildWrites
    VgaShowsText
