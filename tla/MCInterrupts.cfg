SPECIFICATION Spec
CONSTANTS
    Devices = {0, 4, 7, 15}
    Flaky = {7, 15}
    MaskLines = {0}
    UnmaskLines = {0, 7, 15}
    RegLines = {0}
    Callbacks = {"fb", "serial", "once", "mask"}
    MaxSleep = 2
    MaxNest = 2
INVARIANTS
    InServiceMatches
    GuardsNest
PROPERTIES
    MasksStick
    HandlersEnd
    SleepEnds
    CallbackReached
