SPECIFICATION MCBusySpec
CONSTANTS
    Stages = {s1}
    InnerSize = 1
    OuterSize = 1
    Faults = {"close"}
    MaxChunks <- MCChunks
    ManyChunks = 3
CHECK_DEADLOCK FALSE
PROPERTIES
    CloseReturns
