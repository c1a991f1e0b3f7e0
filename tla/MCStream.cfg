SPECIFICATION FairSpec
CONSTANTS
    Stages = {s1}
    InnerSize = 2
    OuterSize = 1
    Faults = {"raise", "timeout", "callback", "close", "again"}
    MaxChunks <- MCChunks
    ManyChunks = 6
CHECK_DEADLOCK FALSE
INVARIANTS
    TypeOK
    Backpressure
    NoTaskOutlivesCall
PROPERTIES
    KeepsContract
    StreamEnds
    CloseReturnsOrWaits
    FaultSurfacesOrWaits
