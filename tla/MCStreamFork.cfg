SPECIFICATION FairSpec
CONSTANTS
    Stages = {s1, s2}
    InnerSize = 1
    OuterSize = 1
    Faults = {"raise", "close"}
    MaxChunks <- MCChunks
    ManyChunks = 2
CHECK_DEADLOCK FALSE
INVARIANTS
    NoTaskOutlivesCall
PROPERTIES
    KeepsContract
    StreamEnds
    CloseReturnsOrWaits
