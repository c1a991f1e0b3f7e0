SPECIFICATION MCSpec
CONSTANTS
    Undeclared = Undeclared
    NoError = NoError
    Keys <- MCKeys
    Nodes <- MCNodes
    Routes <- MCRoutes
    MaxNodes = 4
    MaxCached = 3
    Runs = {r1, r2}
SYMMETRY MCSymmetry
CHECK_DEADLOCK FALSE
INVARIANTS
    CodeWellFormed
    CompiledMeansWritten
    AutoAddsNoError
    ConflictsCaught
    BlocksMerge
    CachedMeansWritten
