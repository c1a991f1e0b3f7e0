SPECIFICATION MCRetrySpec
CONSTANTS
    Pipes = {p1}
    Calls = {c1, c2}
    PipeOf <- OnePipe
    IsDurable <- AllDurable
    Runs = {r1}
    Inputs = {i1, i2}
    Versions = {1}
    Code <- CodeRouted
    Nodes <- MCNodes
    Outcomes <- MCOutcomesLax
    Routes <- MCRoutes
    FromSteps <- FromA
    Remote = TRUE
    MaxTrail = 4
    NoRoute = NoRoute
    NoStep = NoStep
    Nothing = Nothing
    Root = Root
    Legal <- MCLegal
    Undeclared = Undeclared
    NoError = NoError
CHECK_DEADLOCK FALSE
INVARIANTS
    StoredIsPast
    SpansClosed
    EndsWhatItStarted
PROPERTIES
    KeepsContract
    CheckpointAdvances
    CallsEnd
    ResumeCompletes
