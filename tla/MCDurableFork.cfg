SPECIFICATION Spec
CONSTANTS
    Pipes = {p1}
    Calls = {c1}
    PipeOf <- OnePipe
    IsDurable <- AllDurable
    Runs = {r1}
    Inputs = {i1}
    Versions = {1}
    Code <- CodeJoined
    Nodes <- MCNodes
    Outcomes <- MCOutcomes
    Routes <- MCRoutes
    FromSteps <- NoSteps
    Remote = FALSE
    MaxTrail = 0
    NoRoute = NoRoute
    NoStep = NoStep
    Nothing = Nothing
    Legal <- MCLegal
    Undeclared = Undeclared
    NoError = NoError
CHECK_DEADLOCK FALSE
INVARIANT
    ForkIsCheckpointed
