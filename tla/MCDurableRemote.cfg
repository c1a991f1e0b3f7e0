SPECIFICATION Spec
CONSTANTS
    Pipes = {p1, p2}
    Calls = {c1, c2}
    PipeOf <- EachItsPipe
    IsDurable <- OneDurable
    Runs = {r1}
    Inputs = {i1}
    Versions = {1, 2}
    Code <- CodeTwo
    Nodes <- MCNodes
    Outcomes <- MCOutcomesLax
    Routes <- MCRoutes
    FromSteps <- NoSteps
    Remote = TRUE
    MaxTrail = 0
    NoRoute = NoRoute
    NoStep = NoStep
    Nothing = Nothing
    Legal <- MCLegal
    Undeclared = Undeclared
    NoError = NoError
CHECK_DEADLOCK FALSE
INVARIANTS
    TypeOK
    LegalRuns
    NoStaleCode
