SPECIFICATION Spec
CONSTANTS
    Pipes = {p1}
    Calls = {c1, c2}
    PipeOf <- OnePipe
    IsDurable <- AllDurable
    Runs = {r1, r2}
    Inputs = {i1, i2}
    Versions = {1}
    Code <- CodeRouted
    Nodes <- MCNodes
    Outcomes <- MCOutcomesLax
    Routes <- MCRoutes
    FromSteps <- FromA
    Remote = FALSE
    MaxTrail = 0
    NoRoute = NoRoute
    NoStep = NoStep
    Nothing = Nothing
    Legal <- MCLegal
    Undeclared = Undeclared
    NoError = NoError
CHECK_DEADLOCK FALSE
SYMMETRY MCSymmetry
INVARIANTS
    SingleFlight
    LocksMatchCalls
    CallIsCheckpointed
PROPERTIES
    KeepsContract
