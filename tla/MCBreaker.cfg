SPECIFICATION FairSpec
CONSTANTS
    Calls = {c1, c2, c3}
    FailureThreshold = 2
    RecoveryTimeout = 2
    Escapes = {"plain"}
    NotOpened = NotOpened
CHECK_DEADLOCK FALSE
INVARIANTS
    OneProbe
    StateCoherent
PROPERTIES
    NeverLockedOut
