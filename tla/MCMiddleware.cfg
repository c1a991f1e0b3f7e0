SPECIFICATION FairSpec
CONSTANTS
    Calls = {c1, c2}
    Chains <- MCChains
    Stages <- MCStages
    NameOf <- MCNameOf
    Streaming = {"chat"}
    Snapshots <- MCSnapshots
    Requests <- MCRequests
    Raised = {"Listed", "Other"}
    RetryOn = {"Listed", "CircuitOpenError", "AttributeError"}
    TripOn = {"Listed"}
    MaxAttempts = 2
    BaseDelay = 1
    Ttl = 2
    Second = 2
    RpsNum = 3
    RpsDen = 2
    FailureThreshold = 2
    RecoveryTimeout = 1
    NotOpened = NotOpened
    Nothing = Nothing
CHECK_DEADLOCK FALSE
INVARIANTS
    TypeOK
    RateHonoured
    CacheHonest
    RetryHonest
PROPERTIES
    DrivesBreaker
    EveryCallEnds
