\* Two calls compete for the single slot of one worker that is replaced once.
CONSTANTS
    Calls = {c1, c2}
    Workers = {w1}
    MaxCalls = 1
    JobsCap = 1
    UrgentCap = 1
    FailuresCap = 1
    MaxGeneration = 2
    MaxConnects = 2
    MaxActive = 2
    Adaptive = FALSE
SPECIFICATION Spec
SYMMETRY CallSymmetry
INVARIANTS
    TypeOK
    QuotaAccounting
    LiveCallsReserved
    PortsCovered
    WorkerWithinCapacity
    QueuesAreCurrent
    TeardownDriven
    LatestTargetInstalled
PROPERTY ImplementsQuota
CHECK_DEADLOCK FALSE
