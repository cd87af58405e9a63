\* No symmetry: liveness is checked.
CONSTANTS
    Calls = {c1, c2}
    Workers = {w1}
    MaxCalls = 1
    JobsCap = 1
    UrgentCap = 1
    FailuresCap = 1
    MaxGeneration = 2
    MaxConnects = 1
    MaxActive = 2
    Adaptive = TRUE
SPECIFICATION FairSpec
PROPERTIES QuotaReturned
CHECK_DEADLOCK FALSE
