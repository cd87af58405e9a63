\* The claim of docs/architecture.md about quota and processes.
CONSTANTS
    Calls = {c1, c2}
    Workers = {w1}
    MaxCalls = 1
    JobsCap = 1
    UrgentCap = 1
    FailuresCap = 1
    MaxGeneration = 2
    MaxConnects = 0
    MaxActive = 2
    Adaptive = FALSE
SPECIFICATION Spec
INVARIANT QuotaHeldUntilProcessEnds
CHECK_DEADLOCK FALSE
