\* Liveness under the timers of the call loop; no symmetry.
CONSTANTS
    Calls = {c1}
    Workers = {w1}
    MaxCalls = 1
    JobsCap = 1
    UrgentCap = 1
    FailuresCap = 1
    MaxGeneration = 1
    MaxConnects = 1
    MaxActive = 1
    Adaptive = FALSE
    Tags = {t1}
    NoTag = NoTag
    MaxForkCleanups = 1
    MaxTransactions = 2
    MaxChallenges = 1
    Kinds = {"bridge", "local", "dialplan"}
    Streamed = {}
    WellBehaved = FALSE
SPECIFICATION FairControlSpec
PROPERTIES
    EveryCallForgotten
    DrainEnds
CHECK_DEADLOCK FALSE
