\* Two forks of leg B ring and answer; the connection of either leg may close.
CONSTANTS
    Calls = {c1}
    Workers = {w1}
    MaxCalls = 1
    JobsCap = 1
    UrgentCap = 1
    FailuresCap = 1
    MaxGeneration = 1
    MaxConnects = 1
    MaxActive = 1
    Adaptive = FALSE
    Tags = {t1, t2}
    NoTag = NoTag
    MaxForkCleanups = 1
    MaxTransactions = 2
    MaxChallenges = 0
    Kinds = {"bridge"}
    Streamed = {"A", "B"}
    WellBehaved = TRUE
SPECIFICATION ControlSpec
SYMMETRY TagSymmetry
INVARIANTS
    AnsweredLegAIsReleased
    AnsweredLegBIsReleasedUnlessCancelled
CHECK_DEADLOCK FALSE
