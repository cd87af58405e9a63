\* One call of every kind; early media and answer compete for the media.
CONSTANTS
    Calls = {c1}
    Workers = {w1}
    MaxCalls = 1
    JobsCap = 1
    UrgentCap = 1
    FailuresCap = 1
    MaxGeneration = 1
    MaxConnects = 2
    MaxActive = 1
    Adaptive = FALSE
    Tags = {t1}
    NoTag = NoTag
    MaxForkCleanups = 1
    MaxTransactions = 2
    MaxChallenges = 1
    Kinds = {"bridge", "local", "dialplan"}
    Streamed = {}
    WellBehaved = TRUE
SPECIFICATION ControlSpec
INVARIANTS
    ControlTypeOK
    LiveCallHasDeadline
    AnsweredLegAIsReleased
    AnsweredLegBIsReleasedUnlessCancelled
    RingingLegBIsCancelled
    ExitIsClean
PROPERTY AnswerFollowsMedia
CHECK_DEADLOCK FALSE
