\* Two sessions reuse the port block of one worker while its queues still name earlier ones.
CONSTANTS
    Sessions = {s1, s2}
    NoSession = NoSession
    NumBlocks = 1
    MaxCalls = 1
    ReuseDelay = 1
    WorkCap = 2
    PacketsPerTurn = 2
    SendQueueCap = 1
    MaxData = 2
    MaxGeneration = 2
    MaxTargets = 2
SPECIFICATION Spec
SYMMETRY SessionSymmetry
INVARIANTS
    TypeOK
    BlocksAccounted
    QuarantineHolds
    ReadinessKept
    ScheduledOnce
    SuspensionsResume
    WaitingIsListed
    WaitingForCurrentTarget
CHECK_DEADLOCK FALSE
