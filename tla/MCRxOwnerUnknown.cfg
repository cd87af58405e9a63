\* What the error ErrRXSubscribeUnknown promises of the handle that is kept.
CONSTANTS
    None = None
    MaxReqs = 2
    MaxId = 2
    UrgentCap = 2
SPECIFICATION Spec
INVARIANTS
    UnknownCanBeCleaned
CHECK_DEADLOCK FALSE
