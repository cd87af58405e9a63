\* Two applications and two requests for a turn on one channel, three of the
\* four in a history.
CONSTANTS
    None = None
    Jobs = {j1, j2}
    Reads = {j2}
    MaxReqs = 2
    MaxTurn = 2
    MaxUses = 3
    UrgentCap = 2
SPECIFICATION Spec
INVARIANTS
    JobsCompleteOnce
    SoundHasOwner
    TurnHasOwner
    NeverContested
    CancelledMeansNothing
CHECK_DEADLOCK FALSE
