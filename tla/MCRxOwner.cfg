\* Two calls of SubscribeRX for the session of one call.
CONSTANTS
    None = None
    MaxReqs = 2
    MaxId = 2
    UrgentCap = 2
SPECIFICATION Spec
INVARIANTS
    ExportHasOwner
    RevokedIsDeaf
    NoHandleMeansNothing
CHECK_DEADLOCK FALSE
