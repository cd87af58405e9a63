\* Two turns of a session and prompts between them; a frame lasts two ticks.
CONSTANTS
    None = None
    Step = 2
    FirstAudio = 4
    GapLimit = 5
    Buffer = 3
    Prebuffer = 2
    PlayFrames = 2
    MaxTurn = 2
    MaxAccepted = 4
    MaxLate = 2
SPECIFICATION FairSpec
INVARIANTS
    TimerArmed
    NoOverlap
PROPERTY TurnEnds
