SPECIFICATION FairSpec

CONSTANTS
    EventCap = 1
    MaxTurns = 2
    MaxText = 1

INVARIANTS
    TypeOK
    NoSilentLoss
PROPERTIES
    DoneIsLast
    LivesSessionLife
    CloseEnds
    DeathEndsQuery

CHECK_DEADLOCK FALSE
