SPECIFICATION FairSpec

CONSTANTS
    EventCap = 1
    MaxTurns = 2
    MaxText = 1

PROPERTY SpawnReturns

CHECK_DEADLOCK FALSE
