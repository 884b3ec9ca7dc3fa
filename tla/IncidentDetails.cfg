SPECIFICATION Spec
CONSTANTS
    i = i
    j = j
    None = None
    Incidents = {i, j}
    Parts = {"alerts"}
    MaxChanges = 1
    MaxErrors = 1
    MaxFetches = 2
INVARIANTS
    TypeOK
PROPERTIES
    MixedOnlyUnselected
    CatchesUp
CHECK_DEADLOCK FALSE
