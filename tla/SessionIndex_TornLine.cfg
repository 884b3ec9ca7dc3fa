CONSTANTS
    a = a
    b = b
    c = c
    Incidents <- MCIncidents
    Corrupt = Corrupt
    Procs = {p}
    Threshold = 2
    MaxStarts = 3
    MaxTorn = 1
    InitLines = 0
SPECIFICATION Spec
SYMMETRY MCSymmetry
INVARIANT
    CompletedSurvives
CHECK_DEADLOCK FALSE
