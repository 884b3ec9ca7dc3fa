CONSTANTS
    a = a
    b = b
    c = c
    Incidents <- MCIncidents
    NoIncident = NoIncident
    MaxLive = 2
    MaxEvicted = 1
    MaxPrompts = 4
SPECIFICATION Spec
SYMMETRY MCSymmetry
INVARIANTS
    TypeOK
    LiveBound
    Bookkeeping
    NoChildAfterQuit
