CONSTANTS
    a = a
    b = b
    c = c
    Incidents = {a}
    NoIncident = NoIncident
    MaxLive = 1
    MaxEvicted = 1
    MaxPrompts = 2
SPECIFICATION Spec
INVARIANT
    ResumeOnlyKnown
