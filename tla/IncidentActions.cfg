CONSTANTS
    a = a
    b = b
    Incidents <- MCIncidents
    None = None
    Order <- MCOrder
    MaxChanges = 1
    MaxInputs = 2
SPECIFICATION Spec
INVARIANTS
    TypeOK
    HitsNamed
PROPERTY
    RefreshKeepsSelection
CHECK_DEADLOCK FALSE
