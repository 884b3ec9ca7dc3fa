CONSTANTS
    a = a
    b = b
    Incidents <- MCIncidents
    None = None
    Order <- MCOrder
    MaxChanges = 1
    MaxInputs = 2
SPECIFICATION Spec
INVARIANT
    ConfirmedTarget
CHECK_DEADLOCK FALSE
