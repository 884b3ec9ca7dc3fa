SPECIFICATION Spec
CONSTANTS
    i = i
    j = j
    k = k
    c = c
    d = d
    s = s
    Incidents <- MCIncidents
    Urgent <- MCIncidents
    ServiceOf <- MCServiceOf
    ClustersOf <- MCClustersOf
    Capacity = 2
    Words = 1
    MaxQueries = 2
INVARIANT
    QueryingIsQuery
CHECK_DEADLOCK FALSE
