SPECIFICATION BenchSpec
CONSTANTS
    MaxOpen = 3
    MaxPosted = 1
    i = i
    j = j
    k = k
    c = c
    d = d
    s = s
    Incidents <- MCIncidents
    Urgent <- MCIncidents
    ServiceOf <- MCServiceOf
    ClustersOf <- MCClustersOf
    None = None
    MaxRuns = 2
    MaxPolls = 2
    Capacity = 2
    Words = 1
    MaxQueries = 2
    Present = {"token", "old_silent", "old_mappings"}
    Seeds = {"cluster_login"}
    Supplied = {"teams"}
    MaxStarts = 2
INVARIANTS
    TypesOK
    ActsOnOrigin
    AnalyzingIsQuery
    BackedUp
PROPERTIES
    WayOut
    SupersededSilent
    ConfirmedIsSaved
CHECK_DEADLOCK FALSE
