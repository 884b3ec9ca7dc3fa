SPECIFICATION BenchSpec
CONSTANTS
    r1 = r1
    r2 = r2
    Requests = {r1, r2}
    MaxRetries = 2
    Burst = 2
    MaxRefills = 3
    Replies = {"ok", "limited", "failed", "failed429"}
    inc1 = inc1
    inc2 = inc2
    cluster = cluster
    None = None
    Incidents = {inc1, inc2}
    Clusters = {cluster}
    Kinds = {"reports"}
    Weeks = 2
    MaxAlerts = 2
    MaxLive = 1
    MaxEvicted = 2
    MaxPrompts = 3
INVARIANTS
    TypesOK
    RepeatsExplained
    NobodyForgotten
    WeeksOnce
    KnownIsResumed
PROPERTIES
    RequestsEnd
    LoadingEnds
    QuitCompletes
CHECK_DEADLOCK FALSE
