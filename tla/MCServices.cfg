SPECIFICATION BenchSpec
CONSTANTS
    w1 = w1
    w2 = w2
    c1 = c1
    c2 = c2
    Writers = {w1, w2}
    Closers = {c1, c2}
    NoOne = NoOne
    Buffer = 2
    Interval = 2
    MaxWrites = 6
    ChanCap = 2
    MaxTokens = 4
    a = a
    b = b
    c = c
    p = p
    Incidents = {a, b, c}
    Corrupt = Corrupt
    Procs = {p}
    Threshold = 1
    MaxStarts = 3
    MaxTorn = 2
    InitLines = 2
INVARIANTS
    TypesOK
    NoSendOnClosed
    FlushedOnClose
    NothingUnreported
    ShownIsTold
    WrittenOnce
PROPERTIES
    CallsReturn
    StartupEnds
    KeepsPromise
CHECK_DEADLOCK FALSE
