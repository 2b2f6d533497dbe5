CONSTANTS
    Entries = {1, 2, 3}
    ChainOf <- MCChainOf
    Genesis = Genesis
    NoOrganization = "none"
    MaxTime = 1
    Secrets = {s1, s2, s3}
    KeyRequests = {k1, k2, k3}
    NoSecret = NoSecret
    MaxId = 3
    Reindexers = {w1, w2}
    ReindexBatchSize = 2
    MaxBatchesPerRun = 2
    MaxVersion = 2
    Ips = {p1, p2}
    RateWindow = 1
    RateMax = 1
    SuspiciousWindow = 2
    NotFoundMin = 2
    DistinctPathMin = 2
    BadRequestMin = 2
    VolumeMin = 3
    LoginWindow = 1
    LoginMin = 1
    Cooldown = 4
    CleanupEvery = 2
    MaxEvents = 3
    LastTime = 11
    Searches = {f1, f2}
    ResultSets = {x, y}
    NoResult = NoResult
    MaxSearches = 1
    Evaluations = {e1, e2}
    AlertFrequency = 1
    LastSearchTime = 1
SPECIFICATION Spec
INVARIANTS DecisionsOnRecord AnswersHold CurrentBehindCursor
    ForgettingChangesNothing SearchesAccounted
PROPERTY LogTellsHistory
CHECK_DEADLOCK FALSE
SYMMETRY Interchangeable
