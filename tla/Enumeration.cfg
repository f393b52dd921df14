CONSTANTS
    c1 = c1
    k1 = k1
    k2 = k2
    Contexts = {c1}
    Clients = {k1, k2}
    Counts = {0, 1, 2}
    CacheLimit = 1
    TableLimit = 1
    ZeroPullLimit = 1
    FinalTargetCount = 3
    TimeoutSet = TRUE
    MaxObjects = 3
    MaxRequests = 3
SPECIFICATION DisciplinedSpec
INVARIANTS
    ReleasedOnce
    NothingLost
PROPERTIES
    RequestAnswered
    ProviderReleased
    ContextRemoved
CHECK_DEADLOCK FALSE
