CONSTANTS
    s1 = s1
    s2 = s2
    Subscriptions = {s1, s2}
    RetryAttempts = {0, 1}
    RetryIntervals = {1}
    DefaultAttempts = 1
    DefaultInterval = 2
    LifetimeFactor = 2
    RemovalInterval = 3
    MinQueueSize = 1
    MaxQueueSize = 2
    UShort = 8
    StartTime = 2
    MaxTime = 5
    MaxArrivals = 3
SPECIFICATION Spec
INVARIANTS
    TypeOK
    QueueBounded
    Accounted
    AttemptsEarned
PROPERTIES
    InactiveIsSilent
    WireInOrder
    ImplementsChannel
SYMMETRY Symmetry
CHECK_DEADLOCK FALSE
