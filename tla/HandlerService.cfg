CONSTANTS
    d1 = d1
    d2 = d2
    r1 = r1
    r2 = r2
    t1 = t1
    t2 = t2
    Destinations = {d1, d2}
    Requests = {r1, r2}
    DeliveryThreads = {t1, t2}
    MaxKept = 1
    CreationMayFail = TRUE
    NoRequest = NoRequest
    NoDestination = NoDestination
SPECIFICATION Spec
INVARIANTS
    QueueOutlivesDelivery
    OneDeliveryPerDestination
    CountExact
    CleanupIsDue
SYMMETRY Symmetry
CHECK_DEADLOCK FALSE
