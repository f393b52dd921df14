CONSTANTS
    d1 = d1
    d2 = d2
    r1 = r1
    r2 = r2
    t1 = t1
    t2 = t2
    Destinations = {d1, d2}
    Requests = {r1}
    DeliveryThreads = {t1}
    MaxKept = 1
    CreationMayFail = FALSE
    NoRequest = NoRequest
    NoDestination = NoDestination
SPECIFICATION FairSpec
PROPERTIES
    DispatchedIsTried
    RequestAnswered
CHECK_DEADLOCK FALSE
