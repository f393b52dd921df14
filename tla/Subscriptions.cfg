CONSTANTS
    c1 = c1
    c2 = c2
    s1 = s1
    s2 = s2
    Clients = {c1, c2}
    Subscriptions = {s1, s2}
    DeletesHappen = TRUE
    MaxCreations = 2
    MaxIndications = 1
SPECIFICATION FairSpec
INVARIANTS
    CounterExact
    TableComplete
PROPERTIES
    NoneLost
    WaitingIsDelivered
CHECK_DEADLOCK FALSE
