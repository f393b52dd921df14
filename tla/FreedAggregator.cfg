CONSTANTS
    t1 = t1
    t2 = t2
    s1 = s1
    s2 = s2
    Senders = {t1}
    Subscriptions = {s1}
    MaxSent = 1
    WaitModes = {TRUE}
    Kinds = {"reliable"}
    TimeoutsHappen = FALSE
    HandlerMayStop = FALSE
SPECIFICATION Spec
INVARIANTS
    AggregatorAlive
CHECK_DEADLOCK FALSE
