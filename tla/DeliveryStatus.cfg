CONSTANTS
    t1 = t1
    t2 = t2
    s1 = s1
    s2 = s2
    Senders = {t1}
    Subscriptions = {s1, s2}
    MaxSent = 2
    WaitModes = {TRUE, FALSE}
    Kinds = {"reliable", "export", "rejected"}
    TimeoutsHappen = TRUE
    HandlerMayStop = TRUE
SPECIFICATION Spec
INVARIANTS
    AggregatorKept
    AnsweredOnce
    AnsweredWhenDelivered
SYMMETRY Symmetry
CHECK_DEADLOCK FALSE
