CONSTANTS
    t1 = t1
    t2 = t2
    s1 = s1
    s2 = s2
    Senders = {t1, t2}
    Subscriptions = {s1}
    MaxSent = 2
    WaitModes = {FALSE}
    Kinds = {"reliable", "direct"}
    TimeoutsHappen = FALSE
    HandlerMayStop = FALSE
SPECIFICATION FairSpec
INVARIANTS
    SenderOrder
PROPERTIES
    WaitEnds
CHECK_DEADLOCK FALSE
