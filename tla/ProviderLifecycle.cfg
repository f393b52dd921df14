CONSTANTS
    p1 = p1
    p2 = p2
    t1 = t1
    t2 = t2
    Providers = {p1, p2}
    Threads = {t1, t2}
    NoThread = NoThread
    NoProvider = NoProvider
    MaxJobs = 5
    CountRange = 8
SPECIFICATION Spec
INVARIANTS
    CalledWhileLive
    ModuleReferenced
    HandlerValid
    IndicationsFollow
SYMMETRY Symmetry
CHECK_DEADLOCK FALSE
