CONSTANTS
    a1 = a1
    a2 = a2
    r1 = r1
    r2 = r2
    x1 = x1
    x2 = x2
    Agents = {a1, a2}
    Requests = {r1, r2}
    Addresses = {x1, x2}
    Types = {"operation", "deleteSubscription", "notify", "enable", "stopAll"}
    MaxProcesses = 2
    MaxChunks = 1
    MaxExits = 1
    StartsFail = TRUE
    ClientsLeave = TRUE
    StaleReuse = FALSE
    NoRequest = NoRequest
SPECIFICATION Spec
INVARIANTS
    AnsweredOnce
    AnsweredInFull
    AnsweredLast
    ProcessedOnce
    OperationsKept
SYMMETRY Symmetry
CHECK_DEADLOCK FALSE
