CONSTANTS
    n1 = n1
    n2 = n2
    v1 = v1
    v2 = v2
    Class = {c1, c2}
    Name = {n1, n2}
    Value = {v1, v2}
    None = None
    Absent = Absent
    Torn = Torn
    Blank = Blank
    MaxFreeCount = 2
    UnprotectedCrashes = {"header"}
    MaxRequests = 4
    MaxCrashes = 2
SPECIFICATION Spec
INVARIANTS
    StartupSucceeds
    NothingPending
    Contiguous
PROPERTY ImplementsStore
SYMMETRY Symmetry
CHECK_DEADLOCK FALSE
