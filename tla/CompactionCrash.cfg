CONSTANTS
    n1 = n1
    n2 = n2
    v1 = v1
    v2 = v2
    Class = {c1}
    Name = {n1, n2}
    Value = {v1, v2}
    None = None
    Absent = Absent
    Torn = Torn
    Blank = Blank
    MaxFreeCount = 2
    UnprotectedCrashes = {"compactIndex", "compacted", "removeData"}
    MaxRequests = 3
    MaxCrashes = 1
SPECIFICATION Spec
INVARIANT NoCorruption
SYMMETRY Symmetry
CHECK_DEADLOCK FALSE
