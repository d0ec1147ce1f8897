CONSTANTS
    k1 = k1
    k2 = k2
    k3 = k3
    Content = {k1, k2, k3}
    Enterprise = {e1}
    HighlightSet = {s1, s2}
    s1 = s1
    InitialSet = s1
    InitialContent <- Shown
    KeyLists <- Lists
    Request = {r1, r2}
    Unused = Unused
    Gone = Gone
    ContentLimit = 2
    SetLimit = 1
    MaxRequests = 3
SPECIFICATION Spec
INVARIANTS RanksDistinct
PROPERTIES  LimitsPassedOnStaleCounts 
CHECK_DEADLOCK FALSE
