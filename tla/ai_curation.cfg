CONSTANTS
    c1 = c1
    c2 = c2
    x1 = x1
    p1 = p1
    p2 = p2
    None = None
    Course = {c1, c2, x1}
    Program = {p1, p2}
    ExecEd = {x1}
    Titles <- Named
    InitialIndex <- Hits
    PageSize = 2
    MaxTries = 2
    DefaultThreshold = 50
    Thresholds = {0, 50, 75, 100}
    Scores = {1, 2}
    MaxRuns = 2
    MaxChanges = 1
SPECIFICATION Spec
INVARIANTS TweaksTheResult ThresholdsNest
PROPERTY CurationsConclude
CHECK_DEADLOCK FALSE
