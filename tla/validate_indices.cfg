CONSTANTS
    i1 = i1
    i2 = i2
    d1 = d1
    d2 = d2
    d3 = d3
    None = None
    Id = {i1, i2}
    Doc = {d1, d2, d3}
    ContentType <- Types
    LevelOf <- Levels
    TagsOf <- Tags
    SampleSize = 1
    InitialIndices <- Start
    MaxRuns = 2
    MaxCommands = 3
    MaxWrites = 1
SPECIFICATION ScriptSpec
INVARIANTS ReportsMatchIndices
CHECK_DEADLOCK FALSE
