CONSTANTS
    Key = {k1}
    Shard = {s1, s2}
    Task = {t1}
    MaxClock = 3
    MaxRedeliveries = 1
    Overlap = FALSE
SPECIFICATION Spec
SYMMETRY Symmetry
INVARIANTS TypeOK SavedBeforeDeleted
PROPERTIES ImplementsContract NeverDark
