CONSTANTS
    Key = {k1}
    Shard = {s1, s2}
    Task = {t1}
    MaxClock = 2
    MaxRedeliveries = 1
    Overlap = FALSE
SPECIFICATION Spec
INVARIANTS FreshMeansCurrent
