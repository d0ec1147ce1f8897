CONSTANTS
    q1 = q1
    q2 = q2
    Query = {q1}
    InUse <- NoneInUse
    Command = {}
    Window = 0
    MaxRefreshes = 2
    MaxFullRuns = 1
    MaxTroubles = 1
SPECIFICATION Spec
INVARIANTS TypeOK OncePerWindow DispatchFollowsUpdates
PROPERTIES RefreshesConclude
CHECK_DEADLOCK FALSE
