CONSTANTS
    q1 = q1
    q2 = q2
    u1 = u1
    u2 = u2
    Query = {q1, q2}
    Key = {1, 2, 3}
    Course = {1, 3}
    Disallowed = {}
    Forced <- Force
    Update = {u1, u2}
    Request <- Sends
    PageSize = 2
    MaxRetries = 1
    BatchSize = 2
    RetryMax = 1
    Floor = 1
    DeltaNum = 1
    DeltaDen = 2
    MaxVersion = 2
    MaxChanges = 1
    InitialRow <- Rows
    InitialListed <- Lists
    InitialMember <- Joined
SPECIFICATION Spec
INVARIANTS TypeOK Accounted MembersExist
PROPERTIES EmptiedByRollbackOnly DryRunWritesNothing DroppedForAReason UpdatesEnd
CHECK_DEADLOCK FALSE
