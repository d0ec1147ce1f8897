CONSTANTS
    c1 = c1
    c2 = c2
    r1 = r1
    r2 = r2
    r3 = r3
    f1 = f1
    f2 = f2
    f3 = f3
    e1 = e1
    Absent = Absent
    QueryId = {q1, q2}
    Uuid = {u1, u2}
    Filter = {f1, f2, f3}
    Catalog = {k1, k2}
    Customer = {e1}
    OwnerOf <- Owners
    MaxRequests = 2
    Course = {c1, c2}
    Run = {r1, r2, r3}
    ParentOf <- Parents
    Lists <- Listed
    Allows <- Allowed
    Open = {c1}
    Worker = {w1, w2}
    MaxCanonical = 2
    MaxTroubles = 1
SYMMETRY Alike
SPECIFICATION Spec
INVARIANTS QueriesDistinct SettledAsAllowed ServedAsAllowed NeverBeyondAllowed
CHECK_DEADLOCK FALSE
