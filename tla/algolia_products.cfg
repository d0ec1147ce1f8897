CONSTANTS
    c1 = c1
    c2 = c2
    p1 = p1
    p2 = p2
    w1 = w1
    w2 = w2
    q1 = q1
    q2 = q2
    k1 = k1
    k2 = k2
    k3 = k3
    e1 = e1
    e2 = e2
    t1 = t1
    t2 = t2
    a = a
    b = b
    None = None
    Missing = Missing
    BestModeOrder <- Modes
    LateEnrollmentDays = 1
    Course = {c1, c2}
    Program = {p1, p2}
    Pathway = {w1, w2}
    Query = {q1, q2}
    Catalog = {k1, k2, k3}
    QueryOf <- Queries
    CustomerOf <- Owners
    Tag = {t1, t2}
    TagsOf <- Academies
    Tagged <- TagMap
    Translated = {c1, p1}
    Payloads <- Stored
    InitialMembers <- Members
    InitialParts <- Parts
    InitialPayload <- Initial
    ShardSize = 1
    MaxChanges = 2
    MaxTime = 2
SPECIFICATION Spec
INVARIANTS   PathwaysBetween OpenWhenIndexable
