CONSTANTS
    c1 = c1
    p1 = p1
    w1 = w1
    v1 = v1
    Course = {c1}
    Program = {p1}
    Pathway = {w1}
    Video = {v1}
    Shard = {s1}
    Child <- MCChild
    ParentCourse <- MCParentCourse
    Run = {r1}
    Request <- MCRequest
    MaxChanges = 1
    MaxFailures = 1
    MaxManual = 2
SPECIFICATION DispatchSpec
PROPERTIES PassFreshens  
