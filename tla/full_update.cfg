CONSTANTS
    p1 = p1
    w1 = w1
    Course = {1, 2}
    Program = {p1}
    Pathway = {w1}
    Worker = {"t1"}
    BatchSize = 2
    Restricted = {1}
    Contents <- Made
    ModifiedInFull = {2}
    MaxVersion = 2
    MaxMishaps = 1
    InitialOffers <- Belongs
SPECIFICATION FullSpec
PROPERTIES LinkedBeforeWritten    PluckedReturns
CHECK_DEADLOCK FALSE
