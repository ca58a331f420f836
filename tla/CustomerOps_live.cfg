CONSTANTS
    c1 = c1
    c2 = c2
    o1 = o1
    o2 = o2
    o3 = o3
    i1 = i1
    i2 = i2
    Customers = {c1}
    Openings = {o1, o2}
    Owner <- OneOwner
    Earlier = {}
    Ids = {i1}
    NoId = NoId
    NoKey = NoKey
    OtherKey = OtherKey
    Total = 2
    Cleanup = 1
    Window = 4
    Slack = 1
    MaxActive = 2
    MaxTime = 2
    MaxRekeys = 0
    UniqueEmail = TRUE
SPECIFICATION FairSpec
PROPERTY OpeningEnds
CHECK_DEADLOCK FALSE
VIEW View
