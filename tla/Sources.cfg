SPECIFICATION TurnsSpec
CONSTANTS
    r1 = r1
    r2 = r2
    p1 = p1
    c1 = c1
    Reads = {r1, r2}
    Prepares = {p1}
    Creates = {c1}
    Billing = {r1, p1, c1}
    Casts <- AllCasts
    Limit = 4
    Lifetimes = {1}
    MaxTime = 2
    MaxSessions = 3
    Previews = {"p"}
    Retries = 1
    Profiles <- AllProfiles
    MaxEdits = 2
    MaxToday = 1
    Publishers = {1, 2}
    Free = free
    Policies <- AllPolicies
    Technicals = {1}
    Approvals <- AllApprovals
INVARIANTS
    SessionsAreShared
    OfferStood
    RevisionsAreSound
    ReportsAreTrue
PROPERTIES
    SessionsLiveOut
    CreatePromiseKept
CONSTRAINT EachInTime
CONSTRAINT OneByOne
CHECK_DEADLOCK FALSE
