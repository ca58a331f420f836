CONSTANTS
    dd = dd
    l1 = l1
    l2 = l2
    k1 = k1
    k2 = k2
    r1 = r1
    Users = {u1, u2}
    Products = {p1, p2}
    Offers = {o1, o2}
    Accounts = {dd, l1, l2}
    Default = dd
    Credentials = {k1, k2}
    Legacy <- Formerly
    Commands = {c1, c2}
    Kept = {r1, r2}
    Databases <- Migrated
    NoRevision = NoRevision
    NoOffer = NoOffer
    NoRequest = NoRequest
    NoAccount = NoAccount
    MaxExpected = 1
SPECIFICATION Spec
VIEW View
SYMMETRY Symmetric
CHECK_DEADLOCK FALSE
INVARIANTS AcceptedIsCurrent OneCatalog AnswersAreTrue
PROPERTY LinksAreRegisters
