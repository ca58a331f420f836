SPECIFICATION AccountsSpec
CONSTANTS
    r1 = r1
    r2 = r2
    v1 = v1
    v2 = v2
    c1 = c1
    c2 = c2
    MaxDisturbances = 2
    Manifests <- Releases
    Installed <- Original
    Acceptances = {a1}
    MaxStarts = 2
    MaxDay = 1
    Registrations = {r1, r2}
    Nobody = Nobody
    Reviews = {v1, v2}
    Confirmations = {c1, c2}
    Keys = {"k", "l"}
    MaxRevision = 2
    MaxTerms = 2
    Confirms = {e1, e2}
    Resends = {s1}
    First = t1
    Tokens = {t1, t2}
    TTL = 3
    Cooldown = 2
    MaxTime = 5
INVARIANTS EvidenceStood TakenMeansTaken LinksAreSound
PROPERTIES VerifiedInTime PurchasesAreAnswered
SYMMETRY Symmetric
CONSTRAINTS InTurn OneReview
CHECK_DEADLOCK FALSE
