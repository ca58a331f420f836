CONSTANTS
    p1 = p1
    p2 = p2
    p3 = p3
    f1 = f1
    f2 = f2
    f3 = f3
    NoId = NoId
    Purchases = {p1}
    Product <- ProductOf
    Flows = {f1, f2, f3}
    Roles <- Recovered
    MaxEdits = 2
SPECIFICATION Spec
SYMMETRY Symmetric
CHECK_DEADLOCK FALSE
INVARIANTS ConflictNeedsDecision
