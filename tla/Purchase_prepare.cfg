CONSTANTS
    p1 = p1
    p2 = p2
    p3 = p3
    f1 = f1
    f2 = f2
    f3 = f3
    NoId = NoId
    Purchases = {p1, p2, p3}
    Product <- ProductOf
    Flows = {f1, f2, f3}
    Roles <- Requests
    MaxEdits = 1
    Transactions = {t1, t2, t3}
    Users = {u1, u2}
    Products = {x}
    Offers = {y}
    Intents = {b1, b2}
    Owner <- OwnPurchases
    Ids = {i1}
SPECIFICATION TurnsSpec
SYMMETRY Symmetric
CONSTRAINTS OnePurchase TwoAtATime
CHECK_DEADLOCK FALSE
INVARIANTS UnsentIsUnsent BindingsAreOwn NoDeadlock
PROPERTIES BindingsStay AsksOnce PaymentIsProven
