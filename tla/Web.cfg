SPECIFICATION Spec
CONSTANTS
    a = a
    b = b
    p1 = p1
    p2 = p2
    Tabs = {a, b}
    Sites <- TwoTabs
    MaxLogins = 2
    MaxAttempts = 2
    Purchases = {p1, p2}
    Linked = {p1, p2}
    Addresses = {p2, Account}
    Account = Account
    ByDefault = ByDefault
    MaxKeys = 2
INVARIANTS
    ShownIsStored
    OneConfirmation
    PaysAsShown
    WidgetComesOrFails
PROPERTIES
    SessionChangesForCause
CHECK_DEADLOCK FALSE
CONSTRAINT
    FewDialogs
