----------------------------- MODULE MCPurchaseOps -----------------------------
EXTENDS PurchaseOps, TLC
CONSTANTS p1, p2, p3, f1, f2, f3
\* Two purchases compete for the product y.
ProductOf == [p \in Purchases |-> IF p = p1 THEN "x" ELSE "y"]
\* Two flows prepare or recover, f3 opens a payment.
Requests  == [f \in Flows |-> IF f = f3 THEN {"payment"} ELSE {"advance", "recover"}]
Running == {f \in Flows : flow[f].pc \notin {"idle", "shown", "ended"}}
\* Recoveries, payments and edits come while one purchase is accepted: of the
\* other purchases' flows only advances meet it, in the inventory.
OnePurchase ==
    edits > 0 \/ (\E f \in Running : flow[f].role # "advance") =>
        Cardinality({p \in Purchases : row[p] # "absent"}) = 1
\* Three flows, of which two run at a time.
TwoAtATime  == Cardinality(Running) <= 2
\* One request, and an operator's two recoveries.
Recovered == [f \in Flows |-> IF f = f1 THEN {"advance"} ELSE {"recover"}]
Symmetric == {g \in Permutations(Flows) : \A f \in Flows : Roles[g[f]] = Roles[f]}
               \cup Permutations(Purchases \cap {p2, p3})
=============================================================================
