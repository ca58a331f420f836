---------------------------- MODULE PurchaseEffects ----------------------------
(***************************************************************************)
(* What purchase preparation promises about the outside world, without     *)
(* operations, fences, snapshots or recovery: an accepted purchase holds   *)
(* its product; it asks the provider at most once for an agreement and,    *)
(* under the agreement it got, at most once for a subscription; and the    *)
(* product is given up only if nothing was ever asked for.                 *)
(***************************************************************************)
CONSTANTS Purchases, Product

VARIABLES
    status,     \* "new", "open" or "released", of every purchase
    requests,   \* the create requests that have left the portal
    objects     \* the requests the provider has processed

vars == <<status, requests, objects>>

Init ==
    /\ status = [p \in Purchases |-> "new"]
    /\ requests = {}
    /\ objects = {}

Asked(p) == {i \in requests : i.purchase = p}

Accept(p) ==
    /\ status[p] = "new"
    /\ \A q \in Purchases : Product[q] = Product[p] => status[q] # "open"
    /\ status' = [status EXCEPT ![p] = "open"]
    /\ UNCHANGED <<requests, objects>>

Ask(i) ==
    /\ status[i.purchase] = "open"
    /\ \A j \in Asked(i.purchase) : j.kind # i.kind
    /\ i.kind = "subscription" => i.under \in objects \cap Asked(i.purchase)
    /\ requests' = requests \cup {i}
    /\ UNCHANGED <<status, objects>>

Make(i) ==
    /\ objects' = objects \cup {i}
    /\ UNCHANGED <<status, requests>>

Release(p) ==
    /\ status[p] = "open" /\ Asked(p) = {}
    /\ status' = [status EXCEPT ![p] = "released"]
    /\ UNCHANGED <<requests, objects>>

Next ==
    \/ \E p \in Purchases : Accept(p) \/ Release(p)
    \/ \E i \in requests' \ requests : Ask(i)
    \/ \E i \in requests : Make(i)

Spec == Init /\ [][Next]_vars
=============================================================================
