--------------------------- MODULE CustomerBinding ---------------------------
(***************************************************************************)
(* What the customer operation promises about identity, without sends,     *)
(* leases, fences or time.  A customer is open until one provider id is    *)
(* proven for it.  From then on the id is the customer's forever and no    *)
(* other customer's.  A proven id may lose its key at the provider and be  *)
(* restored by a new proof of the same id; any other contradiction bars    *)
(* the customer until an operator decides.                                 *)
(***************************************************************************)
CONSTANTS Customers, Ids, NoId

VARIABLES
    status,     \* "open", "bound", "lost" or "barred", of every customer
    id          \* the provider id proven for it

vars == <<status, id>>

TypeOK ==
    /\ status \in [Customers -> {"open", "bound", "lost", "barred"}]
    /\ id \in [Customers -> Ids \cup {NoId}]

\* Some were bound long before.
Init ==
    /\ id \in [Customers -> Ids \cup {NoId}]
    /\ \A c, d \in Customers : c # d /\ id[c] # NoId => id[c] # id[d]
    /\ status = [c \in Customers |-> IF id[c] = NoId THEN "open" ELSE "bound"]

Prove(c, i) ==
    /\ status[c] = "open"
    /\ \A d \in Customers \ {c} : id[d] # i
    /\ status' = [status EXCEPT ![c] = "bound"]
    /\ id' = [id EXCEPT ![c] = i]

LoseKey(c) ==
    /\ status[c] = "bound"
    /\ status' = [status EXCEPT ![c] = "lost"]
    /\ UNCHANGED id

Restore(c) ==
    /\ status[c] = "lost"
    /\ status' = [status EXCEPT ![c] = "bound"]
    /\ UNCHANGED id

Bar(c) ==
    /\ status' = [status EXCEPT ![c] = "barred"]
    /\ UNCHANGED id

Next ==
    \E c \in Customers :
        (\E i \in Ids : Prove(c, i)) \/ LoseKey(c) \/ Restore(c) \/ Bar(c)

Spec == Init /\ [][Next]_vars
=============================================================================
