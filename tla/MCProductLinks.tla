---------------------------- MODULE MCProductLinks ----------------------------
EXTENDS ProductLinks, TLC
CONSTANTS dd, l1, l2, k1, k2, r1

Formerly == [k \in Credentials |-> IF k = k1 THEN l1 ELSE l2]

\* Retained databases: revisions in legacy accounts, each a head or
\* history only, and at most one customer there.
Row1(i) == [account : {l1, l2}, product : Products, offer : Offers,
            number : {1}, offerNumber : {IF i = r1 THEN 1 ELSE 2}]
Rows == {r \in [Kept -> UNION {Row1(i) : i \in Kept} \cup {NoRevision}] :
            \A i \in Kept : r[i] \in Row1(i) \cup {NoRevision}}

Current(r) == {S \in SUBSET {i \in Kept : r[i] # NoRevision} :
    \A i, j \in S : r[i].account = r[j].account /\ r[i].product = r[j].product => i = j}
HeadOf(r, S) == [a \in Accounts |-> [p \in Products |->
    IF \E i \in S : r[i].account = a /\ r[i].product = p
    THEN CHOOSE i \in S : r[i].account = a /\ r[i].product = p
    ELSE NoRevision]]

Uses == {[u \in Users |-> [a \in Accounts |-> IF <<u, a>> = <<v, b>> THEN use ELSE "none"]] :
            v \in Users, b \in {l1, l2}, use \in {"none", "unbound", "used"}}

\* No more than two retained rows besides the heads.
Few(r, n) == Cardinality({i \in Kept : r[i] # NoRevision})
               + Cardinality({u \in Users : \E a \in Accounts : n[u][a] # "none"}) <= 2

Migrated == UNION {{[revision |-> r, head |-> HeadOf(r, S), use |-> n] :
                        S \in Current(r), n \in {m \in Uses : Few(r, m)}} : r \in Rows}

\* The two credentials change places together with their accounts.
Symmetric == Permutations(Users) \cup Permutations(Products)
               \cup Permutations(Offers) \cup {(k1 :> k2) @@ (k2 :> k1) @@ (l1 :> l2) @@ (l2 :> l1)}

\* Errors are alike to every guard and property.
View == <<revision, head, proven, customer, inflight,
          [c \in Commands |-> [command[c] EXCEPT !.answer =
              IF @ \in {"refused", "conflict", "failed"} THEN "failed" ELSE @]]>>
=============================================================================
