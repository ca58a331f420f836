------------------------------- MODULE MCAccounts -------------------------------
EXTENDS Accounts, TLC
CONSTANTS MaxDisturbances, r1, r2, v1, v2, c1, c2

Doc(t, n, f) == [type |-> t, version |-> n, from |-> f, content |-> 0]
\* The first release; one that renews a document and asks for another; one
\* that is published for a later day; and one that alters a version.
Original == {Doc("privacy", 1, 0), Doc("pd_consent", 1, 0), Doc("offer", 1, 0)}
Releases ==
    {Original,
     {Doc("privacy", 2, 0), Doc("pd_consent", 1, 0), Doc("offer", 1, 0), Doc(Recurring, 1, 0)},
     {Doc("privacy", 3, 1), Doc("pd_consent", 3, 1), Doc("offer", 3, 1)},
     {[Doc("privacy", 1, 0) EXCEPT !.content = 1], Doc("pd_consent", 1, 0), Doc("offer", 4, 0)}}

Symmetric == Permutations(Registrations) \cup Permutations(Reviews)
               \cup Permutations(Confirmations) \cup Permutations(Confirms)

Idle(f) == \A x \in DOMAIN f : f[x].pc = "idle"
Verifying == clock > 0 \/ ~Idle(request)
Shopping  == ~Idle(asked) \/ head > 1 \/ \E o \in Offers : offered[o] # 1
Alone     == Cardinality({r \in Registrations : registration[r].pc # "idle"}) = 1
Short     == /\ clock = 1 /\ Verified /\ registration[account].pc = "registered"
             /\ Cardinality({x \in DOMAIN request : request[x].pc # "idle"}) = 1

\* What has happened to the terms.
Disturbances == Len(past) + day + (head - 1) + Cardinality({o \in Offers : offered[o] # 1})

Running(kind) == {r \in kind : asked[r].pc \notin {"idle", "ended"}}

\* Registrations with releases, then the verification of an account without
\* either, then purchases with releases after the shortest of verifications.
InTurn ==
    /\ Verifying => Alone
    /\ Verifying /\ ~Shopping => past = <<>> /\ day = 0 /\ Idle(acceptance)
    /\ Shopping => Verifying /\ Short /\ Idle(acceptance) /\ Disturbances <= MaxDisturbances

\* Reviews only supply what is confirmed: they run one after the other.
OneReview == /\ Cardinality(Running(Reviews)) <= 1
             /\ Running(Confirmations) # {} => Running(Reviews) = {}
=============================================================================
