------------------------------ MODULE PurchaseTerms ------------------------------
(***************************************************************************)
(* What a user agrees to when buying one product: the review of its terms  *)
(* and the confirmation (review_purchase and confirm_purchase in           *)
(* composition/purchases.py, pin_purchase in domains/purchases/service.py).*)
(*                                                                         *)
(* The terms are a revision of the product's link, which an operator may   *)
(* publish anew, the provider's offer for it, which the seller may change, *)
(* and the legal documents in force.  A request reads them one after the   *)
(* other, without a lock; the transaction that records the purchase locks  *)
(* the link's head and the table of documents.  Every request may be a     *)
(* repetition of another whose answer was lost, and both may run at once.  *)
(***************************************************************************)
EXTENDS Legal

CONSTANTS
    Reviews,        \* POST /api/purchases/review
    Confirmations,  \* POST /api/purchase-intents, all of one user
    Keys,           \* idempotency keys
    MaxRevision,    \* bound: revisions of the link
    MaxTerms        \* bound: how often the seller changes the offer

ASSUME TermsAssumption ==
    MaxRevision \in Nat \ {0} /\ MaxTerms \in Nat \ {0} /\ Reviews \cap Confirmations = {}

VARIABLES
    head,       \* the current revision of the product
    selects,    \* the offer each revision names
    offered,    \* the terms of each offer at the provider, 0 when not sold
    asked,      \* program counters and locals
    purchase,   \* purchase_intents, by the confirmation that recorded them
    hold        \* the purchase in billing_purchase_scope_holds

terms == <<head, selects, offered, asked, purchase, hold>>

-----------------------------------------------------------------------------
Offers    == {"x", "y"}
Requests  == Reviews \cup Confirmations
Revisions == 1..MaxRevision

\* A fingerprint digests the offer and its terms; the link's revision is a
\* part of the meaning of its own.
Meaning(l, o, ds) == [revision |-> l, offer |-> o, documents |-> ds]
None == Meaning(0, <<>>, {})

NewRequest == [pc |-> "idle", key |-> "", wants |-> None, link |-> 0, offer |-> <<>>,
               documents |-> {}, day |-> 0, begun |-> 0, answer |-> "none"]

TermsInit ==
    /\ head = 1 /\ selects = [l \in Revisions |-> "x"]
    /\ offered = [o \in Offers |-> 1]
    /\ asked = [r \in Requests |-> NewRequest]
    /\ purchase = <<>> /\ hold = {}

Goto(r, pc)    == asked' = [asked EXCEPT ![r].pc = pc]
EndWith(r, a)  == asked' = [asked EXCEPT ![r] =
    [NewRequest EXCEPT !.pc = "ended", !.answer = a, !.key = asked[r].key, !.wants = asked[r].wants]]

Reviewed == {asked[v].wants : v \in {u \in Reviews : asked[u].answer = "reviewed"}}

-----------------------------------------------------------------------------
(* The reads of review_purchase *)

Review(r) ==
    /\ r \in Reviews /\ asked[r].pc = "idle"
    /\ Goto(r, "link")
    /\ UNCHANGED <<head, selects, offered, purchase, hold>>

\* query_product_link
ReadLink(r) ==
    /\ asked[r].pc = "link"
    /\ asked' = [asked EXCEPT ![r].pc = "offer", ![r].link = head,
                                  ![r].begun = offered[selects[head]]]
    /\ UNCHANGED <<head, selects, offered, purchase, hold>>

\* read_current_offer; an offer that is not sold ends the request.
ReadOffer(r) ==
    LET o == selects[asked[r].link] IN
    /\ asked[r].pc = "offer"
    /\ IF offered[o] = 0
       THEN EndWith(r, "unavailable")
       ELSE asked' = [asked EXCEPT ![r].pc = "documents", ![r].offer = <<o, offered[o]>>]
    /\ UNCHANGED <<head, selects, offered, purchase, hold>>

Sufficient(ds) == Required \subseteq {x.type : x \in ds}

\* read_legal
ReadDocuments(r) ==
    LET q == asked[r] IN
    /\ q.pc = "documents"
    /\ IF ~Sufficient(InForce) THEN EndWith(r, "unavailable")
       ELSE IF r \in Reviews
       THEN asked' = [asked EXCEPT ![r] =
                [NewRequest EXCEPT !.pc = "ended", !.answer = "reviewed",
                                   !.wants = Meaning(q.link, q.offer, InForce)]]
       ELSE asked' = [asked EXCEPT ![r].pc = "pin", ![r].documents = InForce]
    /\ UNCHANGED <<head, selects, offered, purchase, hold>>

-----------------------------------------------------------------------------
(* The confirmation *)

ByKey(k) == {p \in DOMAIN purchase : purchase[p].key = k}

\* Mutation: an occupied product is noticed first.
Prior_HoldFirst(q) ==
    IF hold # {} THEN "occupied"
    ELSE IF \E p \in ByKey(q.key) : purchase[p].wants # q.wants THEN "conflict"
    ELSE IF ByKey(q.key) # {} THEN "accepted"
    ELSE "none"

\* _prior_request: a repetition finds its purchase.
Prior(q) ==
    IF \E p \in ByKey(q.key) : purchase[p].wants # q.wants THEN "conflict"
    ELSE IF ByKey(q.key) # {} THEN "accepted"
    ELSE IF hold # {} THEN "occupied"
    ELSE "none"

\* The body names what some review showed.
Confirm(r) ==
    /\ r \in Confirmations /\ asked[r].pc = "idle"
    /\ \E k \in Keys, m \in Reviewed :
          LET q == [NewRequest EXCEPT !.key = k, !.wants = m] IN
          asked' = [asked EXCEPT ![r] =
              IF Prior(q) # "none" THEN [q EXCEPT !.pc = "ended", !.answer = Prior(q)]
                                   ELSE [q EXCEPT !.pc = "link"]]
    /\ UNCHANGED <<head, selects, offered, purchase, hold>>

\* Mutation: the documents are read without a lock.
DocumentsFree_Always == TRUE

Pinning == {r \in Confirmations : asked[r].pc = "record"}

\* pin_purchase holds the user's row to its end.
UserLocked == Pinning # {}

\* LOCK TABLE document_versions IN SHARE MODE: no release is seeded meanwhile.
DocumentsFree == ~UserLocked

\* The head and the documents now, and the link and the offer read before,
\* are what the user has seen.
AsWanted(q) ==
    /\ head = q.wants.revision /\ q.link = q.wants.revision
    /\ q.offer = q.wants.offer
    /\ InForce = q.documents /\ InForce = q.wants.documents

Pin(r) ==
    LET q == asked[r] IN
    /\ q.pc = "pin" /\ ~UserLocked
    /\ IF Prior(q) # "none" THEN EndWith(r, Prior(q))
       ELSE IF ~Sufficient(InForce) THEN EndWith(r, "unavailable")
       ELSE IF ~AsWanted(q) THEN EndWith(r, "changed")
       ELSE asked' = [asked EXCEPT ![r].pc = "record", ![r].day = day]
    /\ UNCHANGED <<head, selects, offered, purchase, hold>>

\* The acceptances are written from a second read of the documents; then the
\* purchase, its hold and its operations, in one commit.
Record(r) ==
    LET q == asked[r] IN
    /\ q.pc = "record"
    /\ purchase' = [p \in DOMAIN purchase \cup {r} |->
                        IF p \in DOMAIN purchase THEN purchase[p]
                        ELSE [key |-> q.key, wants |-> q.wants, offer |-> q.offer,
                              documents |-> q.documents, agreed |-> Effective(q.day)]]
    /\ hold' = {r}
    /\ EndWith(r, "accepted")
    /\ UNCHANGED <<head, selects, offered>>

\* A request fails, is refused, or ends with its session; a transaction that
\* has not committed leaves nothing.
Drop(r) ==
    /\ asked[r].pc \notin {"idle", "ended"}
    /\ EndWith(r, "failed")
    /\ UNCHANGED <<head, selects, offered, purchase, hold>>

-----------------------------------------------------------------------------
(* What changes the terms *)

\* publish_product_link takes the product's lock, which pin_purchase holds.
Publish(o) ==
    /\ head < MaxRevision /\ ~UserLocked
    /\ head' = head + 1
    /\ selects' = [selects EXCEPT ![head + 1] = o]
    /\ UNCHANGED <<offered, asked, purchase, hold>>

\* The seller changes an offer, or stops selling it.
Change(o) ==
    /\ offered[o] \in 1..MaxTerms
    /\ \E t \in {0, offered[o] + 1} \cap (0..MaxTerms) : offered' = [offered EXCEPT ![o] = t]
    /\ UNCHANGED <<head, selects, asked, purchase, hold>>

\* changed_unsent_terms: a purchase not sent yet whose offer has changed.
Release(p) ==
    /\ p \in hold
    /\ purchase[p].offer # <<purchase[p].offer[1], offered[purchase[p].offer[1]]>>
    /\ hold' = {}
    /\ UNCHANGED <<head, selects, offered, asked, purchase>>

TermsNext ==
    \/ \E r \in Requests :
          \/ ReadLink(r) \/ ReadOffer(r) \/ ReadDocuments(r) \/ Pin(r) \/ Record(r) \/ Drop(r)
    \/ \E o \in Offers : Publish(o) \/ Change(o)
    \/ \E p \in hold : Release(p)

-----------------------------------------------------------------------------
(* Properties *)

\* What a purchase records is what its user was shown, and all of it stands
\* together when it is recorded: the link is the current one, its offer was
\* read during this very request, and the documents accepted are those in
\* force (service.py:320-371).
AcceptedStands ==
    [][\A r \in DOMAIN purchase' \ DOMAIN purchase :
          LET p == purchase'[r] IN
          /\ p.wants.revision = head /\ selects[head] = p.offer[1]
          /\ p.wants.offer = p.offer /\ p.offer[2] >= asked[r].begun
          /\ p.wants.documents = p.documents /\ p.agreed = p.documents
          /\ p.documents \subseteq active]_terms

\* A confirmation repeated, also at the same time, is answered with the
\* purchase of its key if it meant the same, and never told that the product
\* is taken by what it itself has bought (service.py:277-293, 311-315).
RepeatsAreAnswered ==
    [][\A r \in Confirmations :
          LET q == asked'[r]  same == {p \in DOMAIN purchase' : purchase'[p].key = q.key} IN
          q.answer # asked[r].answer =>
              /\ q.answer = "accepted" => \E p \in same : purchase'[p].wants = q.wants
              /\ q.answer = "occupied" => same = {} /\ hold # {}
              /\ q.answer = "conflict" => \E p \in same : purchase'[p].wants # q.wants]_terms

\* Every confirmation is answered for what it is: a purchase on terms that stand,
\* or the purchase its key has made before.
PurchasesAreAnswered == AcceptedStands /\ RepeatsAreAnswered
=============================================================================
