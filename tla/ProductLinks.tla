---------------------------- MODULE ProductLinks ----------------------------
(***************************************************************************)
(* The link of a product to an offer of the provider: publication by an    *)
(* operator (domains/catalog/link_publication.py), the storage account all *)
(* of it happens in, which customers share (domains/billing/               *)
(* customer_scope.py), and the acceptance of a link by a purchase          *)
(* (domains/purchases/service.py).                                         *)
(*                                                                         *)
(* One provider origin.  Its publications, reservations and acceptances    *)
(* hold the connection's advisory lock from their first read to the end of *)
(* their transaction, so each is one action.  The exception is a commit    *)
(* whose acknowledgement is lost: the database finishes it later, one way  *)
(* or the other, and holds the lock until then.                            *)
(***************************************************************************)
EXTENDS Integers, FiniteSets

CONSTANTS
    Users, Products, Offers,
    Accounts,       \* storage scopes: external_billing_account_id
    Default,        \* the account derived from the origin alone
    Credentials,    \* provider user names processes are configured with
    Legacy,         \* the account derived from each of them in the past
    Commands,       \* publish commands of operators; each has a revision id
    Kept,           \* ids of revisions older than recorded origins
    Databases,      \* retained databases to begin with: see Retained
    NoRevision, NoRequest, NoOffer, NoAccount,
    MaxExpected     \* bound: the greatest --expected-previous-revision

Revision == [account : Accounts, product : Products, offer : Offers,
             number : Nat \ {0},            \* product_revision_number
             offerNumber : Nat \ {0}]       \* revision_number of the row

Ids == Commands \cup Kept

\* A retained database: revisions, heads that point at some of them, and
\* customers of some accounts, "unbound" or in use.  All of it was written
\* before origins were recorded: provider_origin is NULL.
Retained == [revision : [Kept -> Revision \cup {NoRevision}],
             head : [Accounts -> [Products -> Kept \cup {NoRevision}]],
             use : [Users -> [Accounts -> {"none", "unbound", "used"}]]]

\* The head's foreign key: it names a revision of its own account, and
\* publication writes it for the product of that revision.
HeadsFit(revision, head) ==
    \A a \in Accounts, p \in Products :
        head[a][p] # NoRevision =>
            /\ revision[head[a][p]] # NoRevision
            /\ revision[head[a][p]].account = a
            /\ revision[head[a][p]].product = p

ASSUME AccountAssumption ==
    /\ Default \in Accounts
    /\ NoAccount \notin Accounts
    /\ Legacy \in [Credentials -> Accounts]
ASSUME NullAssumption ==
    /\ NoRevision \notin Revision \cup Commands \cup Kept
    /\ NoRequest \notin [product : Products, offer : Offers, expected : Nat, credentials : Credentials]
    /\ NoOffer \notin Offers
    /\ Commands \cap Kept = {}
ASSUME DatabaseAssumption ==
    /\ Databases \subseteq Retained
    /\ \A d \in Databases : HeadsFit(d.revision, d.head)
ASSUME BoundAssumption == MaxExpected \in Nat

VARIABLES
    revision,   \* commercial_mapping_revisions: immutable rows
    head,       \* commercial_product_heads: the current revision
    proven,     \* heads whose provider_origin is recorded
    customer,   \* external_billing_customers
    command,    \* the program counter and locals of every publish command
    inflight    \* the write whose commit the database has yet to decide

vars == <<revision, head, proven, customer, command, inflight>>

-----------------------------------------------------------------------------
(* State *)

\* "used": a create request may have left, or an identity is bound.
Customer == [use : {"none", "unbound", "used"}, proven : BOOLEAN]

\* What an operator asks: the product, the offer, and the number that
\* --expected-previous-revision names, with the credentials of the process.
Request == [product : Products, offer : Offers, expected : Nat, credentials : Credentials]

Answers == {"none", "inserted", "recovered", "unchanged", "refused", "conflict",
            "failed", "uncertain"}

\* The request is kept where an insertion was tried.
Command == [pc : {"idle", "recover", "ended"},
            request : Request \cup {NoRequest},
            row : Revision \cup {NoRevision},   \* what it tried to insert
            answer : Answers]

NewCommand == [pc |-> "idle", request |-> NoRequest, row |-> NoRevision, answer |-> "none"]

\* An undecided write inserts a revision and moves the head to it, or only
\* records the origin of the head; a place is an account and a product.
Places  == Accounts \X Products
Write   == [id : Ids, row : Revision \cup {NoRevision}, place : Places]
NoWrite == [id |-> NoRevision]

TypeOK ==
    /\ revision \in [Ids -> Revision \cup {NoRevision}]
    /\ head \in [Accounts -> [Products -> Ids \cup {NoRevision}]]
    /\ proven \in SUBSET Places
    /\ customer \in [Users -> [Accounts -> Customer]]
    /\ command \in [Commands -> Command]
    /\ inflight \in Write \cup {NoWrite}

Init ==
    /\ \E d \in Databases :
        /\ revision = [i \in Ids |-> IF i \in Kept THEN d.revision[i] ELSE NoRevision]
        /\ head = d.head
        /\ customer = [u \in Users |-> [a \in Accounts |->
                          [use |-> d.use[u][a], proven |-> FALSE]]]
    /\ proven = {}
    /\ command = [c \in Commands |-> NewCommand]
    /\ inflight = NoWrite

-----------------------------------------------------------------------------
(* The account of the connection *)

\* connection_accounts
ProvenAccounts ==
    {place[1] : place \in proven}
        \cup {a \in Accounts : \E u \in Users : customer[u][a].proven}

HasHead(a, p) == head[a][p] # NoRevision

\* connection_heads: of the default account, of this origin, or unproven and
\* of the account these credentials once had.
Visible(k) == {place \in Places :
                  /\ HasHead(place[1], place[2])
                  /\ place[1] \in {Default, Legacy[k]} \/ place \in proven}

\* resolve_connection_scope; more than one account is a conflict.
Scopes(k) == ProvenAccounts \cup {place[1] : place \in Visible(k)}

Resolved(k, a) == IF Scopes(k) = {} THEN a = Default ELSE Scopes(k) = {a}

\* Mutation: the retained revisions are forgotten.
Compatible_Customers(a, p) ==
    \A u \in Users, b \in Accounts \ {a} : customer[u][b].use # "used"

\* require_compatible_connection
Compatible(a, p) ==
    /\ \A u \in Users, b \in Accounts \ {a} : customer[u][b].use # "used"
    /\ \A i \in Ids :
        revision[i] # NoRevision /\ revision[i].product = p => revision[i].account = a

\* require_offer_product_owner: no other current head of the account.
Owner(a, p, o) ==
    \A q \in Products \ {p} : HasHead(a, q) => revision[head[a][q]].offer # o

\* query_product_link: what a process shows as the current link.
Shows(k, p, i) ==
    \E a \in Accounts :
        /\ head[a][p] = i
        /\ Resolved(k, a)
        /\ Compatible(a, p)
        /\ i # NoRevision => Owner(a, p, revision[i].offer)

-----------------------------------------------------------------------------
(* Publication (publish_product_link) *)

\* Mutation: nothing serialises the transactions of one origin.
Unlocked_Never == TRUE

Unlocked == inflight = NoWrite

Answer(c, answer) ==
    command' = [command EXCEPT ![c].pc = "ended", ![c].answer = answer]

\* The fresh evaluation reads nothing of what is modelled here, so that a
\* command begins with its transaction: it has the lock, the account is a,
\* and there the product may be linked to the offer.
Admitted(c, r, a) ==
    /\ command[c].pc = "idle"
    /\ Unlocked
    /\ Resolved(r.credentials, a)
    /\ Compatible(a, r.product)
    /\ Owner(a, r.product, r.offer)

Refuse(c, r) ==
    /\ command[c].pc = "idle"
    /\ Unlocked
    /\ \A a \in Accounts : ~Admitted(c, r, a)
    /\ Answer(c, "refused")
    /\ UNCHANGED <<revision, head, proven, customer, inflight>>

\* A lock timeout, the deadline, or a definite error: nothing is written.
Fail(c) ==
    /\ command[c].pc = "idle"
    /\ Answer(c, "failed")
    /\ UNCHANGED <<revision, head, proven, customer, inflight>>

\* The identity of a link is its account, product and offer.
Unchanged(r, a) ==
    /\ HasHead(a, r.product)
    /\ revision[head[a][r.product]].offer = r.offer

\* The association stands; what may be missing is its origin.
Same(c, r, a) ==
    /\ Admitted(c, r, a)
    /\ Unchanged(r, a)
    /\ proven' = proven \cup {<<a, r.product>>}
    /\ Answer(c, "unchanged")
    /\ UNCHANGED <<revision, head, customer, inflight>>

\* An error of this commit is not looked into.
SameLost(c, r, a) ==
    /\ Admitted(c, r, a)
    /\ Unchanged(r, a)
    /\ <<a, r.product>> \notin proven
    /\ inflight' = [id |-> head[a][r.product], row |-> NoRevision, place |-> <<a, r.product>>]
    /\ Answer(c, "uncertain")
    /\ UNCHANGED <<revision, head, proven, customer>>

\* The number of the product's current revision.
Number(a, p) == IF HasHead(a, p) THEN revision[head[a][p]].number ELSE 0

\* The latest number of the offer, over all products it was linked to; 0 if
\* it never was.
OfferNumbers(a, o) ==
    {0} \cup {revision[i].offerNumber : i \in {j \in Ids :
        revision[j] # NoRevision /\ revision[j].account = a /\ revision[j].offer = o}}
IsLatest(n, a, o) == n \in OfferNumbers(a, o) /\ \A m \in OfferNumbers(a, o) : m <= n

Conflict(c, r, a) ==
    /\ Admitted(c, r, a)
    /\ ~Unchanged(r, a)
    /\ r.expected # Number(a, r.product)
    /\ Answer(c, "conflict")
    /\ UNCHANGED <<revision, head, proven, customer, inflight>>

Row(r, a, n) ==
    [account |-> a, product |-> r.product, offer |-> r.offer,
     number |-> Number(a, r.product) + 1,
     offerNumber |-> n + 1]

\* n is the latest number of the offer.
Inserts(c, r, a, n) ==
    /\ Admitted(c, r, a)
    /\ ~Unchanged(r, a)
    /\ r.expected = Number(a, r.product)
    /\ IsLatest(n, a, r.offer)

\* The writes of a publication, when they become visible.
Apply(id, row, place) ==
    /\ revision' = IF row = NoRevision THEN revision ELSE [revision EXCEPT ![id] = row]
    /\ head' = [head EXCEPT ![place[1]][place[2]] = id]
    /\ proven' = proven \cup {place}

Insert(c, r, a, n) ==
    /\ Inserts(c, r, a, n)
    /\ Apply(c, Row(r, a, n), <<a, r.product>>)
    /\ command' = [command EXCEPT ![c] =
          [pc |-> "ended", request |-> r, row |-> Row(r, a, n), answer |-> "inserted"]]
    /\ UNCHANGED <<customer, inflight>>

\* The commit is sent and no answer comes.
InsertLost(c, r, a, n) ==
    /\ Inserts(c, r, a, n)
    /\ inflight' = [id |-> c, row |-> Row(r, a, n), place |-> <<a, r.product>>]
    /\ command' = [command EXCEPT ![c] =
          [pc |-> "recover", request |-> r, row |-> Row(r, a, n), answer |-> "none"]]
    /\ UNCHANGED <<revision, head, proven, customer>>

\* The database decides an undecided commit and releases the lock.
Commits ==
    /\ inflight # NoWrite
    /\ Apply(inflight.id, inflight.row, inflight.place)
    /\ inflight' = NoWrite
    /\ UNCHANGED <<customer, command>>

RollsBack ==
    /\ inflight # NoWrite
    /\ inflight' = NoWrite
    /\ UNCHANGED <<revision, head, proven, customer, command>>

\* query_link_history for the offer and the number the command tried.
Found(row, i) ==
    /\ revision[i] # NoRevision
    /\ revision[i].account = row.account
    /\ revision[i].offer = row.offer
    /\ revision[i].offerNumber = row.offerNumber

\* Mutation: any row of that number will do.
Recover_AnyId(c) ==
    /\ command[c].pc = "recover"
    /\ \E i \in Ids : Found(command[c].row, i)
    /\ Answer(c, "recovered")
    /\ UNCHANGED <<revision, head, proven, customer, inflight>>

\* The history is read without the lock: an undecided row is not seen.
Recover(c) ==
    /\ command[c].pc = "recover"
    /\ Found(command[c].row, c)
    /\ Answer(c, "recovered")
    /\ UNCHANGED <<revision, head, proven, customer, inflight>>

\* Nothing found, somebody else's row, or the read fails.
GiveUp(c) ==
    /\ command[c].pc = "recover"
    /\ Answer(c, "uncertain")
    /\ UNCHANGED <<revision, head, proven, customer, inflight>>

-----------------------------------------------------------------------------
(* Customers and purchases *)

\* customer_account, with what it refuses.
CustomerAccount(k, u, a) ==
    /\ Unlocked
    /\ IF ProvenAccounts = {} THEN a = Default ELSE ProvenAccounts = {a}
    /\ \A place \in Visible(k) \ proven : place[1] = a
    /\ \A b \in Accounts \ {a} : customer[u][b].use # "used"

\* reserve_customer_in_transaction refuses a row without an origin.
Reserves(k, u, a) ==
    /\ CustomerAccount(k, u, a)
    /\ customer[u][a].use = "none" \/ customer[u][a].proven

Reserved(u, a) ==
    IF customer[u][a].proven THEN customer
    ELSE [customer EXCEPT ![u][a] = [use |-> "unbound", proven |-> TRUE]]

Reserve(k, u, a) ==
    /\ Reserves(k, u, a)
    /\ customer' = Reserved(u, a)
    /\ UNCHANGED <<revision, head, proven, command, inflight>>

\* claim_customer_send and a binding; release_customer_send of a claim.
Use(u, a) ==
    /\ customer[u][a].proven
    /\ \E use \in {"unbound", "used"} : customer' = [customer EXCEPT ![u][a].use = use]
    /\ UNCHANGED <<revision, head, proven, command, inflight>>

\* Mutation: the head is not compared with the accepted revision.
Acceptable_OldHead(k, u, i) ==
    /\ revision[i] # NoRevision
    /\ LET a == revision[i].account
           p == revision[i].product
       IN  /\ <<a, p>> \in proven
           /\ Owner(a, p, revision[i].offer)
           /\ Reserves(k, u, a)

\* pin_purchase of a revision that some query showed at some time; the
\* purchase itself is the business of PurchaseOps.
Acceptable(k, u, i) ==
    /\ revision[i] # NoRevision
    /\ LET a == revision[i].account
           p == revision[i].product
       IN  /\ head[a][p] = i
           /\ <<a, p>> \in proven
           /\ Owner(a, p, revision[i].offer)
           /\ Reserves(k, u, a)

Accept(k, u, i) ==
    /\ Acceptable(k, u, i)
    /\ customer' = Reserved(u, revision[i].account)
    /\ UNCHANGED <<revision, head, proven, command, inflight>>

Publish(c, r) ==
    \/ Refuse(c, r)
    \/ \E a \in Accounts :
        \/ Same(c, r, a) \/ SameLost(c, r, a) \/ Conflict(c, r, a)
        \/ /\ Admitted(c, r, a)
           /\ \E n \in OfferNumbers(a, r.offer) : Insert(c, r, a, n) \/ InsertLost(c, r, a, n)

Next ==
    \/ \E c \in Commands :
        \/ Fail(c) \/ Recover(c) \/ GiveUp(c)
        \/ \E p \in Products, o \in Offers, k \in Credentials, e \in 0..MaxExpected :
              Publish(c, [product |-> p, offer |-> o, expected |-> e, credentials |-> k])
    \/ Commits \/ RollsBack
    \/ \E u \in Users, a \in Accounts : Use(u, a) \/ \E k \in Credentials : Reserve(k, u, a)
    \/ \E k \in Credentials, u \in Users, i \in Ids : Accept(k, u, i)

Spec == Init /\ [][Next]_vars

-----------------------------------------------------------------------------
(* Properties *)

\* All proven links and all customers of the origin live in one account,
\* whatever credentials operators and portal processes are configured with
\* and in whichever order first links, first customers and proofs of
\* retained links are committed (resolve_connection_scope, customer_account).
OneAccount == \A a, b \in ProvenAccounts : a = b

\* The offer of a proven link is no other product's current offer in that
\* account, even if retained links share one.
OneOwner ==
    \A place \in proven :
        Owner(place[1], place[2], revision[head[place[1]][place[2]]].offer)

\* Two processes with different credentials, one of which may see retained
\* links the other does not, never show different links for a product:
\* they agree or one of them refuses.
Shown(p) == {i \in Ids \cup {NoRevision} : \E k \in Credentials : Shows(k, p, i)}

AgreeOnCurrent == \A p \in Products : \A i, j \in Shown(p) : i = j

\* The origin has one account, an offer one product, a product one link that
\* anybody shows.
OneCatalog == OneAccount /\ OneOwner /\ AgreeOnCurrent

\* What a command tells its operator is and stays true: a revision it
\* reports exists, is its own and follows the number the operator named;
\* and when it reports a refusal, a conflict or a failure nothing of it is
\* or will be published.
AnswersAreTrue ==
    \A c \in Commands :
        /\ command[c].answer \in {"inserted", "recovered"} =>
              /\ revision[c] # NoRevision
              /\ revision[c].product = command[c].request.product
              /\ revision[c].offer = command[c].request.offer
              /\ revision[c].number = command[c].request.expected + 1
        /\ command[c].answer \in {"refused", "conflict", "failed", "unchanged"} =>
              /\ revision[c] = NoRevision
              /\ inflight.id # c

\* A purchase can only pin the link the catalog would show at that moment
\* to the same process, although it was read in an earlier transaction and
\* the acceptance neither resolves the account again nor looks for
\* contradicting history.
AcceptedIsCurrent ==
    \A k \in Credentials, u \in Users, i \in Ids :
        Acceptable(k, u, i) => Shows(k, revision[i].product, i)

\* The proven links are compare-and-set registers in one account: a command
\* whose acknowledgement was lost, or which named an old number, never
\* overwrites or repeats another's publication.
Home == IF ProvenAccounts = {} THEN NoAccount ELSE CHOOSE a \in ProvenAccounts : TRUE

Links ==
    LET a == Home
    IN  [p \in Products |->
            IF <<a, p>> \in proven
            THEN [number |-> Number(a, p), offer |-> revision[head[a][p]].offer]
            ELSE [number |-> 0, offer |-> NoOffer]]

Register == INSTANCE LinkRegister WITH home <- Home, link <- Links
LinksAreRegisters == Register!Spec
=============================================================================
