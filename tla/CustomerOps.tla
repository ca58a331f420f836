----------------------------- MODULE CustomerOps -----------------------------
(***************************************************************************)
(* The account-wide customer create operation of the billing API:          *)
(* domains/billing/customers.py and customer_reviews.py (each function one *)
(* transaction under the customer's row lock), driven by the bounded       *)
(* discover/create/recover loop of composition/billing.py.                 *)
(*                                                                         *)
(* An opening is one POST of the account Widget: it reserves the slot,     *)
(* searches the provider, claims a send, posts, saves the receipt, proves  *)
(* the identity by a point read and issues a credential, or ends without   *)
(* one.  Openings of one customer run concurrently; only transactions are  *)
(* atomic.  The provider processes a POST at any time after its dispatch,  *)
(* also after the opening that sent it has given up.                       *)
(***************************************************************************)
EXTENDS Integers, FiniteSets

CONSTANTS
    Customers,      \* portal users with a slot in the billing account
    Openings,       \* explicit openings, each of one customer
    Owner,          \* the customer of each opening
    Earlier,        \* bound: customers that may have been bound long before
    Ids,            \* provider user ids
    NoId,           \* no provider id
    NoKey,          \* a provider user without an outer id
    OtherKey,       \* an outer id that is no customer's key
    Total,          \* preflight_total_timeout_seconds
    Cleanup,        \* preflight_cleanup_timeout_seconds
    Window,         \* RECOVERY_WINDOW, two hours
    Slack,          \* how far transactions may overrun the budget (row lock
                    \* and statement timeouts of queries/billing_customers.py)
    MaxActive,      \* openings the billing admission lets run at once
    MaxTime,        \* bound: the clock stops here
    MaxRekeys,      \* bound: outer ids changed at the provider by hand
    UniqueEmail     \* the provider refuses a second user with one email

ASSUME OwnerAssumption == Owner \in [Openings -> Customers] /\ Earlier \subseteq Customers
ASSUME NullAssumption  == NoId \notin Ids /\ NoKey \notin Customers
                          /\ OtherKey \notin Customers
ASSUME TimeAssumption  == /\ Total \in Nat /\ Cleanup \in Nat
                          /\ Window \in Nat /\ Slack \in Nat /\ MaxTime \in Nat
                          /\ 0 < Cleanup /\ Cleanup < Total
                          /\ Total + Slack < Window
ASSUME BoundAssumption == MaxActive \in Nat /\ MaxRekeys \in Nat /\ UniqueEmail \in BOOLEAN

VARIABLES
    clock,
    slot,       \* external_billing_customers: binding state and provider id
    op,         \* external_create_operations: the one customer operation
    lease,      \* billing_work_items: active-send lease
    reviews,    \* open manual_review_cases of the operation
    opening,    \* the program counter and locals of every opening
    users,      \* the provider's users: outer id and email
    posts,      \* POSTs dispatched and not yet processed by the provider
    rekeys      \* how often an outer id was changed by hand

portal == <<slot, op, lease, reviews>>
remote == <<users, posts, rekeys>>
vars   == <<clock, portal, opening, remote>>

-----------------------------------------------------------------------------
(* State *)

MaybeId == Ids \cup {NoId}
Keys    == Customers \cup {NoKey, OtherKey}

Reviews == {"unknown", "key", "identity", "already_bound"}

\* Steps that wait for the provider or a timer, under the opening's budget.
Remote == {"key", "email", "point", "prepare", "await", "wait", "client"}
\* Steps that are a transaction, or plain code, and are not cut off by the budget.
Local  == {"reserve", "claim", "send", "receipt", "release", "finish",
           "apply", "elsewhere", "ambiguous", "recheck"}
\* The steps between an opening's grant of a send and its next reservation.
Sending == {"send", "await", "receipt", "release", "finish"}
Ended   == {"issued", "refused", "failed", "stopped"}
Running == Remote \cup Local

Slot == [binding : {"absent", "unbound", "bound", "conflict"}, id : MaybeId]

Operation == [state : {"none", "pending", "possible_send", "unknown",
                       "manual_review", "bound"},
              fence : Nat,           \* send_fence
              receipt : MaybeId,     \* candidate id of the POST's receipt
              bound : MaybeId,       \* bound_external_object_id
              deadline : Nat]        \* unknown_recovery_deadline_at

Lease == [owner : Nat, expires : Nat]

Opening == [pc : {"idle"} \cup Running \cup Ended,
            deadline : Nat,          \* end of the nonrenewable budget
            first : Nat \cup {-1},   \* fence of the caller's own first snapshot
            fence : Nat,             \* snapshot: the operation's send fence
            saved : MaybeId,         \* snapshot: provider id, else receipt
            id : MaybeId,            \* candidate or receipt in hand
            key : Keys,              \* outer id the point read returned
            failure : {"none", "temporary", "permanent", "refused"},
            taken : BOOLEAN,         \* the email was refused as not unique
            wake : Nat]              \* end of the retry wait

NewOpening == [pc |-> "idle", deadline |-> 0, first |-> -1, fence |-> 0, saved |-> NoId,
               id |-> NoId, key |-> NoKey, failure |-> "none",
               taken |-> FALSE, wake |-> 0]

NoLease == [owner |-> 0, expires |-> 0]

TypeOK ==
    /\ clock \in 0..MaxTime
    /\ slot \in [Customers -> Slot]
    /\ op \in [Customers -> Operation]
    /\ lease \in [Customers -> Lease]
    /\ \A c \in Customers : lease[c].owner = 0 <=> lease[c].expires = 0
    /\ reviews \in [Customers -> SUBSET Reviews]
    /\ opening \in [Openings -> Opening]
    /\ \A o \in Openings :
          opening[o].first = -1 => opening[o].pc \in {"idle", "reserve"} \cup Ended
    /\ users \in [Ids -> [live : BOOLEAN, key : Keys, email : Customers]]
    /\ posts \in SUBSET [fence : Nat, customer : Customers]
    /\ rekeys \in 0..MaxRekeys

\* Who has which provider user since long before: nobody shares one.
Retained ==
    {own \in [Customers -> Ids \cup {NoId}] :
        /\ \A c \in Customers \ Earlier : own[c] = NoId
        /\ \A c, d \in Customers : c # d /\ own[c] # NoId => own[c] # own[d]}

Init ==
    /\ clock = 0
    /\ \E own \in Retained :
        /\ slot = [c \in Customers |->
                      [binding |-> IF own[c] = NoId THEN "absent" ELSE "bound", id |-> own[c]]]
        /\ op = [c \in Customers |->
                    [state |-> IF own[c] = NoId THEN "none" ELSE "bound", fence |-> 0,
                     receipt |-> NoId, bound |-> own[c], deadline |-> 0]]
        \* At most one provider user with a customer's email was made by someone else.
        /\ \E i \in Ids, c \in Customers, live \in BOOLEAN :
           \E k \in {NoKey, OtherKey} :
              /\ live => c \notin Earlier
              /\ users = [j \in Ids |->
                   IF \E d \in Customers : own[d] = j
                   THEN LET d == CHOOSE d \in Customers : own[d] = j
                        IN [live |-> TRUE, key |-> d, email |-> d]
                   ELSE [live |-> live /\ j = i, key |-> k, email |-> c]]
    /\ lease = [c \in Customers |-> NoLease]
    /\ reviews = [c \in Customers |-> {}]
    /\ opening = [o \in Openings |-> NewOpening]
    /\ posts = {}
    /\ rekeys = 0

-----------------------------------------------------------------------------
(* Admission and recovery (customer_reviews.py) *)

\* customer_admission_reviews: what authorizes a send or a credential.
Admitted(c) == slot[c].binding # "conflict" /\ reviews[c] \subseteq {"unknown"}

\* The narrowly evidenced cause: the id that was proven before lost its key.
KeyRecovery(c) ==
    /\ "key" \in reviews[c]
    /\ slot[c].id # NoId
    /\ op[c].bound = slot[c].id
    /\ op[c].state = "manual_review"

\* Mutation: a proven id is reason enough to read and bind again.
Recoverable_ProvenId(c) == slot[c].id # NoId \/ Admitted(c)

\* customer_recovery_reviews: what authorizes reading and binding.
Recoverable(c) ==
    IF KeyRecovery(c) THEN reviews[c] \subseteq {"unknown", "key"} ELSE Admitted(c)

\* A send fence is a fresh uuid4; it is only compared with fences of the same
\* operation, so the fences of one operation are numbered as they are drawn.
NewFence(c) == op[c].fence + 1

Saved(c) == IF slot[c].id # NoId THEN slot[c].id ELSE op[c].receipt

-----------------------------------------------------------------------------
(* Openings: helpers *)

At(o, pc) == opening[o].pc = pc
InBudget(o) == clock < opening[o].deadline
Current(o)  == op[Owner[o]].fence = opening[o].fence

\* A step of opening o to pc that keeps its snapshot and drops the candidate.
Goto(o, pc) ==
    opening' = [opening EXCEPT ![o].pc = pc, ![o].id = NoId, ![o].key = NoKey]

\* The opening is over; nothing of its state is used again.
End(o, pc) == opening' = [opening EXCEPT ![o] = [NewOpening EXCEPT !.pc = pc]]

\* Back to a fresh snapshot: only the failure facts of this opening survive.
Again(o, pc, wake, failure) ==
    opening' = [opening EXCEPT ![o] =
                  [NewOpening EXCEPT !.pc = pc, !.wake = wake, !.failure = failure,
                     !.deadline = opening[o].deadline, !.first = opening[o].first,
                     !.taken = opening[o].taken]]

\* _customer_retry_wait; a temporary failure is forgotten after the wait.
Wait(o) ==
    IF clock + 1 < opening[o].deadline
    THEN Again(o, "wait", clock + 1,
               IF opening[o].failure = "temporary" THEN "none" ELSE opening[o].failure)
    ELSE End(o, "stopped")

\* Complete discovery found no user of this customer.
NotFound(o) ==
    IF opening[o].failure = "permanent" /\ ~opening[o].taken
    THEN End(o, "failed")
    ELSE IF opening[o].failure = "none" /\ ~opening[o].taken
         THEN Goto(o, "prepare")
         ELSE Wait(o)

-----------------------------------------------------------------------------
(* Openings: steps *)

Open(o) ==
    /\ At(o, "idle")
    /\ Cardinality({p \in Openings : opening[p].pc \in Running}) < MaxActive
    /\ clock + Total <= MaxTime
    /\ opening' = [opening EXCEPT ![o].pc = "reserve", ![o].deadline = clock + Total]
    /\ UNCHANGED <<clock, portal, remote>>

\* reserve_customer: the slot and its operation, once, and a fresh snapshot.
Reserve(o) ==
    LET c == Owner[o] IN
    /\ At(o, "reserve")
    /\ slot' = IF slot[c].binding = "absent"
               THEN [slot EXCEPT ![c].binding = "unbound"] ELSE slot
    /\ op' = IF op[c].state = "none" THEN [op EXCEPT ![c].state = "pending"] ELSE op
    /\ IF Recoverable(c)
       THEN opening' = [opening EXCEPT
                          ![o].pc = IF Saved(c) = NoId THEN "key" ELSE "point",
                          ![o].first = IF @ = -1 THEN op[c].fence ELSE @,
                          ![o].fence = op[c].fence, ![o].saved = Saved(c),
                          ![o].id = Saved(c), ![o].key = NoKey]
       ELSE End(o, "refused")
    /\ UNCHANGED <<clock, lease, reviews, remote>>

\* _find_customer: candidates by original key, then by email.
Found(o, ids) ==
    \/ \E i \in ids : /\ ids = {i}
                      /\ opening' = [opening EXCEPT ![o].pc = "point", ![o].id = i]
    \/ (\E i, j \in ids : i # j) /\ Goto(o, "ambiguous")

FindByKey(o) ==
    /\ At(o, "key") /\ InBudget(o)
    /\ LET ids == {i \in Ids : users[i].live /\ users[i].key = Owner[o]} IN
       Found(o, ids) \/ (ids = {} /\ Goto(o, "email"))
    /\ UNCHANGED <<clock, portal, remote>>

FindByEmail(o) ==
    /\ At(o, "email") /\ InBudget(o)
    /\ LET ids == {i \in Ids : users[i].live /\ users[i].email = Owner[o]} IN
       Found(o, ids) \/ (ids = {} /\ NotFound(o))
    /\ UNCHANGED <<clock, portal, remote>>

\* The search by key answers for somebody else: the caller reports it with the
\* snapshot it took first, which a later claim of this opening made stale.
ScopeMismatch(o) ==
    /\ At(o, "key") /\ InBudget(o)
    /\ opening' = [opening EXCEPT ![o].pc = "ambiguous", ![o].fence = opening[o].first]
    /\ UNCHANGED <<clock, portal, remote>>

\* get_user: the paired identity of one id.
PointRead(o) ==
    /\ At(o, "point") /\ InBudget(o)
    /\ users[opening[o].id].live
    /\ opening' = [opening EXCEPT ![o].pc = "apply",
                                  ![o].key = users[opening[o].id].key]
    /\ UNCHANGED <<clock, portal, remote>>

\* prepare_customer_create: authenticate before a send is claimed.
Prepare(o) ==
    /\ At(o, "prepare") /\ InBudget(o)
    /\ Goto(o, "claim")
    /\ UNCHANGED <<clock, portal, remote>>

\* A read that fails for now is retried after a wait; any other ends the opening.
ReadFails(o) ==
    /\ opening[o].pc \in {"key", "email", "point", "prepare"} /\ InBudget(o)
    /\ Wait(o) \/ End(o, "failed")
    /\ UNCHANGED <<clock, portal, remote>>

WakeUp(o) ==
    /\ At(o, "wait") /\ clock >= opening[o].wake /\ InBudget(o)
    /\ Again(o, "reserve", 0, opening[o].failure)
    /\ UNCHANGED <<clock, portal, remote>>

\* claim_customer_send: the fence, the lease and the recovery deadline are
\* committed before the POST.
LeaseActive(c) == lease[c].expires > clock

MayClaim(o) ==
    LET c == Owner[o] IN
    /\ Saved(c) = NoId
    /\ Current(o)
    /\ ~LeaseActive(c)

LeaseEnd == clock + Total + Cleanup

Claim(o) ==
    LET c == Owner[o]
        f == NewFence(c) IN
    /\ At(o, "claim")
    /\ IF Admitted(c) /\ MayClaim(o)
       THEN /\ op' = [op EXCEPT ![c].fence = f, ![c].state = "possible_send",
                                ![c].deadline = clock + Window]
            /\ lease' = [lease EXCEPT ![c] = [owner |-> f, expires |-> LeaseEnd]]
            /\ opening' = [opening EXCEPT ![o].pc = "send", ![o].fence = f]
       ELSE /\ IF Admitted(c) THEN Wait(o) ELSE End(o, "refused")
            /\ UNCHANGED <<op, lease>>
    /\ UNCHANGED <<clock, slot, reviews, remote>>

\* The request leaves the process: from here on the customer may exist.
Dispatch(o) ==
    /\ At(o, "send") /\ InBudget(o)
    /\ Goto(o, "await")
    /\ posts' = posts \cup {[fence |-> opening[o].fence, customer |-> Owner[o]]}
    /\ UNCHANGED <<clock, portal, users, rekeys>>

\* LbxCreateNotSent: the budget or the session ended before the dispatch.
NotSent(o) ==
    /\ At(o, "send")
    /\ Goto(o, "release")
    /\ UNCHANGED <<clock, portal, remote>>

\* The POST failed: a lost or ambiguous answer, or a permanent rejection.  Its
\* facts are recorded first, and that transaction may fail too.
CreateFails(o) ==
    /\ At(o, "await") /\ InBudget(o)
    /\ \E failure \in {"temporary", "permanent", "refused"} :
          opening' = [opening EXCEPT ![o].pc = "finish", ![o].failure = failure]
    /\ UNCHANGED <<clock, portal, remote>>

\* record_customer_receipt: the POST's id is kept before the point read.
ReceiptAccepted(o) ==
    LET c == Owner[o] IN
    /\ Current(o)
    /\ op[c].state \in {"possible_send", "unknown", "manual_review"}
    /\ op[c].receipt \in {NoId, opening[o].id}

RecordReceipt(o) ==
    /\ At(o, "receipt")
    /\ IF ReceiptAccepted(o)
       THEN /\ op' = [op EXCEPT ![Owner[o]].receipt = opening[o].id]
            /\ Goto(o, "finish")
       ELSE /\ opening' = [opening EXCEPT ![o].pc = "finish", ![o].id = NoId,
                                          ![o].failure = "refused"]
            /\ UNCHANGED op
    /\ UNCHANGED <<clock, slot, lease, reviews, remote>>

\* Mutation: a claim may be taken back with a stale fence.
ReleaseAccepted_AnyFence(o) ==
    op[Owner[o]].state = "possible_send" /\ Saved(Owner[o]) = NoId

\* release_unsent_claim: only the owner of the claim may take it back.
ReleaseAccepted(o) ==
    LET c == Owner[o] IN
    /\ Current(o)
    /\ op[c].state = "possible_send"
    /\ Saved(c) = NoId

Release(o) ==
    LET c == Owner[o] IN
    /\ At(o, "release")
    /\ IF ReleaseAccepted(o)
       THEN /\ op' = [op EXCEPT ![c].state = "pending", ![c].deadline = 0,
                                ![c].fence = NewFence(c)]
            /\ lease' = [lease EXCEPT ![c] = NoLease]
            /\ opening' = [opening EXCEPT ![o].pc = "finish", ![o].failure = "temporary"]
       ELSE /\ opening' = [opening EXCEPT ![o].pc = "finish", ![o].failure = "refused"]
            /\ UNCHANGED <<op, lease>>
    /\ UNCHANGED <<clock, slot, reviews, remote>>

\* finish_customer_attempt: a completed attempt gives up its own lease and
\* makes every snapshot taken while it was active stale.
Outstanding(c) == op[c].state = "possible_send" /\ slot[c].id = NoId

\* Mutation: the completed attempt leaves earlier snapshots valid.
FinishedOp_KeepsFence(c) ==
    IF Outstanding(c) THEN [op EXCEPT ![c].state = "unknown"] ELSE op

FinishedOp(c) ==
    IF Outstanding(c)
    THEN [op EXCEPT ![c].state = "unknown", ![c].fence = NewFence(c)]
    ELSE op

\* Mutation: the expiry outlives its owner.
FinishedLease_KeepsExpiry(o) ==
    IF lease[Owner[o]].owner = opening[o].fence
    THEN [lease EXCEPT ![Owner[o]].owner = 0] ELSE lease

FinishedLease(o) ==
    IF lease[Owner[o]].owner = opening[o].fence
    THEN [lease EXCEPT ![Owner[o]] = NoLease] ELSE lease

Finish(o) ==
    LET c == Owner[o] IN
    /\ At(o, "finish")
    /\ IF Current(o)
       THEN /\ op' = FinishedOp(c)
            /\ lease' = FinishedLease(o)
       ELSE UNCHANGED <<op, lease>>
    /\ IF opening[o].failure = "refused"
       THEN End(o, "refused")
       ELSE Again(o, "reserve", 0, opening[o].failure)
    /\ UNCHANGED <<clock, slot, reviews, remote>>

-----------------------------------------------------------------------------
(* Identity: apply_customer_read and recheck_widget_session *)

\* Mutation: proofs already in flight survive the conflict.
OpInConflict_KeepsFence(c) == [op EXCEPT ![c].state = "manual_review"]

\* record_customer_conflict: bars the customer and voids all earlier proof.
OpInConflict(c) ==
    [op EXCEPT ![c].state = "manual_review", ![c].fence = NewFence(c)]

RecordConflict(c, review) ==
    /\ slot' = [slot EXCEPT ![c].binding = "conflict"]
    /\ op' = OpInConflict(c)
    /\ reviews' = [reviews EXCEPT ![c] = @ \cup {review}]
    /\ UNCHANGED lease

\* Mutation: a candidate found by email is taken for the customer.
Contradicts_AnyKey(o) == slot[Owner[o]].id \notin {NoId, opening[o].id}

\* The point read contradicts the original pair of key and id.
Contradicts(o) ==
    LET c == Owner[o] IN
    \/ opening[o].key # c
    \/ slot[c].id \notin {NoId, opening[o].id}

\* Only the id that was proven before can lose its key.
OriginalId(o) ==
    LET c == Owner[o] IN
    /\ slot[c].binding \in {"bound", "conflict"}
    /\ slot[c].id = op[c].bound /\ op[c].bound = opening[o].id

\* Mutation: without the index.
BoundElsewhere_Never(o) == FALSE

\* The unique index on (account, provider_customer_id).
BoundElsewhere(o) ==
    \E d \in Customers \ {Owner[o]} : slot[d].id = opening[o].id

AlreadyBound(o) ==
    LET c == Owner[o] IN
    slot[c] = [binding |-> "bound", id |-> opening[o].id] /\ op[c].state = "bound"

Bind(o) ==
    LET c == Owner[o]
        i == opening[o].id
        f == IF AlreadyBound(o) THEN op[c].fence ELSE NewFence(c) IN
    /\ slot' = [slot EXCEPT ![c] = [binding |-> "bound", id |-> i]]
    /\ op' = [op EXCEPT ![c].state = "bound", ![c].bound = i, ![c].fence = f]
    /\ lease' = [lease EXCEPT ![c] = NoLease]
    /\ reviews' = [reviews EXCEPT ![c] = {}]
    /\ opening' = [opening EXCEPT ![o].pc = "client", ![o].fence = f, ![o].saved = i,
                                  ![o].id = NoId, ![o].key = NoKey]

ReadRefused(o) == ~Current(o) \/ ~Recoverable(Owner[o]) \/ opening[o].key = NoKey

\* A proof that meets the index rolls back; the row is locked anew to say so.
Apply(o) ==
    LET c == Owner[o] IN
    /\ At(o, "apply")
    /\ CASE ReadRefused(o) -> End(o, "refused") /\ UNCHANGED portal
         [] ~ReadRefused(o) /\ Contradicts(o) ->
               /\ RecordConflict(c, IF OriginalId(o) THEN "key" ELSE "identity")
               /\ End(o, "refused")
         [] ~ReadRefused(o) /\ ~Contradicts(o) /\ BoundElsewhere(o) ->
               Goto(o, "elsewhere") /\ UNCHANGED portal
         [] OTHER -> Bind(o)
    /\ UNCHANGED <<clock, remote>>

\* Nothing is compared again: it bars whatever the rows say by now.
RecordElsewhere(o) ==
    /\ At(o, "elsewhere")
    /\ RecordConflict(Owner[o], "already_bound") /\ End(o, "refused")
    /\ UNCHANGED <<clock, remote>>

\* apply_customer_read(ambiguous=True): more than one candidate, or the Client
\* API answered for somebody else.
Ambiguous(o) ==
    /\ At(o, "ambiguous")
    /\ IF Current(o) /\ Recoverable(Owner[o])
       THEN RecordConflict(Owner[o], "identity")
       ELSE UNCHANGED portal
    /\ End(o, "refused")
    /\ UNCHANGED <<clock, remote>>

\* client_user: the Client API answers for the bound customer (it may leave out
\* the outer id) or for somebody else.
ClientReady(o) ==
    /\ At(o, "client") /\ InBudget(o)
    /\ Goto(o, "recheck") \/ Goto(o, "ambiguous")
    /\ UNCHANGED <<clock, portal, remote>>

ClientFails(o) ==
    /\ At(o, "client") /\ InBudget(o)
    /\ End(o, "failed")
    /\ UNCHANGED <<clock, portal, remote>>

RecheckHolds(o) ==
    LET c == Owner[o] IN
    /\ slot[c] = [binding |-> "bound", id |-> opening[o].saved]
    /\ op[c].state = "bound"
    /\ Current(o)
    /\ Admitted(c)

Recheck(o) ==
    /\ At(o, "recheck")
    /\ End(o, IF RecheckHolds(o) /\ InBudget(o) THEN "issued" ELSE "refused")
    /\ UNCHANGED <<clock, portal, remote>>

-----------------------------------------------------------------------------
(* Interruption, time, escalation and the provider *)

\* Mutation: only retry waits are bounded.
Expire_WaitOnly(o) ==
    /\ opening[o].pc = "wait" /\ ~InBudget(o)
    /\ End(o, "stopped")
    /\ UNCHANGED <<clock, portal, remote>>

\* The budget is spent while waiting for the provider: the lease is kept.
Expire(o) ==
    /\ opening[o].pc \in Remote /\ ~InBudget(o)
    /\ End(o, "stopped")
    /\ UNCHANGED <<clock, portal, remote>>

\* A transaction is refused the row lock, or rolls back.  Inside the attempt the
\* lease is still given up on the way out.
TransactionFails(o) ==
    /\ opening[o].pc \in Local \ {"send"}
    /\ IF opening[o].pc \in {"receipt", "release"}
       THEN opening' = [opening EXCEPT ![o].pc = "finish", ![o].id = NoId,
                                       ![o].failure = "refused"]
       ELSE End(o, "refused")
    /\ UNCHANGED <<clock, portal, remote>>

\* The caller disconnects or the process dies.
Abort(o) ==
    /\ opening[o].pc \in Running
    /\ End(o, "stopped")
    /\ UNCHANGED <<clock, portal, remote>>

\* No budgeted wait outlives its deadline, no transaction outlives Slack.
Tick ==
    /\ clock < MaxTime
    /\ \A o \in Openings :
          /\ opening[o].pc \in Remote => InBudget(o)
          /\ opening[o].pc \in Local => clock < opening[o].deadline + Slack
    /\ clock' = clock + 1
    /\ UNCHANGED <<portal, opening, remote>>

\* escalate_overdue_customers: an unknown outcome past its deadline.
Overdue(c) ==
    op[c].state \in {"possible_send", "unknown"} /\ op[c].deadline <= clock

Escalate(c) ==
    /\ Overdue(c)
    /\ op' = [op EXCEPT ![c].state = "manual_review"]
    /\ reviews' = [reviews EXCEPT ![c] = @ \cup {"unknown"}]
    /\ UNCHANGED <<clock, slot, lease, opening, remote>>

\* The provider processes a POST; its answer reaches the opening or is lost.
Answer(p, i, failure) ==
    \/ UNCHANGED opening
    \/ \E o \in Openings :
          /\ At(o, "await") /\ Owner[o] = p.customer /\ opening[o].fence = p.fence
          /\ InBudget(o)
          /\ opening' = [opening EXCEPT ![o].pc = IF i = NoId THEN "finish" ELSE "receipt",
                            ![o].id = i, ![o].failure = failure, ![o].taken = i = NoId]

EmailTaken(c) == UniqueEmail /\ \E i \in Ids : users[i].live /\ users[i].email = c

ProviderCreates(p) ==
    /\ ~EmailTaken(p.customer)
    /\ \E i \in Ids :
          /\ ~users[i].live
          /\ users' = [users EXCEPT ![i] = [live |-> TRUE, key |-> p.customer,
                                            email |-> p.customer]]
          /\ Answer(p, i, "none")
    /\ posts' = posts \ {p}
    /\ UNCHANGED <<clock, portal, rekeys>>

ProviderRefuses(p) ==
    /\ EmailTaken(p.customer)
    /\ Answer(p, NoId, "permanent")
    /\ posts' = posts \ {p}
    /\ UNCHANGED <<clock, portal, users, rekeys>>

\* Somebody edits the outer id of a provider user.
Rekey(i) ==
    /\ users[i].live /\ rekeys < MaxRekeys
    /\ \E k \in (Customers \cup {OtherKey}) \ {users[i].key} : 
          users' = [users EXCEPT ![i].key = k]
    /\ rekeys' = rekeys + 1
    /\ UNCHANGED <<clock, portal, opening, posts>>

-----------------------------------------------------------------------------
Step(o) ==
    \/ Open(o) \/ Reserve(o) \/ FindByKey(o) \/ FindByEmail(o) \/ ScopeMismatch(o)
    \/ PointRead(o) \/ Prepare(o) \/ ReadFails(o) \/ WakeUp(o)
    \/ Claim(o) \/ Dispatch(o) \/ NotSent(o) \/ CreateFails(o)
    \/ RecordReceipt(o) \/ Release(o) \/ Finish(o)
    \/ Apply(o) \/ RecordElsewhere(o) \/ Ambiguous(o) \/ ClientReady(o) \/ ClientFails(o) \/ Recheck(o)
    \/ Expire(o)

Next ==
    \/ \E o \in Openings : Step(o) \/ TransactionFails(o) \/ Abort(o)
    \/ \E c \in Customers : Escalate(c)
    \/ \E p \in posts : ProviderCreates(p) \/ ProviderRefuses(p)
    \/ \E i \in Ids : Rekey(i)
    \/ Tick

Spec == Init /\ [][Next]_vars

\* The event loop runs every opening it started and time passes.  Nothing is
\* assumed of the provider, and no opening has to be interrupted: a budgeted
\* wait ends with its deadline.
Fairness ==
    /\ WF_vars(Tick)
    /\ \A o \in Openings :
          WF_vars(opening[o].pc # "idle" /\ Step(o))

FairSpec == Spec /\ Fairness

-----------------------------------------------------------------------------
(* Properties *)

\* Two POSTs for one customer are never awaited at the same time: the lease
\* outlasts the budget of the opening that holds it (customers.py:187,215).
OneLiveSend ==
    \A o, p \in Openings :
        o # p /\ Owner[o] = Owner[p] => ~(At(o, "await") /\ At(p, "await"))

\* While a POST is awaited its own claim stands in the database with a
\* recovery deadline still ahead, unless a proof or a conflict settled the
\* operation meanwhile: a crash at this moment leaves what recovery needs.
SendIsRecorded ==
    \A o \in Openings :
        LET c == Owner[o] IN
        At(o, "await") =>
            \/ /\ op[c].state = "possible_send" /\ Current(o)
               /\ lease[c].owner = opening[o].fence
               /\ op[c].deadline > clock
            \/ op[c].state \in {"bound", "manual_review"}

\* Sends never overlap, and a crash during one leaves what recovery needs.
SendsAreSafe == OneLiveSend /\ SendIsRecorded

\* A lease that is given up early takes the fence with it: every snapshot and
\* discovery made while that send was active is stale (customers.py:340).
LeaseEndsWithFence ==
    [][\A c \in Customers :
          /\ lease[c].owner # 0
          /\ lease'[c].owner # lease[c].owner
          /\ slot'[c].id = NoId
          => op'[c].fence # op[c].fence]_vars

\* Until somebody edits the provider's records, a bound customer is the
\* provider user that carries its original key; candidate lists never bind.
BoundIsOurs ==
    rekeys = 0 =>
        \A c \in Customers : slot[c].id # NoId => users[slot[c].id].key = c

\* Between the proof of an identity and the credential nothing may intervene:
\* if the proof's fence is still current, the binding it made stands and no
\* review is open (customer_reviews.py:107).
ProofStands ==
    \A o \in Openings :
        LET c == Owner[o] IN
        opening[o].pc \in {"client", "recheck"} /\ Current(o) =>
            /\ slot[c] = [binding |-> "bound", id |-> opening[o].saved]
            /\ op[c].state = "bound" /\ reviews[c] = {}

\* Two customers of the account never share a provider user.
NoSharedIdentity ==
    \A c, d \in Customers : c # d /\ slot[c].id # NoId => slot[c].id # slot[d].id

\* Each bound customer is one provider user, its own (customers.py:372-429).
OneIdentity == BoundIsOurs /\ NoSharedIdentity

\* The binding lifecycle that all of this implements.
Status(c) ==
    CASE slot[c].binding \in {"absent", "unbound"} -> "open"
      [] slot[c].binding = "bound" -> "bound"
      [] OTHER -> IF KeyRecovery(c) /\ Recoverable(c) THEN "lost" ELSE "barred"

Binding == INSTANCE CustomerBinding WITH
    status <- [c \in Customers |-> Status(c)],
    id     <- [c \in Customers |-> slot[c].id]

BindingLifecycle == Binding!Spec

\* Every opening ends, whatever the provider does.
OpeningEnds ==
    \A o \in Openings : opening[o].pc \in Running ~> opening[o].pc \in Ended

\* The accepted design says of an ambiguous create: "At the deadline, if still
\* UNKNOWN: operation -> manual_review".  A POST that nobody awaits any more and
\* that the provider may still process keeps its deadline until a proof.
AmbiguousSendKeepsDeadline ==
    \A p \in posts :
        LET c == p.customer IN
        /\ \A o \in Openings : Owner[o] = c => ~At(o, "await")
        /\ Saved(c) = NoId /\ slot[c].binding # "conflict"
        => op[c].deadline # 0
=============================================================================
