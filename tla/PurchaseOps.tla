------------------------------ MODULE PurchaseOps ------------------------------
(***************************************************************************)
(* The preparation of accepted purchases at the provider: the transactions *)
(* of domains/purchases/financial.py (each under the user's row lock) and  *)
(* of pin_purchase, driven by composition/purchases.py.                    *)
(*                                                                         *)
(* A flow is one advance request, recover command or payment opening for   *)
(* one purchase.  It reads the purchase, checks the provider, claims a     *)
(* send, posts, and binds what a point read proves, first the agreement,   *)
(* then the subscription; a payment opening proves both anew and hands out *)
(* the credential to pay with.  Flows run concurrently on snapshots; only transactions   *)
(* are atomic.  A flow that is cancelled, fails or is refused by a         *)
(* transaction takes no further step; here it may stop anywhere.           *)
(***************************************************************************)
EXTENDS Integers, FiniteSets

CONSTANTS
    Purchases,      \* purchase intents of one customer, one idempotency key each
    Product,        \* the product of each purchase
    Flows,          \* requests and commands
    Roles,          \* what each of them may be
    NoId,           \* no provider id
    MaxEdits        \* bound: objects altered at the provider by hand

\* Only an advance request sends; the others recover what was sent.
Role == {"advance", "recover", "payment"}

ASSUME PurchasesAssumption == Purchases # {}
ASSUME RoleAssumption == Roles \in [Flows -> SUBSET Role]
ASSUME EditAssumption == MaxEdits \in Nat

VARIABLES
    row,        \* purchase_intents.state
    held,       \* purchases with their row in billing_purchase_scope_holds
    op,         \* external_create_operations, with work item and open cases
    flow,       \* the program counter and locals of every flow
    requests,   \* create requests that have left the portal, ever
    objects,    \* those the provider has processed
    strange,    \* objects whose seller or terms are not the accepted ones now
    edits       \* how often an object was altered

local  == <<row, held, op>>
remote == <<requests, objects, strange, edits>>
vars   == <<local, flow, remote>>

-----------------------------------------------------------------------------
(* State *)

Kinds == {"agreement", "subscription"}

\* A request is known by the fence of its claim; the object it creates, if
\* any, by the same.  A subscription hangs on an agreement.
AgreementId == [purchase : Purchases, kind : {"agreement"}, fence : Nat, under : {NoId}]
SubscriptionId ==
    [purchase : Purchases, kind : {"subscription"}, fence : Nat, under : AgreementId]
Id == AgreementId \cup SubscriptionId

ASSUME NullAssumption == NoId \notin Id

States == {"pending", "possible_send", "unknown", "proven_not_sent", "bound", "manual_review"}
Unsent == {"pending", "proven_not_sent"}
Cases  == {"conflict", "outcome_unknown", "terms_changed"}

Operation == [state : States,
              fence : Nat,              \* send_fence; 0 is NULL
              bound : Id \cup {NoId},   \* bound_external_object_id
              cand : Id \cup {NoId},    \* candidate_id of the work item
              claimed : BOOLEAN,        \* unknown_since, request and work item are set
              overdue : BOOLEAN,        \* the active recovery deadline has passed
              cases : SUBSET Cases]     \* open manual_review_cases

NewOperation == [state |-> "pending", fence |-> 0, bound |-> NoId, cand |-> NoId,
                 claimed |-> FALSE, overdue |-> FALSE, cases |-> {}]

\* What a snapshot holds of an operation.
Seen(o) == [state |-> o.state, fence |-> o.fence, bound |-> o.bound, cand |-> o.cand]
SeenOperation == [state : States, fence : Nat, bound : Id \cup {NoId}, cand : Id \cup {NoId}]

RowStates == {"absent", "created", "preparing", "awaiting", "linked", "failed", "review"}

Flow == [pc : {"idle", "read", "changed", "inventory", "find", "claim", "send", "await",
               "receipt", "not_sent", "failed", "reread", "recover", "conflict", "pending",
               "bind", "confirm", "show", "shown", "ended"},
         role : Role,
         purchase : Purchases,
         kind : Kinds,
         row : RowStates,
         ops : [Kinds -> SeenOperation],
         id : Id \cup {NoId}]           \* the provider id in hand

NewFlow == [pc |-> "idle", role |-> "recover", purchase |-> CHOOSE p \in Purchases : TRUE, kind |-> "agreement",
            row |-> "absent", ops |-> [k \in Kinds |-> Seen(NewOperation)], id |-> NoId]

EndedFlow == [NewFlow EXCEPT !.pc = "ended"]

TypeOK ==
    /\ row \in [Purchases -> RowStates]
    /\ held \in SUBSET Purchases
    /\ op \in [Purchases -> [Kinds -> Operation]]
    /\ flow \in [Flows -> Flow]
    /\ requests \in SUBSET Id
    /\ objects \in SUBSET requests
    /\ strange \in SUBSET objects
    /\ edits \in 0..MaxEdits

Init ==
    /\ row = [p \in Purchases |-> "absent"]
    /\ held = {}
    /\ op = [p \in Purchases |-> [k \in Kinds |-> NewOperation]]
    /\ flow = [f \in Flows |-> NewFlow]
    /\ requests = {} /\ objects = {} /\ strange = {}
    /\ edits = 0

\* The operation a flow works on, now and as it was read.
Own(f)    == op[flow[f].purchase][flow[f].kind]
Before(f) == flow[f].ops[flow[f].kind]

Goto(f, pc) == flow' = [flow EXCEPT ![f].pc = pc]
End(f)      == flow' = [flow EXCEPT ![f] = EndedFlow]

Set(f, o) == op' = [op EXCEPT ![flow[f].purchase][flow[f].kind] = o]

\* _locked: transactions are refused once the hold is gone.
Held(f) == flow[f].purchase \in held

-----------------------------------------------------------------------------
(* Acceptance (service.pin_purchase) *)

\* Mutation: the hold is not unique.
Pin_NoHold(p) ==
    /\ row[p] = "absent"
    /\ row' = [row EXCEPT ![p] = "created"]
    /\ held' = held \cup {p}
    /\ UNCHANGED <<op, flow, remote>>

\* The hold's primary key is the user and the product.
Pin(p) ==
    /\ row[p] = "absent"
    /\ \A q \in held : Product[q] # Product[p]
    /\ row' = [row EXCEPT ![p] = "created"]
    /\ held' = held \cup {p}
    /\ UNCHANGED <<op, flow, remote>>

-----------------------------------------------------------------------------
(* Reading the purchase (service.read_purchase, advance_purchase, _prepare) *)

Start(f, p, r) ==
    /\ flow[f].pc = "idle" /\ r \in Roles[f] /\ p \in held
    /\ flow' = [flow EXCEPT ![f].pc = "read", ![f].purchase = p, ![f].role = r]
    /\ UNCHANGED <<local, remote>>

Advance(f) == \E p \in held : Start(f, p, "advance")

RecoverFinancial(f) == \E p \in held : Start(f, p, "recover")

\* Only a linked purchase is opened for payment.
OpenPayment(f) == \E p \in held : row[p] = "linked" /\ Start(f, p, "payment")

Snapshot(f, pc) ==
    LET p == flow[f].purchase IN
    flow' = [flow EXCEPT ![f].pc = pc, ![f].row = row[p],
                         ![f].ops = [k \in Kinds |-> Seen(op[p][k])]]

\* The accepted offer compared with the current one: its terms have changed,
\* or it still stands.
Compared == {"changed", "inventory"}

Read(f) ==
    /\ flow[f].pc = "read"
    /\ IF Own(f).state \notin Unsent
       THEN Snapshot(f, "recover")
       ELSE IF flow[f].role # "advance" \/ row[flow[f].purchase] = "review"
       THEN End(f)
       ELSE \E pc \in Compared : Snapshot(f, pc)
    /\ UNCHANGED <<local, remote>>

Reread(f) ==
    /\ flow[f].pc = "reread"
    /\ Snapshot(f, "recover")
    /\ UNCHANGED <<local, remote>>

-----------------------------------------------------------------------------
(* What provider reads return (_inventory, _find_financial) *)

Subscriptions == {i \in objects : i.kind = "subscription"}

\* Agreements are listed by their number, which is the purchase's key.
AgreementsOf(p) == {i \in objects : i.kind = "agreement" /\ i.purchase = p}

SubscriptionsUnder(a) == {i \in Subscriptions : i.under = a}

\* prove_agreement, prove_subscription.
Proven(i) == i \notin strange

\* The purchase a subscription's agreement is bound to, if it can be another
\* product's live purchase (inventory.other_inventory_purchase).
OthersOf(f, i) ==
    {q \in held : /\ op[q]["agreement"].bound = i.under
                  /\ op[q]["agreement"].state = "bound"
                  /\ Product[q] # Product[flow[f].purchase]}

Finished(f, i) ==
    \E q \in OthersOf(f, i) :
        /\ row[q] = "linked" /\ op[q]["subscription"].state = "bound"
        /\ op[q]["subscription"].bound = i
        /\ Proven(i) /\ Proven(i.under)

\* It is another purchase's send, not bound yet: wait for it.
Unfinished(f, i) ==
    \E q \in OthersOf(f, i) :
        /\ row[q] \in {"preparing", "awaiting"}
        /\ op[q]["subscription"].state \in {"possible_send", "unknown"}
        /\ op[q]["subscription"].bound = NoId
        /\ op[q]["subscription"].cand \in {NoId, i}
        /\ Proven(i) /\ Proven(i.under)

\* The first subscription that is not settled decides.  The list is also
\* incomplete when LBX gives no state for one of them.
Inventory(f) ==
    LET others == Subscriptions \ {flow[f].ops["subscription"].bound} IN
    /\ flow[f].pc = "inventory"
    /\ \/ (\A i \in others : Finished(f, i)) /\ Goto(f, "find")
       \/ Subscriptions # {} /\ Goto(f, "pending")
       \/ (\E i \in others : ~Finished(f, i) /\ ~Unfinished(f, i)) /\ Goto(f, "conflict")
    /\ UNCHANGED <<local, remote>>

Listed(f) ==
    IF flow[f].kind = "agreement"
    THEN AgreementsOf(flow[f].purchase)
    ELSE SubscriptionsUnder(flow[f].ops["agreement"].bound)

\* A saved id is authoritative; a listing must not contradict it.
Saved(f) == IF Before(f).bound # NoId THEN Before(f).bound ELSE Before(f).cand

Candidates(f) ==
    IF Saved(f) = NoId THEN Listed(f)
    ELSE IF flow[f].kind = "agreement" THEN {Saved(f)}
    ELSE Listed(f) \cup {Saved(f)}

\* A subscription is only looked for under a bound agreement.
MayFind(f) == flow[f].kind = "subscription" => flow[f].ops["agreement"].bound # NoId

Mismatch(f) ==
    \/ Cardinality(Candidates(f)) > 1
    \/ \E i \in Candidates(f) : ~Proven(i)
    \/ flow[f].kind = "subscription" /\ ~Proven(flow[f].ops["agreement"].bound)

\* Before a first send nothing of this purchase may exist.
Find(f) ==
    /\ flow[f].pc = "find"
    /\ Goto(f, IF ~MayFind(f) \/ Mismatch(f) \/ Candidates(f) # {} THEN "conflict" ELSE "claim")
    /\ UNCHANGED <<local, remote>>

\* _recover_one; any other failure of a read leaves the operation pending.
Recover(f) ==
    /\ flow[f].pc = "recover" /\ MayFind(f)
    /\ \/ Goto(f, "pending")
       \/ Mismatch(f) /\ Goto(f, "conflict")
       \/ /\ ~Mismatch(f) /\ Candidates(f) = {}
          /\ IF Before(f).state \in Unsent THEN End(f) ELSE Goto(f, "pending")
       \/ \E i \in Candidates(f) :
             /\ ~Mismatch(f)
             /\ IF Before(f).state \in Unsent
                THEN Goto(f, "conflict")
                ELSE flow' = [flow EXCEPT ![f].pc = "bind", ![f].id = i]
    /\ UNCHANGED <<local, remote>>

-----------------------------------------------------------------------------
(* The send (claim_financial, create, record_receipt, proven_not_sent) *)

MayClaim(f) ==
    LET p == flow[f].purchase  o == Own(f) IN
    /\ Held(f) /\ row[p] # "review"
    /\ o.state \in Unsent /\ o.fence = Before(f).fence /\ o.bound = NoId
    /\ o.state = "pending" => ~o.claimed
    /\ o.state = "proven_not_sent" => o.claimed /\ o.cand = NoId
    /\ flow[f].kind = "subscription" => op[p]["agreement"].state = "bound"

Claim(f) ==
    LET p == flow[f].purchase
        o == [Own(f) EXCEPT !.state = "possible_send", !.fence = @ + 1,
                            !.claimed = TRUE, !.overdue = FALSE]
    IN
    /\ flow[f].pc = "claim" /\ MayClaim(f)
    /\ Set(f, o)
    /\ row' = [row EXCEPT ![p] = "preparing"]
    /\ flow' = [flow EXCEPT ![f].pc = "send", ![f].ops[flow[f].kind] = Seen(o)]
    /\ UNCHANGED <<held, remote>>

\* The request of the flow's claim.
Request(f) ==
    [purchase |-> flow[f].purchase, kind |-> flow[f].kind, fence |-> Before(f).fence,
     under |-> IF flow[f].kind = "agreement" THEN NoId ELSE flow[f].ops["agreement"].bound]

\* LbxCreateNotSent is the proof that nothing was dispatched.
Send(f) ==
    /\ flow[f].pc = "send"
    /\ \/ Goto(f, "not_sent") /\ UNCHANGED requests
       \/ Goto(f, "await") /\ requests' = requests \cup {Request(f)}
    /\ UNCHANGED <<local, objects, strange, edits>>

\* Mutation: a timeout counts as not sent.
Answer_TimeoutIsNotSent(f) ==
    /\ flow[f].pc = "await"
    /\ \/ Request(f) \in objects /\ Goto(f, "receipt")
       \/ Goto(f, "not_sent")
    /\ UNCHANGED <<local, remote>>

\* A usable answer, or a timeout, an error or an answer that cannot be read.
Answer(f) ==
    /\ flow[f].pc = "await"
    /\ \/ Request(f) \in objects /\ Goto(f, "receipt")
       \/ Goto(f, "failed")
    /\ UNCHANGED <<local, remote>>

ReceiptAccepted(f) ==
    /\ Held(f) /\ Own(f).fence = Before(f).fence
    /\ Own(f).state \in {"possible_send", "unknown"}
    /\ Own(f).cand \in {NoId, Request(f)}

RecordReceipt(f) ==
    /\ flow[f].pc = "receipt"
    /\ IF ReceiptAccepted(f)
       THEN Set(f, [Own(f) EXCEPT !.cand = Request(f)]) /\ Goto(f, "reread")
       ELSE Goto(f, "failed") /\ UNCHANGED op
    /\ UNCHANGED <<row, held, remote>>

NotSentAccepted(f) ==
    /\ Own(f).fence = Before(f).fence
    /\ Own(f).state \in {"possible_send", "unknown"}
    /\ Own(f).bound = NoId /\ Own(f).claimed /\ Own(f).cand = NoId
    /\ row[flow[f].purchase] # "review"

ProvenNotSent(f) ==
    /\ flow[f].pc = "not_sent" /\ Held(f)
    /\ IF NotSentAccepted(f)
       THEN /\ Set(f, [Own(f) EXCEPT !.state = "proven_not_sent", !.fence = @ + 1])
            /\ row' = [row EXCEPT ![flow[f].purchase] = "preparing"]
       ELSE UNCHANGED <<op, row>>
    /\ End(f)
    /\ UNCHANGED <<held, remote>>

-----------------------------------------------------------------------------
(* Failure, review and binding (financial_pending, _review, bind_financial) *)

\* _review of one operation; the caller sets the row to review.
Reviewed(o, case) ==
    [o EXCEPT !.state = "manual_review", !.fence = @ + 1, !.cases = @ \cup {case}]

PendingRow(f) ==
    LET p == flow[f].purchase IN
    row' = [row EXCEPT ![p] =
              IF Own(f).state # "bound" THEN "awaiting"
              ELSE IF @ \in {"review", "linked"} THEN @ ELSE "awaiting"]

\* Mutation: a failed read demotes a bound operation.
KeepPending_DemotesBound(f) ==
    \/ Own(f).state = "proven_not_sent" /\ UNCHANGED <<op, row>>
    \/ /\ Own(f).state # "proven_not_sent"
       /\ Set(f, [Own(f) EXCEPT !.state = IF Own(f).claimed THEN "unknown" ELSE "pending"])
       /\ PendingRow(f)

\* financial_pending without a conflict, at a current fence.
KeepPending(f) ==
    \/ Own(f).state = "proven_not_sent" /\ UNCHANGED <<op, row>>
    \/ Own(f).state = "bound" /\ PendingRow(f) /\ UNCHANGED op
    \/ /\ Own(f).state \notin {"proven_not_sent", "bound"} /\ Own(f).overdue
       /\ Set(f, Reviewed(Own(f), "outcome_unknown"))
       /\ row' = [row EXCEPT ![flow[f].purchase] = "review"]
    \/ Own(f).state = "manual_review" /\ ~Own(f).overdue /\ UNCHANGED <<op, row>>
    \/ /\ Own(f).state \in {"pending", "possible_send", "unknown"} /\ ~Own(f).overdue
       /\ Set(f, [Own(f) EXCEPT !.state = IF Own(f).claimed THEN "unknown" ELSE "pending"])
       /\ PendingRow(f)

\* A stale failure cannot demote a newer result.
Fresh(f) == Own(f).fence = Before(f).fence

Pending(f) ==
    /\ flow[f].pc \in {"pending", "failed"} /\ Held(f)
    /\ IF Fresh(f) THEN KeepPending(f) ELSE UNCHANGED <<op, row>>
    /\ IF flow[f].pc = "failed" THEN Goto(f, "reread") ELSE End(f)
    /\ UNCHANGED <<held, remote>>

Conflict(f) ==
    /\ flow[f].pc = "conflict" /\ Held(f)
    /\ IF Fresh(f)
       THEN /\ Set(f, Reviewed(Own(f), "conflict"))
            /\ row' = [row EXCEPT ![flow[f].purchase] = "review"]
       ELSE UNCHANGED <<op, row>>
    /\ End(f)
    /\ UNCHANGED <<held, remote>>

\* Nothing has changed since the flow read the purchase.
AsSeen(f) ==
    LET p == flow[f].purchase IN
    /\ row[p] = flow[f].row
    /\ \A k \in Kinds : Seen(op[p][k]) = flow[f].ops[k]

\* Mutation: a bound agreement is overlooked.
NeverSent_SubscriptionOnly(p) ==
    op[p]["subscription"].state \in Unsent /\ op[p]["subscription"].bound = NoId

NeverSent(p) == \A k \in Kinds : op[p][k].state \in Unsent /\ op[p][k].bound = NoId

\* changed_unsent_terms: the one way a hold is given up.
ChangedTerms(f) ==
    LET p == flow[f].purchase IN
    /\ flow[f].pc = "changed" /\ Held(f)
    /\ IF row[p] = "linked" \/ ~AsSeen(f)
       THEN UNCHANGED <<op, row, held>>
       ELSE IF NeverSent(p)
       THEN /\ row' = [row EXCEPT ![p] = "failed"]
            /\ held' = held \ {p}
            /\ UNCHANGED op
       ELSE /\ op' = [op EXCEPT ![p]["subscription"] = Reviewed(@, "terms_changed")]
            /\ row' = [row EXCEPT ![p] = "review"]
            /\ UNCHANGED held
    /\ End(f)
    /\ UNCHANGED remote

\* Mutation: the agreement is not checked again.
MayBind_AgreementUnchecked(f) ==
    LET p == flow[f].purchase  o == Own(f) IN
    /\ Held(f) /\ Fresh(f)
    /\ o.state \notin Unsent /\ o.claimed
    /\ o.bound \in {NoId, flow[f].id}
    /\ o.state = "manual_review" /\ row[p] = "review" => o.cases \subseteq {"outcome_unknown"}

\* What _bind_financial accepts: a current proof of a sent operation, never of
\* another id, and in review only if nothing but the deadline led there.
MayBind(f) ==
    LET p == flow[f].purchase  o == Own(f) IN
    /\ Held(f) /\ Fresh(f)
    /\ o.state \notin Unsent /\ o.claimed
    /\ o.bound \in {NoId, flow[f].id}
    /\ o.state = "manual_review" /\ row[p] = "review" => o.cases \subseteq {"outcome_unknown"}
    /\ flow[f].kind = "subscription" => op[p]["agreement"].state = "bound"

Bind(f) ==
    LET p == flow[f].purchase
        k == flow[f].kind
        other == CHOOSE j \in Kinds : j # k
    IN
    /\ flow[f].pc = "bind" /\ MayBind(f)
    /\ Set(f, [Own(f) EXCEPT !.state = "bound", !.bound = flow[f].id,
                             !.fence = IF Own(f).state = "bound" THEN @ ELSE @ + 1,
                             !.cases = @ \ {"outcome_unknown"}])
    /\ row' = [row EXCEPT ![p] =
                 IF k = "subscription" THEN "linked"
                 ELSE IF @ = "review" /\ op[p][other].state # "manual_review"
                 THEN "preparing" ELSE @]
    /\ IF k = "agreement"
       THEN flow' = [flow EXCEPT ![f].pc = "read", ![f].kind = "subscription", ![f].id = NoId]
       ELSE IF flow[f].role = "payment" THEN Goto(f, "confirm") ELSE End(f)
    /\ UNCHANGED <<held, remote>>

-----------------------------------------------------------------------------
(* Payment (verify_payment_purchase, recheck_payment_purchase) *)

\* Both objects are proven; the purchase is read once more.
Confirm(f) ==
    LET p == flow[f].purchase IN
    /\ flow[f].pc = "confirm"
    /\ IF row[p] = "linked" /\ \A k \in Kinds : op[p][k].state = "bound"
       THEN Snapshot(f, "show")
       ELSE End(f)
    /\ UNCHANGED <<local, remote>>

\* Mutation: the purchase is not checked again.
Show_Unchecked(f) ==
    /\ flow[f].pc = "show"
    /\ Goto(f, "shown")
    /\ UNCHANGED <<local, remote>>

\* After the provider has taken the credential: it is handed out only for the
\* purchase as it was proven.
Show(f) ==
    /\ flow[f].pc = "show" /\ Held(f) /\ AsSeen(f)
    /\ flow' = [flow EXCEPT ![f] = [EndedFlow EXCEPT !.pc = "shown", !.purchase = flow[f].purchase]]
    /\ UNCHANGED <<local, remote>>

-----------------------------------------------------------------------------
(* The recovery deadline and its sweep (escalate_overdue_financial) *)

\* Two hours are far longer than a flow; here they may pass at any time.
Overdue(p, k) ==
    /\ op[p][k].state \in {"possible_send", "unknown", "manual_review"}
    /\ op[p][k].claimed /\ ~op[p][k].overdue
    /\ op' = [op EXCEPT ![p][k].overdue = TRUE]
    /\ UNCHANGED <<row, held, flow, remote>>

Escalate(p, k) ==
    /\ p \in held /\ op[p][k].overdue /\ op[p][k].state \in {"possible_send", "unknown"}
    /\ op' = [op EXCEPT ![p][k] = Reviewed(@, "outcome_unknown")]
    /\ row' = [row EXCEPT ![p] = "review"]
    /\ UNCHANGED <<held, flow, remote>>

-----------------------------------------------------------------------------
(* The provider *)

\* A request may be processed at any time after its dispatch, or never.
Process(i) ==
    /\ i \in requests \ objects
    /\ objects' = objects \cup {i}
    /\ UNCHANGED <<local, flow, requests, strange, edits>>

\* Somebody alters an object, or restores it.
Edit(i) ==
    /\ i \in objects /\ edits < MaxEdits
    /\ strange' = IF i \in strange THEN strange \ {i} ELSE strange \cup {i}
    /\ edits' = edits + 1
    /\ UNCHANGED <<local, flow, requests, objects>>

-----------------------------------------------------------------------------
Step(f) ==
    \/ Advance(f) \/ RecoverFinancial(f) \/ OpenPayment(f)
    \/ Read(f) \/ Reread(f) \/ Inventory(f) \/ Find(f) \/ Recover(f)
    \/ Claim(f) \/ Send(f) \/ Answer(f) \/ RecordReceipt(f) \/ ProvenNotSent(f)
    \/ Pending(f) \/ Conflict(f) \/ ChangedTerms(f) \/ Bind(f) \/ Confirm(f) \/ Show(f)

Next ==
    \/ \E p \in Purchases : Pin(p)
    \/ \E f \in Flows : Step(f)
    \/ \E p \in Purchases, k \in Kinds : Overdue(p, k) \/ Escalate(p, k)
    \/ \E i \in requests : Process(i) \/ Edit(i)

Spec == Init /\ [][Next]_vars

-----------------------------------------------------------------------------
(* Properties *)

\* A purchase asks at most once for each object, asks for a subscription only
\* under the agreement it got, and gives its product up only if it never
\* asked for anything (financial.py:84-92, 252-275).
Contract == INSTANCE PurchaseEffects WITH
    status <- [p \in Purchases |->
                 IF row[p] = "absent" THEN "new" ELSE IF p \in held THEN "open" ELSE "released"]
AsksOnce == Contract!Spec

\* What the portal records as not sent was not sent, whatever timeouts,
\* failed reads and expired deadlines came before (financial.py:142-170).
UnsentIsUnsent ==
    \A p \in Purchases, k \in Kinds :
        op[p][k].state \in Unsent =>
            \A i \in requests : i.purchase = p => i.kind # k

\* An operation is only bound to the object its own request made, whatever other
\* purchases list or send at the moment; and a linked purchase holds its product,
\* both operations bound and the subscription hanging on the agreement
\* (inventory.py:22-54, financial.py:317-374).
BindingsAreOwn ==
    \A p \in Purchases :
        /\ \A k \in Kinds :
              LET i == op[p][k].bound IN
              i # NoId => i \in objects /\ i.purchase = p /\ i.kind = k
        /\ row[p] = "linked" =>
              /\ p \in held
              /\ \A k \in Kinds : op[p][k].state = "bound" /\ op[p][k].bound # NoId
              /\ op[p]["subscription"].bound.under = op[p]["agreement"].bound

\* guard_financial_create_evidence: the update of an operation that the database
\* lets pass.
Guarded(old, new) ==
    /\ old.claimed => new.claimed /\ new.state # "pending"
    /\ old.bound # NoId => new.bound = old.bound

\* A binding is permanent, no step runs into the trigger that guards a request
\* once claimed, and only a conflict or changed terms take a bound operation
\* back (financial.py:222-246).
BindingsStay ==
    [][\A p \in Purchases, k \in Kinds :
          /\ Guarded(op[p][k], op'[p][k])
          /\ op[p][k].state = "bound" =>
                \/ op'[p][k].state = "bound"
                \/ op'[p][k].state = "manual_review"
                   /\ op'[p][k].cases \cap {"conflict", "terms_changed"} # {}]_vars

\* A payment credential is handed out only for a purchase that holds its product
\* and has both objects bound, whatever other flows recorded between its proofs
\* and the provider's answer (service.py:458-470).
PaymentIsProven ==
    [][\A f \in Flows :
          flow[f].pc # "shown" /\ flow'[f].pc = "shown" =>
              LET p == flow[f].purchase IN
              p \in held /\ row[p] = "linked" /\ \A k \in Kinds : op[p][k].state = "bound"]_vars

\* "Point proof may resolve deadline escalation, not a known conflict"
\* (docs/engineering/ANY-709-billing-runbook.md:372).
ConflictNeedsDecision ==
    \A p \in Purchases, k \in Kinds :
        "conflict" \in op[p][k].cases => op[p][k].state # "bound"
=============================================================================
