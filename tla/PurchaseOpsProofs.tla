--------------------------- MODULE PurchaseOpsProofs ---------------------------
(***************************************************************************)
(* Proofs about PurchaseOps.  What a flow read may be stale when it acts,  *)
(* so the invariant says what stays true of it: bindings are permanent,    *)
(* what the provider made stays made, and while a flow holds a claim it    *)
(* has not used, its operation is not unsent, no request of it has left,   *)
(* and no other flow holds a claim of the same operation.  At the end: the *)
(* transactions behind these steps never wait for each other (LockOrder).  *)
(***************************************************************************)
EXTENDS PurchaseOps, LockOrder, TLAPS, WellFoundedInduction

\* An id saved for operation k of purchase p names what its own request made.
OwnObject(i, p, k) == i # NoId => i \in objects /\ i.purchase = p /\ i.kind = k

Claimed == {"possible_send", "unknown", "proven_not_sent", "bound"}

OperationStands(p, k) ==
    LET o == op[p][k] IN
    /\ OwnObject(o.bound, p, k) /\ OwnObject(o.cand, p, k)
    /\ o.state \in Claimed => o.claimed
    /\ o.state = "pending" => ~o.claimed
    /\ o.state = "bound" => o.bound # NoId
    /\ o.state \in Unsent => \A i \in requests : i.purchase = p => i.kind # k

OperationsStand == \A p \in Purchases, k \in Kinds : OperationStands(p, k)

RowsStand ==
    \A p \in Purchases :
        /\ p \in held => row[p] # "absent"
        /\ row[p] = "linked" => p \in held /\ \A k \in Kinds : op[p][k].state = "bound"

\* Every subscription was asked for under the agreement bound since.
RequestsHang ==
    \A i \in requests :
        i.kind = "subscription" => i.under = op[i.purchase]["agreement"].bound

\* A binding a flow read is still the binding.
SnapshotStands(f) ==
    \A k \in Kinds :
        LET s == flow[f].ops[k] IN
        /\ s.bound # NoId => s.bound = op[flow[f].purchase][k].bound
        /\ OwnObject(s.cand, flow[f].purchase, k)

IdleIsNew(f) ==
    flow[f].pc = "idle" => \A k \in Kinds : flow[f].ops[k].bound = NoId /\ flow[f].ops[k].cand = NoId

HasAgreement(f) ==
    flow[f].kind = "subscription" /\ flow[f].pc \in {"claim", "send", "await", "receipt"} =>
        flow[f].ops["agreement"].bound # NoId

Sending(f) == flow[f].pc \in {"send", "not_sent"}

ClaimIsUnused(f) ==
    Sending(f) =>
        /\ Held(f) /\ Own(f).state \notin Unsent
        /\ \A i \in requests : i.purchase = flow[f].purchase => i.kind # flow[f].kind

ReceiptIsMade(f) == flow[f].pc = "receipt" => Request(f) \in objects

FoundIsOwn(f) ==
    flow[f].pc = "bind" => flow[f].id # NoId /\ OwnObject(flow[f].id, flow[f].purchase, flow[f].kind)

ShownAsBound(f) ==
    flow[f].pc = "show" =>
        flow[f].row = "linked" /\ \A k \in Kinds : flow[f].ops[k].state = "bound"

FlowStands(f) ==
    /\ SnapshotStands(f) /\ IdleIsNew(f) /\ HasAgreement(f) /\ ClaimIsUnused(f)
    /\ ReceiptIsMade(f) /\ FoundIsOwn(f) /\ ShownAsBound(f)

FlowsStand == \A f \in Flows : FlowStands(f)

SameOperation(f, g) == flow[f].purchase = flow[g].purchase /\ flow[f].kind = flow[g].kind

ClaimIsSole ==
    \A f, g \in Flows : Sending(f) /\ Sending(g) /\ SameOperation(f, g) => f = g

IInv == TypeOK /\ OperationsStand /\ RowsStand /\ RequestsHang /\ FlowsStand /\ ClaimIsSole

\* What every step leaves of bindings and of what was made.
BindingsKept ==
    \A p \in Purchases, k \in Kinds : op[p][k].bound # NoId => op'[p][k].bound = op[p][k].bound

\* Places of a flow that need nothing of the state.
Plain == {"read", "changed", "inventory", "find", "failed", "reread", "recover", "conflict",
          "pending", "confirm", "shown", "ended"}

-----------------------------------------------------------------------------
(* Records *)

LEMMA NewFlowFacts ==
    /\ NewFlow \in Flow /\ NewFlow.pc = "idle"
    /\ EndedFlow \in Flow /\ EndedFlow.pc = "ended"
    /\ \A k \in Kinds : NewFlow.ops[k].bound = NoId /\ NewFlow.ops[k].cand = NoId
    /\ \A k \in Kinds : EndedFlow.ops[k].bound = NoId /\ EndedFlow.ops[k].cand = NoId
<1>1. (CHOOSE q \in Purchases : TRUE) \in Purchases
  BY PurchasesAssumption
<1>2. Seen(NewOperation) \in SeenOperation /\ Seen(NewOperation).bound = NoId
      /\ Seen(NewOperation).cand = NoId
  BY DEF Seen, NewOperation, SeenOperation, States
<1>3. [k \in Kinds |-> Seen(NewOperation)] \in [Kinds -> SeenOperation]
  BY <1>2
<1> QED
  BY <1>1, <1>2, <1>3 DEF NewFlow, EndedFlow, Flow, Kinds, RowStates, Role

LEMMA OperationFacts ==
    ASSUME TypeOK, NEW p \in Purchases, NEW k \in Kinds
    PROVE  /\ op[p][k] \in Operation /\ Seen(op[p][k]) \in SeenOperation
           /\ Seen(op[p][k]).state = op[p][k].state /\ Seen(op[p][k]).fence = op[p][k].fence
           /\ Seen(op[p][k]).bound = op[p][k].bound /\ Seen(op[p][k]).cand = op[p][k].cand
  BY DEF TypeOK, Operation, Seen, SeenOperation

\* The records that the transactions write.
LEMMA WrittenFacts ==
    ASSUME NEW o \in Operation, NEW s \in States
    PROVE  /\ LET w == [o EXCEPT !.state = s, !.fence = @ + 1, !.claimed = TRUE, !.overdue = FALSE] IN
              /\ w \in Operation /\ w.state = s /\ w.claimed = TRUE
              /\ w.bound = o.bound /\ w.cand = o.cand
           /\ LET w == [o EXCEPT !.state = s, !.fence = @ + 1] IN
              /\ w \in Operation /\ w.state = s /\ w.claimed = o.claimed
              /\ w.bound = o.bound /\ w.cand = o.cand
           /\ LET w == [o EXCEPT !.state = s] IN
              /\ w \in Operation /\ w.state = s /\ w.claimed = o.claimed
              /\ w.bound = o.bound /\ w.cand = o.cand
<1>1. o.fence + 1 \in Nat
  BY DEF Operation
<1>2. \A n \in Nat : [o EXCEPT !.state = s, !.fence = n, !.claimed = TRUE, !.overdue = FALSE] \in Operation
  BY DEF Operation
<1>3. \A n \in Nat : [o EXCEPT !.state = s, !.fence = n] \in Operation
  BY DEF Operation
<1>4. [o EXCEPT !.state = s] \in Operation
  BY DEF Operation
<1> QED
  BY <1>1, <1>2, <1>3, <1>4 DEF Operation

LEMMA ReviewedFacts ==
    ASSUME NEW o \in Operation, NEW case \in Cases
    PROVE  LET w == Reviewed(o, case) IN
           /\ w \in Operation /\ w.state = "manual_review" /\ w.claimed = o.claimed
           /\ w.bound = o.bound /\ w.cand = o.cand /\ case \in w.cases
<1>1. o.fence + 1 \in Nat
  BY DEF Operation
<1>2. \A n \in Nat, c \in SUBSET Cases :
         [o EXCEPT !.state = "manual_review", !.fence = n, !.cases = c] \in Operation
  BY DEF Operation, States
<1>3. o.cases \cup {case} \in SUBSET Cases
  BY DEF Operation
<1> QED
  BY <1>1, <1>2, <1>3 DEF Operation, Reviewed

LEMMA FlowFacts ==
    ASSUME TypeOK, NEW f \in Flows
    PROVE  /\ flow[f] \in Flow /\ flow[f].purchase \in Purchases /\ flow[f].kind \in Kinds
           /\ flow[f].role \in Role /\ flow[f].row \in RowStates /\ flow[f].id \in Id \cup {NoId}
           /\ flow[f].ops \in [Kinds -> SeenOperation]
           /\ Own(f) \in Operation /\ Before(f) \in SeenOperation
  BY DEF TypeOK, Flow, Own, Before

LEMMA IdFacts ==
    ASSUME NEW i \in Id
    PROVE  /\ i.purchase \in Purchases /\ i.kind \in Kinds /\ i # NoId
           /\ i.kind = "agreement" => i \in AgreementId
           /\ i.kind = "subscription" => i.under \in AgreementId /\ i.under \in Id /\ i.under # NoId
  BY NullAssumption DEF Id, AgreementId, SubscriptionId, Kinds

\* The request of a claim is an id; a subscription's names the agreement read.
LEMMA RequestFacts ==
    ASSUME IInv, NEW f \in Flows,
           flow[f].kind = "subscription" => flow[f].ops["agreement"].bound # NoId
    PROVE  /\ Request(f) \in Id /\ Request(f).purchase = flow[f].purchase
           /\ Request(f).kind = flow[f].kind
           /\ flow[f].kind = "subscription" =>
                 /\ Request(f).under = flow[f].ops["agreement"].bound
                 /\ Request(f).under = op[flow[f].purchase]["agreement"].bound
                 /\ Request(f).under \in objects
                 /\ Request(f).under.purchase = flow[f].purchase
                 /\ Request(f).under.kind = "agreement"
<1>1. flow[f].purchase \in Purchases /\ flow[f].kind \in Kinds /\ Before(f) \in SeenOperation
  BY FlowFacts DEF IInv
<1>2. Before(f).fence \in Nat
  BY <1>1 DEF SeenOperation
<1>3. CASE flow[f].kind = "agreement"
  BY <1>1, <1>2, <1>3 DEF Request, Id, AgreementId
<1>4. CASE flow[f].kind = "subscription"
  <2> DEFINE a == flow[f].ops["agreement"].bound
             r == [purchase |-> flow[f].purchase, kind |-> "subscription",
                   fence |-> Before(f).fence, under |-> a]
  <2>1. Request(f) = r
    BY <1>4 DEF Request
  <2>2. a = op[flow[f].purchase]["agreement"].bound /\ a # NoId
    BY <1>4 DEF IInv, FlowsStand, FlowStands, SnapshotStands, Kinds
  <2>3. OwnObject(a, flow[f].purchase, "agreement")
    BY <1>1, <2>2 DEF IInv, OperationsStand, OperationStands, Kinds
  <2>4. a \in objects /\ a.purchase = flow[f].purchase /\ a.kind = "agreement"
    BY <2>2, <2>3 DEF OwnObject
  <2>5. a \in Id
    BY <2>4 DEF IInv, TypeOK
  <2>6. a \in AgreementId
    BY <2>4, <2>5, IdFacts
  <2> HIDE DEF a
  <2>7. r \in Id /\ r.under = a /\ r.purchase = flow[f].purchase /\ r.kind = "subscription"
    BY <1>1, <1>2, <2>6 DEF Id, SubscriptionId
  <2> HIDE DEF r
  <2> QED
    BY <1>4, <2>1, <2>2, <2>4, <2>7 DEF a
<1> QED
  BY <1>1, <1>3, <1>4 DEF Kinds

-----------------------------------------------------------------------------
(* Frames *)

\* A flow that keeps its purchase and what it read.
LEMMA SnapshotKept ==
    ASSUME IInv, NEW f \in Flows, BindingsKept, objects \subseteq objects',
           flow'[f].purchase = flow[f].purchase, flow'[f].ops = flow[f].ops
    PROVE  SnapshotStands(f)'
<1>1. flow[f].purchase \in Purchases
  BY FlowFacts DEF IInv
<1> QED
  BY <1>1 DEF IInv, FlowsStand, FlowStands, SnapshotStands, BindingsKept, OwnObject

\* Nothing else is asked of a flow that goes to a plain place.
LEMMA PlainStands ==
    ASSUME NEW f \in Flows, flow'[f].pc \in Plain, SnapshotStands(f)'
    PROVE  FlowStands(f)' /\ ~Sending(f)'
  BY DEF FlowStands, IdleIsNew, HasAgreement, ClaimIsUnused, ReceiptIsMade, FoundIsOwn, ShownAsBound, Sending, Plain

LEMMA GotoFacts ==
    ASSUME TypeOK, NEW f \in Flows,
           NEW pc \in {"claim", "find", "not_sent", "await", "receipt"} \cup Plain, Goto(f, pc)
    PROVE  /\ flow' \in [Flows -> Flow]
           /\ \A g \in Flows : g # f => flow'[g] = flow[g]
           /\ flow'[f].pc = pc /\ flow'[f].purchase = flow[f].purchase /\ flow'[f].kind = flow[f].kind
           /\ flow'[f].row = flow[f].row /\ flow'[f].ops = flow[f].ops /\ flow'[f].id = flow[f].id
<1>1. flow \in [Flows -> Flow] /\ flow[f] \in Flow /\ flow' = [flow EXCEPT ![f].pc = pc]
  BY DEF TypeOK, Goto
<1> DEFINE new == [flow[f] EXCEPT !.pc = pc]
<1>2. /\ new \in Flow /\ new.pc = pc /\ new.purchase = flow[f].purchase
      /\ new.kind = flow[f].kind /\ new.row = flow[f].row /\ new.ops = flow[f].ops
      /\ new.id = flow[f].id
  BY <1>1 DEF Flow, Plain
<1>3. flow' = [flow EXCEPT ![f] = new]
  BY <1>1
<1> HIDE DEF new
<1> QED
  BY <1>1, <1>2, <1>3

LEMMA GotoPlain ==
    ASSUME IInv, NEW f \in Flows, NEW pc \in Plain, Goto(f, pc), BindingsKept, objects \subseteq objects'
    PROVE  /\ flow' \in [Flows -> Flow] /\ \A g \in Flows : g # f => flow'[g] = flow[g]
           /\ FlowStands(f)' /\ ~Sending(f)'
<1>1. TypeOK
  BY DEF IInv
<1> QED
  BY <1>1, GotoFacts, SnapshotKept, PlainStands

LEMMA EndFlow ==
    ASSUME IInv, NEW f \in Flows, End(f)
    PROVE  /\ flow' \in [Flows -> Flow] /\ \A g \in Flows : g # f => flow'[g] = flow[g]
           /\ FlowStands(f)' /\ ~Sending(f)'
<1>1. EndedFlow \in Flow /\ EndedFlow.pc = "ended"
      /\ \A k \in Kinds : EndedFlow.ops[k].bound = NoId /\ EndedFlow.ops[k].cand = NoId
  BY NewFlowFacts
<1> HIDE DEF EndedFlow
<1>2. /\ flow' \in [Flows -> Flow] /\ \A g \in Flows : g # f => flow'[g] = flow[g]
      /\ flow'[f] = EndedFlow
  BY <1>1 DEF End, IInv, TypeOK
<1>3. SnapshotStands(f)'
  BY <1>1, <1>2 DEF SnapshotStands, OwnObject
<1> QED
  BY <1>1, <1>2, <1>3, PlainStands DEF Plain

\* A flow reads its purchase.
LEMMA SnapshotTaken ==
    ASSUME IInv, NEW f \in Flows, NEW pc \in Plain \cup {"show"}, Snapshot(f, pc), UNCHANGED <<local, objects>>
    PROVE  /\ flow' \in [Flows -> Flow] /\ \A g \in Flows : g # f => flow'[g] = flow[g]
           /\ flow'[f].pc = pc /\ SnapshotStands(f)'
           /\ flow'[f].row = row[flow[f].purchase]
           /\ \A k \in Kinds : flow'[f].ops[k].state = op[flow[f].purchase][k].state
<1> DEFINE p == flow[f].purchase
           s == [k \in Kinds |-> Seen(op[p][k])]
<1>1. p \in Purchases /\ flow[f] \in Flow
  BY FlowFacts DEF IInv
<1>2. /\ s \in [Kinds -> SeenOperation]
      /\ \A k \in Kinds : /\ s[k].state = op[p][k].state
                          /\ s[k].bound = op[p][k].bound /\ s[k].cand = op[p][k].cand
  BY <1>1, OperationFacts DEF IInv
<1>3. row[p] \in RowStates
  BY <1>1 DEF IInv, TypeOK
<1>4. flow' = [flow EXCEPT ![f].pc = pc, ![f].row = row[p], ![f].ops = s]
  BY DEF Snapshot
<1> HIDE DEF s, p
<1>5. /\ flow' \in [Flows -> Flow] /\ \A g \in Flows : g # f => flow'[g] = flow[g]
      /\ flow'[f].pc = pc /\ flow'[f].row = row[p] /\ flow'[f].ops = s
      /\ flow'[f].purchase = flow[f].purchase
  BY <1>1, <1>2, <1>3, <1>4 DEF IInv, TypeOK, Flow, Plain
<1>6. \A k \in Kinds : OwnObject(op[p][k].cand, p, k)
  BY <1>1 DEF IInv, OperationsStand, OperationStands
<1>7. SnapshotStands(f)'
  BY <1>2, <1>5, <1>6 DEF SnapshotStands, OwnObject, local, p
<1> QED
  BY <1>2, <1>5, <1>7 DEF p

\* A flow whose own place, purchase and bindings did not change.
LEMMA OthersStand ==
    ASSUME IInv, NEW g \in Flows, flow'[g] = flow[g], BindingsKept, objects \subseteq objects',
           Sending(g) => ClaimIsUnused(g)'
    PROVE  FlowStands(g)'
<1>1. SnapshotStands(g)'
  BY SnapshotKept
<1>2. FlowStands(g)
  BY DEF IInv, FlowsStand
<1>3. Before(g)' = Before(g) /\ Request(g)' = Request(g)
  BY DEF Before, Request
<1> QED
  BY <1>1, <1>2, <1>3
  DEF FlowStands, IdleIsNew, HasAgreement, ClaimIsUnused, ReceiptIsMade, FoundIsOwn, ShownAsBound, Sending, OwnObject

\* A step of one flow that is seen by no other.
LEMMA FlowStep ==
    ASSUME IInv, NEW f \in Flows, flow' \in [Flows -> Flow],
           \A g \in Flows : g # f => flow'[g] = flow[g],
           FlowStands(f)', ~Sending(f)', UNCHANGED <<local, remote>>
    PROVE  IInv'
<1>1. UNCHANGED <<row, held, op, requests, objects, strange, edits>>
  BY DEF local, remote
<1>2. TypeOK'
  BY <1>1 DEF IInv, TypeOK
<1>3. OperationsStand' /\ RowsStand' /\ RequestsHang'
  BY <1>1 DEF IInv, OperationsStand, OperationStands, OwnObject, RowsStand, RequestsHang
<1>4. ASSUME NEW g \in Flows, g # f PROVE FlowStands(g)'
  <2>1. flow'[g] = flow[g]
    BY <1>4
  <2>2. ClaimIsUnused(g)'
    BY <1>1, <2>1 DEF IInv, FlowsStand, FlowStands, ClaimIsUnused, Sending, Held, Own
  <2> QED
    BY <1>1, <2>1, <2>2, OthersStand DEF BindingsKept
<1>5. ClaimIsSole'
  BY DEF IInv, ClaimIsSole, Sending, SameOperation
<1> QED
  BY <1>2, <1>3, <1>4, <1>5 DEF IInv, FlowsStand

\* One operation changes.
OperationStep(p, k, o) ==
    /\ op' = [op EXCEPT ![p][k] = o]
    /\ o \in Operation
    /\ op[p][k].bound # NoId => o.bound = op[p][k].bound
    /\ OwnObject(o.bound, p, k) /\ OwnObject(o.cand, p, k)
    /\ o.state \in Claimed => o.claimed
    /\ o.state = "pending" => ~o.claimed
    /\ o.state = "bound" => o.bound # NoId
    /\ o.state \in Unsent =>
          /\ \A i \in requests : i.purchase = p => i.kind # k
          /\ \A g \in Flows : flow'[g] = flow[g] /\ Sending(g) =>
                ~(flow[g].purchase = p /\ flow[g].kind = k)

LEMMA OperationStepFacts ==
    ASSUME IInv, NEW p \in Purchases, NEW k \in Kinds, NEW o, OperationStep(p, k, o),
           UNCHANGED <<requests, objects, held>>
    PROVE  /\ op' \in [Purchases -> [Kinds -> Operation]] /\ op'[p][k] = o
           /\ \A q \in Purchases, j \in Kinds : q # p \/ j # k => op'[q][j] = op[q][j]
           /\ BindingsKept /\ OperationsStand' /\ RequestsHang'
           /\ \A g \in Flows : flow'[g] = flow[g] => FlowStands(g)'
<1>1. op \in [Purchases -> [Kinds -> Operation]]
  BY DEF IInv, TypeOK
<1>2. /\ op' \in [Purchases -> [Kinds -> Operation]] /\ op'[p][k] = o
      /\ \A q \in Purchases, j \in Kinds : q # p \/ j # k => op'[q][j] = op[q][j]
  BY <1>1 DEF OperationStep
<1>3. BindingsKept
  BY <1>2 DEF BindingsKept, OperationStep
<1>4. OperationsStand'
  BY <1>2 DEF IInv, OperationsStand, OperationStands, OwnObject, OperationStep
<1>5. RequestsHang'
  <2> SUFFICES ASSUME NEW i \in requests, i.kind = "subscription"
               PROVE  i.under = op'[i.purchase]["agreement"].bound
    BY DEF RequestsHang
  <2>1. i \in Id
    BY DEF IInv, TypeOK
  <2>2. i.purchase \in Purchases /\ i.under # NoId
    BY <2>1, IdFacts
  <2>3. i.under = op[i.purchase]["agreement"].bound
    BY DEF IInv, RequestsHang
  <2> QED
    BY <1>3, <2>2, <2>3 DEF BindingsKept, Kinds
<1>6. ASSUME NEW g \in Flows, flow'[g] = flow[g] PROVE FlowStands(g)'
  <2>1. ASSUME Sending(g) PROVE ClaimIsUnused(g)'
    <3>1. /\ Held(g) /\ Own(g).state \notin Unsent
          /\ \A i \in requests : i.purchase = flow[g].purchase => i.kind # flow[g].kind
      BY <2>1 DEF IInv, FlowsStand, FlowStands, ClaimIsUnused
    <3>2. flow[g].purchase \in Purchases /\ flow[g].kind \in Kinds
      BY FlowFacts DEF IInv
    <3>3. op'[flow[g].purchase][flow[g].kind].state \notin Unsent
      BY <1>2, <1>6, <2>1, <3>1, <3>2 DEF OperationStep, Own
    <3> QED
      BY <1>6, <3>1, <3>3 DEF ClaimIsUnused, Held, Own
  <2> QED
    BY <1>3, <1>6, <2>1, OthersStand
<1> QED
  BY <1>2, <1>3, <1>4, <1>5, <1>6

LEMMA SoleKept ==
    ASSUME IInv, \A g \in Flows : flow'[g] = flow[g] \/ ~Sending(g)'
    PROVE  ClaimIsSole'
  BY DEF IInv, ClaimIsSole, Sending, SameOperation

\* The purchase's state goes to x, as operation k becomes o.
RowStep(p, k, o, x) ==
    /\ x \in RowStates /\ row' = [row EXCEPT ![p] = x]
    /\ x = row[p] \/ (x # "absent" /\ p \in held)
    /\ x = "linked" => p \in held /\ o.state = "bound"
                         /\ \A j \in Kinds : j # k => op[p][j].state = "bound"

\* A transaction changes one operation and the purchase's state.
LEMMA TransactionStep ==
    ASSUME IInv, NEW p \in Purchases, NEW k \in Kinds, NEW o, OperationStep(p, k, o),
           NEW x, RowStep(p, k, o, x), UNCHANGED <<held, remote>>,
           flow' \in [Flows -> Flow],
           \A g \in Flows : flow'[g] = flow[g] \/ FlowStands(g)',
           ClaimIsSole'
    PROVE  IInv'
<1>1. UNCHANGED <<held, requests, objects, strange, edits>>
  BY DEF remote
<1>2. /\ op' \in [Purchases -> [Kinds -> Operation]] /\ op'[p][k] = o
      /\ \A q \in Purchases, j \in Kinds : q # p \/ j # k => op'[q][j] = op[q][j]
      /\ BindingsKept /\ OperationsStand' /\ RequestsHang'
      /\ \A g \in Flows : flow'[g] = flow[g] => FlowStands(g)'
  BY <1>1, OperationStepFacts
<1>3. row \in [Purchases -> RowStates]
  BY DEF IInv, TypeOK
<1>4. /\ row' \in [Purchases -> RowStates] /\ row'[p] = x
      /\ \A q \in Purchases : q # p => row'[q] = row[q]
  BY <1>3 DEF RowStep
<1>5. TypeOK'
  BY <1>1, <1>2, <1>4 DEF IInv, TypeOK
<1>6. RowsStand'
  <2> SUFFICES ASSUME NEW q \in Purchases
               PROVE  /\ q \in held => row'[q] # "absent"
                      /\ row'[q] = "linked" => q \in held /\ \A j \in Kinds : op'[q][j].state = "bound"
    BY <1>1 DEF RowsStand
  <2>1. CASE q = p
    <3>1. q \in held => row[p] # "absent"
      BY <2>1 DEF IInv, RowsStand
    <3>2. x # "absent" \/ p \notin held
      BY <2>1, <3>1 DEF RowStep
    <3>3. x = "linked" => p \in held /\ o.state = "bound"
                           /\ \A j \in Kinds : j # k => op[p][j].state = "bound"
      BY DEF RowStep
    <3> QED
      BY <1>2, <1>4, <2>1, <3>2, <3>3
  <2>2. CASE q # p
    <3>1. /\ q \in held => row[q] # "absent"
          /\ row[q] = "linked" => q \in held /\ \A j \in Kinds : op[q][j].state = "bound"
      BY DEF IInv, RowsStand
    <3>2. row'[q] = row[q] /\ \A j \in Kinds : op'[q][j] = op[q][j]
      BY <1>2, <1>4, <2>2
    <3> QED
      BY <3>1, <3>2
  <2> QED
    BY <2>1, <2>2
<1> QED
  BY <1>2, <1>5, <1>6 DEF IInv, FlowsStand

-----------------------------------------------------------------------------
(* One lemma for every action *)

LEMMA InitInvariant == Init => IInv
<1> SUFFICES ASSUME Init PROVE IInv
  OBVIOUS
<1>1. NewOperation \in Operation /\ NewOperation.state = "pending" /\ NewOperation.bound = NoId
      /\ NewOperation.cand = NoId /\ ~NewOperation.claimed
  BY DEF NewOperation, Operation, States
<1>2. /\ NewFlow \in Flow /\ NewFlow.pc = "idle"
      /\ \A k \in Kinds : NewFlow.ops[k].bound = NoId /\ NewFlow.ops[k].cand = NoId
  BY NewFlowFacts
<1> HIDE DEF NewOperation, NewFlow
<1>3. TypeOK
  BY <1>1, <1>2, EditAssumption DEF Init, TypeOK, RowStates
<1>4. OperationsStand /\ RowsStand /\ RequestsHang
  BY <1>1 DEF Init, OperationsStand, OperationStands, OwnObject, Claimed, RowsStand, RequestsHang
<1>5. FlowsStand /\ ClaimIsSole
  BY <1>2 DEF Init, FlowsStand, FlowStands, SnapshotStands, OwnObject, IdleIsNew, HasAgreement,
              ClaimIsUnused, ReceiptIsMade, FoundIsOwn, ShownAsBound, ClaimIsSole, Sending
<1> QED
  BY <1>3, <1>4, <1>5 DEF IInv

LEMMA PinInvariant == ASSUME IInv, NEW p \in Purchases, Pin(p) PROVE IInv'
<1>1. /\ UNCHANGED <<op, flow, requests, objects, strange, edits>>
      /\ row[p] = "absent" /\ row' = [row EXCEPT ![p] = "created"] /\ held' = held \cup {p}
  BY DEF Pin, remote
<1>2. row \in [Purchases -> RowStates] /\ held \in SUBSET Purchases
  BY DEF IInv, TypeOK
<1>3. /\ row' \in [Purchases -> RowStates] /\ row'[p] = "created" /\ held' \in SUBSET Purchases
      /\ \A q \in Purchases : q # p => row'[q] = row[q]
  BY <1>1, <1>2 DEF RowStates
<1>4. TypeOK'
  BY <1>1, <1>3 DEF IInv, TypeOK
<1>5. RowsStand'
  BY <1>1, <1>3 DEF IInv, RowsStand
<1>6. OperationsStand' /\ RequestsHang' /\ ClaimIsSole'
  BY <1>1 DEF IInv, OperationsStand, OperationStands, OwnObject, RequestsHang, ClaimIsSole, Sending,
              SameOperation
<1>7. ASSUME NEW g \in Flows PROVE FlowStands(g)'
  <2>1. Sending(g) => ClaimIsUnused(g)'
    BY <1>1 DEF IInv, FlowsStand, FlowStands, ClaimIsUnused, Held, Own
  <2> QED
    BY <1>1, <2>1, OthersStand DEF BindingsKept
<1> QED
  BY <1>4, <1>5, <1>6, <1>7 DEF IInv, FlowsStand

LEMMA StartInvariant ==
    ASSUME IInv, NEW f \in Flows, NEW p \in held, NEW r \in Role, Start(f, p, r)
    PROVE  IInv'
<1>1. /\ flow[f].pc = "idle" /\ UNCHANGED <<local, remote>>
      /\ flow' = [flow EXCEPT ![f].pc = "read", ![f].purchase = p, ![f].role = r]
  BY DEF Start
<1>2. p \in Purchases /\ flow \in [Flows -> Flow] /\ flow[f] \in Flow
  BY DEF IInv, TypeOK
<1>3. /\ flow' \in [Flows -> Flow] /\ \A g \in Flows : g # f => flow'[g] = flow[g]
      /\ flow'[f].pc = "read" /\ flow'[f].ops = flow[f].ops
  BY <1>1, <1>2 DEF Flow
<1>4. SnapshotStands(f)'
  BY <1>1, <1>3 DEF IInv, FlowsStand, FlowStands, IdleIsNew, SnapshotStands, OwnObject
<1>5. FlowStands(f)' /\ ~Sending(f)'
  BY <1>3, <1>4, PlainStands DEF Plain
<1> QED
  BY <1>1, <1>3, <1>5, FlowStep

LEMMA BeginInvariant ==
    ASSUME IInv, NEW f \in Flows, Advance(f) \/ RecoverFinancial(f) \/ OpenPayment(f)
    PROVE  IInv'
  BY StartInvariant DEF Advance, RecoverFinancial, OpenPayment, Role

LEMMA SnapshotInvariant ==
    ASSUME IInv, NEW f \in Flows, NEW pc \in Plain, Snapshot(f, pc), UNCHANGED <<local, remote>>
    PROVE  IInv'
<1>1. UNCHANGED objects
  BY DEF remote
<1>2. /\ flow' \in [Flows -> Flow] /\ \A g \in Flows : g # f => flow'[g] = flow[g]
      /\ flow'[f].pc = pc /\ SnapshotStands(f)'
  BY <1>1, SnapshotTaken
<1> QED
  BY <1>2, PlainStands, FlowStep

LEMMA GotoInvariant ==
    ASSUME IInv, NEW f \in Flows, NEW pc \in Plain, Goto(f, pc), UNCHANGED <<local, remote>>
    PROVE  IInv'
<1>1. BindingsKept /\ objects \subseteq objects'
  BY DEF BindingsKept, local, remote
<1> QED
  BY <1>1, GotoPlain, FlowStep

LEMMA EndInvariant ==
    ASSUME IInv, NEW f \in Flows, End(f), UNCHANGED <<local, remote>>
    PROVE  IInv'
  BY EndFlow, FlowStep

LEMMA ReadInvariant ==
    ASSUME IInv, NEW f \in Flows, Read(f) \/ Reread(f)
    PROVE  IInv'
<1>1. UNCHANGED <<local, remote>>
  BY DEF Read, Reread
<1>2. End(f) \/ \E pc \in Plain : Snapshot(f, pc)
  BY DEF Read, Reread, Compared, Plain
<1> QED
  BY <1>1, <1>2, EndInvariant, SnapshotInvariant

LEMMA InventoryInvariant == ASSUME IInv, NEW f \in Flows, Inventory(f) PROVE IInv'
<1>1. UNCHANGED <<local, remote>> /\ \E pc \in Plain : Goto(f, pc)
  BY DEF Inventory, Plain
<1> QED
  BY <1>1, GotoInvariant

LEMMA FindInvariant == ASSUME IInv, NEW f \in Flows, Find(f) PROVE IInv'
<1>1. UNCHANGED <<local, remote>>
  BY DEF Find
<1>2. CASE Goto(f, "conflict")
  BY <1>1, <1>2, GotoInvariant DEF Plain
<1>3. CASE MayFind(f) /\ Goto(f, "claim")
  <2>1. BindingsKept /\ objects \subseteq objects'
    BY <1>1 DEF BindingsKept, local, remote
  <2>2. /\ flow' \in [Flows -> Flow] /\ \A g \in Flows : g # f => flow'[g] = flow[g]
        /\ flow'[f].pc = "claim" /\ flow'[f].purchase = flow[f].purchase
        /\ flow'[f].kind = flow[f].kind /\ flow'[f].ops = flow[f].ops
    BY <1>3, GotoFacts DEF IInv
  <2>3. SnapshotStands(f)'
    BY <2>1, <2>2, SnapshotKept
  <2>4. FlowStands(f)' /\ ~Sending(f)'
    BY <1>3, <2>2, <2>3 DEF MayFind, FlowStands, IdleIsNew, HasAgreement, ClaimIsUnused, ReceiptIsMade,
                            FoundIsOwn, ShownAsBound, Sending
  <2> QED
    BY <1>1, <2>2, <2>4, FlowStep
<1> QED
  BY <1>2, <1>3 DEF Find

\* Whatever a flow finds at the provider was made by the purchase's own request.
LEMMA CandidatesAreOwn ==
    ASSUME IInv, NEW f \in Flows, MayFind(f), NEW i \in Candidates(f)
    PROVE  i \in Id /\ OwnObject(i, flow[f].purchase, flow[f].kind)
<1> DEFINE p == flow[f].purchase
           k == flow[f].kind
<1>1. p \in Purchases /\ k \in Kinds
  BY FlowFacts DEF IInv
<1>2. objects \subseteq Id /\ objects \subseteq requests
  BY DEF IInv, TypeOK
<1>3. SnapshotStands(f)
  BY DEF IInv, FlowsStand, FlowStands
<1>4. \A j \in Kinds : OwnObject(op[p][j].bound, p, j)
  BY <1>1 DEF IInv, OperationsStand, OperationStands
<1>5. CASE Saved(f) # NoId /\ i = Saved(f)
  BY <1>1, <1>2, <1>3, <1>4, <1>5 DEF Saved, Before, SnapshotStands, OwnObject
<1>6. CASE k = "agreement" /\ i \in AgreementsOf(p)
  BY <1>2, <1>6 DEF AgreementsOf, OwnObject
<1>7. CASE k = "subscription" /\ i \in SubscriptionsUnder(flow[f].ops["agreement"].bound)
  <2> DEFINE a == flow[f].ops["agreement"].bound
  <2>1. i \in objects /\ i.kind = "subscription" /\ i.under = a
    BY <1>7 DEF SubscriptionsUnder, Subscriptions
  <2>2. a # NoId /\ a = op[p]["agreement"].bound
    BY <1>3, <1>7 DEF MayFind, SnapshotStands, Kinds
  <2>3. a.purchase = p
    BY <1>4, <2>2 DEF OwnObject, Kinds
  <2>4. i \in Id /\ i.purchase \in Purchases
    BY <1>2, <2>1, IdFacts
  <2>5. a = op[i.purchase]["agreement"].bound
    BY <1>2, <2>1 DEF IInv, RequestsHang
  <2>6. a.purchase = i.purchase
    BY <2>2, <2>4, <2>5 DEF IInv, OperationsStand, OperationStands, OwnObject, Kinds
  <2> QED
    BY <1>7, <2>1, <2>3, <2>4, <2>6 DEF OwnObject
<1> QED
  BY <1>1, <1>5, <1>6, <1>7 DEF Candidates, Listed, Kinds

LEMMA RecoverInvariant == ASSUME IInv, NEW f \in Flows, Recover(f) PROVE IInv'
<1>1. UNCHANGED <<local, remote>> /\ MayFind(f)
  BY DEF Recover
<1>2. CASE \E pc \in Plain : Goto(f, pc)
  BY <1>1, <1>2, GotoInvariant
<1>3. CASE End(f)
  BY <1>1, <1>3, EndInvariant
<1>4. ASSUME NEW i \in Candidates(f), flow' = [flow EXCEPT ![f].pc = "bind", ![f].id = i]
      PROVE  IInv'
  <2>1. i \in Id /\ i # NoId /\ OwnObject(i, flow[f].purchase, flow[f].kind)
    BY <1>1, CandidatesAreOwn, NullAssumption
  <2>2. /\ flow' \in [Flows -> Flow] /\ \A g \in Flows : g # f => flow'[g] = flow[g]
        /\ flow'[f].pc = "bind" /\ flow'[f].purchase = flow[f].purchase
        /\ flow'[f].kind = flow[f].kind /\ flow'[f].ops = flow[f].ops /\ flow'[f].id = i
    <3>1. flow \in [Flows -> Flow] /\ flow[f] \in Flow
      BY DEF IInv, TypeOK
    <3> QED
      BY <1>4, <2>1, <3>1 DEF Flow
  <2>3. BindingsKept /\ UNCHANGED objects
    BY <1>1 DEF BindingsKept, local, remote
  <2>4. SnapshotStands(f)'
    BY <2>2, <2>3, SnapshotKept
  <2>5. FlowStands(f)' /\ ~Sending(f)'
    <3>1. FoundIsOwn(f)'
      BY <2>1, <2>2, <2>3 DEF FoundIsOwn, OwnObject
    <3> QED
      BY <2>2, <2>4, <3>1 DEF FlowStands, IdleIsNew, HasAgreement, ClaimIsUnused,
                              ReceiptIsMade, ShownAsBound, Sending
  <2> QED
    BY <1>1, <2>2, <2>5, FlowStep
<1>5. Goto(f, "pending") \/ Goto(f, "conflict") \/ End(f)
      \/ \E i \in Candidates(f) : flow' = [flow EXCEPT ![f].pc = "bind", ![f].id = i]
  BY DEF Recover
<1> QED
  BY <1>2, <1>3, <1>4, <1>5 DEF Plain

LEMMA ClaimInvariant == ASSUME IInv, NEW f \in Flows, Claim(f) PROVE IInv'
<1> DEFINE p == flow[f].purchase
           k == flow[f].kind
           o == [Own(f) EXCEPT !.state = "possible_send", !.fence = @ + 1,
                               !.claimed = TRUE, !.overdue = FALSE]
<1>1. /\ flow[f].pc = "claim" /\ MayClaim(f) /\ Set(f, o)
      /\ row' = [row EXCEPT ![p] = "preparing"]
      /\ flow' = [flow EXCEPT ![f].pc = "send", ![f].ops[k] = Seen(o)]
      /\ UNCHANGED <<held, remote>>
  BY DEF Claim
<1>2. p \in Purchases /\ k \in Kinds /\ Own(f) \in Operation /\ flow[f] \in Flow
      /\ flow[f].ops \in [Kinds -> SeenOperation] /\ Own(f) = op[p][k]
  BY FlowFacts DEF IInv, Own
<1>3. /\ o \in Operation /\ o.state = "possible_send" /\ o.claimed = TRUE
      /\ o.bound = op[p][k].bound /\ o.cand = op[p][k].cand
  <2>1. "possible_send" \in States
    BY DEF States
  <2>2. /\ o \in Operation /\ o.state = "possible_send" /\ o.claimed = TRUE
        /\ o.bound = Own(f).bound /\ o.cand = Own(f).cand
    <3> DEFINE n == Own(f).fence + 1
    <3>1. n \in Nat /\ Own(f) \in Operation
      BY <1>2 DEF Operation
    <3>2. o = [Own(f) EXCEPT !.state = "possible_send", !.fence = n, !.claimed = TRUE, !.overdue = FALSE]
      OBVIOUS
    <3> HIDE DEF n, o
    <3> QED
      BY <2>1, <3>1, <3>2 DEF Operation
  <2> QED
    BY <1>2, <2>2
<1>4. Seen(o) \in SeenOperation /\ Seen(o).bound = o.bound /\ Seen(o).cand = o.cand
  BY <1>3 DEF Seen, SeenOperation, Operation
<1>5. op' = [op EXCEPT ![p][k] = o]
  BY <1>1 DEF Set
<1>6. p \in held /\ op[p][k].state \in Unsent /\ op[p][k].bound = NoId
  BY <1>1 DEF MayClaim, Held, Own
<1> HIDE DEF p, k, o
<1>7. /\ OwnObject(op[p][k].cand, p, k) /\ OwnObject(op[p][k].bound, p, k)
      /\ \A i \in requests : i.purchase = p => i.kind # k
  BY <1>2, <1>6 DEF IInv, OperationsStand, OperationStands
<1>8. OperationStep(p, k, o)
  BY <1>3, <1>5, <1>7 DEF OperationStep, Unsent
<1>9. /\ flow' \in [Flows -> Flow] /\ \A g \in Flows : g # f => flow'[g] = flow[g]
      /\ flow'[f].pc = "send" /\ flow'[f].purchase = p /\ flow'[f].kind = k
      /\ flow'[f].ops[k] = Seen(o) /\ \A j \in Kinds : j # k => flow'[f].ops[j] = flow[f].ops[j]
  BY <1>1, <1>2, <1>4 DEF IInv, TypeOK, Flow, p, k
<1>10. /\ op'[p][k] = o /\ BindingsKept /\ UNCHANGED <<requests, objects, held>>
  BY <1>1, <1>2, <1>8, OperationStepFacts DEF remote
<1>11. SnapshotStands(f)'
  <2>1. \A j \in Kinds : j # k =>
           /\ flow[f].ops[j].bound # NoId => flow[f].ops[j].bound = op'[p][j].bound
           /\ OwnObject(flow[f].ops[j].cand, p, j)
    BY <1>2, <1>10 DEF IInv, FlowsStand, FlowStands, SnapshotStands, BindingsKept, p
  <2> QED
    BY <1>3, <1>4, <1>7, <1>9, <1>10, <2>1 DEF SnapshotStands, OwnObject
<1>12. HasAgreement(f)'
  BY <1>1, <1>9 DEF IInv, FlowsStand, FlowStands, HasAgreement, Kinds, k
<1>13. ClaimIsUnused(f)'
  BY <1>3, <1>6, <1>7, <1>9, <1>10 DEF ClaimIsUnused, Held, Own, Unsent
<1>14. FlowStands(f)'
  BY <1>9, <1>11, <1>12, <1>13 DEF FlowStands, IdleIsNew, ReceiptIsMade, FoundIsOwn, ShownAsBound
<1>15. \A g \in Flows : Sending(g) => ~(flow[g].purchase = p /\ flow[g].kind = k)
  BY <1>6 DEF IInv, FlowsStand, FlowStands, ClaimIsUnused, Own
<1>16. ClaimIsSole'
  BY <1>9, <1>15 DEF IInv, ClaimIsSole, Sending, SameOperation
<1>17. RowStep(p, k, o, "preparing") /\ UNCHANGED <<held, remote>>
  BY <1>1, <1>6 DEF RowStep, RowStates, p
<1>18. \A g \in Flows : flow'[g] = flow[g] \/ FlowStands(g)'
  BY <1>9, <1>14
<1> QED
  BY <1>2, <1>8, <1>9, <1>16, <1>17, <1>18, TransactionStep

LEMMA SendInvariant == ASSUME IInv, NEW f \in Flows, Send(f) PROVE IInv'
<1>1. /\ flow[f].pc = "send" /\ UNCHANGED <<row, held, op, objects, strange, edits>>
      /\ objects \subseteq objects' /\ BindingsKept
  BY DEF Send, local, BindingsKept
<1>2. flow[f].purchase \in Purchases /\ flow[f].kind \in Kinds
  BY FlowFacts DEF IInv
<1>3. Sending(f) /\ HasAgreement(f) /\ ClaimIsUnused(f)
  BY <1>1 DEF IInv, FlowsStand, FlowStands, Sending
<1>4. CASE Goto(f, "not_sent") /\ UNCHANGED requests
  <2>1. /\ flow' \in [Flows -> Flow] /\ \A g \in Flows : g # f => flow'[g] = flow[g]
        /\ flow'[f].pc = "not_sent" /\ flow'[f].purchase = flow[f].purchase
        /\ flow'[f].kind = flow[f].kind /\ flow'[f].ops = flow[f].ops
    BY <1>4, GotoFacts DEF IInv
  <2>2. SnapshotStands(f)'
    BY <1>1, <2>1, SnapshotKept
  <2>3. ClaimIsUnused(f)'
    BY <1>1, <1>3, <1>4, <2>1 DEF ClaimIsUnused, Held, Own
  <2>4. FlowStands(f)'
    BY <2>1, <2>2, <2>3 DEF FlowStands, IdleIsNew, HasAgreement, ReceiptIsMade, FoundIsOwn, ShownAsBound
  <2>5. ASSUME NEW g \in Flows, g # f PROVE FlowStands(g)'
    <3>1. flow'[g] = flow[g]
      BY <2>1, <2>5
    <3>2. Sending(g) => ClaimIsUnused(g)'
      BY <1>1, <1>4, <3>1 DEF IInv, FlowsStand, FlowStands, ClaimIsUnused, Held, Own
    <3> QED
      BY <1>1, <3>1, <3>2, OthersStand
  <2>6. ClaimIsSole'
    BY <1>3, <2>1 DEF IInv, ClaimIsSole, Sending, SameOperation
  <2>7. TypeOK' /\ OperationsStand' /\ RowsStand' /\ RequestsHang'
    BY <1>1, <1>4, <2>1 DEF IInv, TypeOK, OperationsStand, OperationStands, OwnObject, RowsStand, RequestsHang
  <2> QED
    BY <2>4, <2>5, <2>6, <2>7 DEF IInv, FlowsStand
<1>5. CASE Goto(f, "await") /\ requests' = requests \cup {Request(f)}
  <2>1. /\ flow' \in [Flows -> Flow] /\ \A g \in Flows : g # f => flow'[g] = flow[g]
        /\ flow'[f].pc = "await" /\ flow'[f].purchase = flow[f].purchase
        /\ flow'[f].kind = flow[f].kind /\ flow'[f].ops = flow[f].ops
    BY <1>5, GotoFacts DEF IInv
  <2>2. /\ Request(f) \in Id /\ Request(f).purchase = flow[f].purchase /\ Request(f).kind = flow[f].kind
        /\ flow[f].kind = "subscription" =>
              Request(f).under = op[flow[f].purchase]["agreement"].bound
    BY <1>1, <1>3, RequestFacts DEF HasAgreement
  <2>3. SnapshotStands(f)'
    BY <1>1, <2>1, SnapshotKept
  <2>4. HasAgreement(f)' /\ ~Sending(f)'
    BY <1>1, <1>3, <2>1 DEF HasAgreement, Sending
  <2>5. FlowStands(f)'
    BY <2>1, <2>3, <2>4 DEF FlowStands, IdleIsNew, ClaimIsUnused, ReceiptIsMade, FoundIsOwn, ShownAsBound
  <2>6. ASSUME NEW g \in Flows, g # f PROVE FlowStands(g)'
    <3>1. flow'[g] = flow[g]
      BY <2>1, <2>6
    <3>2. ASSUME Sending(g) PROVE ClaimIsUnused(g)'
      <4>1. ~SameOperation(f, g)
        BY <1>3, <2>6, <3>2 DEF IInv, ClaimIsSole
      <4>2. ClaimIsUnused(g)
        BY DEF IInv, FlowsStand, FlowStands
      <4> QED
        BY <1>1, <1>5, <2>2, <3>1, <3>2, <4>1, <4>2 DEF ClaimIsUnused, Held, Own, SameOperation
    <3> QED
      BY <1>1, <3>1, <3>2, OthersStand
  <2>7. ClaimIsSole'
    BY <2>1, <2>4, SoleKept
  <2>8. OperationsStand'
    <3>1. op[flow[f].purchase][flow[f].kind].state \notin Unsent
      BY <1>3 DEF ClaimIsUnused, Own
    <3> QED
      BY <1>1, <1>5, <2>2, <3>1 DEF IInv, OperationsStand, OperationStands, OwnObject
  <2>9. TypeOK' /\ RowsStand' /\ RequestsHang'
    BY <1>1, <1>5, <2>1, <2>2 DEF IInv, TypeOK, RowsStand, RequestsHang
  <2> QED
    BY <2>5, <2>6, <2>7, <2>8, <2>9 DEF IInv, FlowsStand
<1> QED
  BY <1>4, <1>5 DEF Send

LEMMA AnswerInvariant == ASSUME IInv, NEW f \in Flows, Answer(f) PROVE IInv'
<1>1. flow[f].pc = "await" /\ UNCHANGED <<local, remote>>
  BY DEF Answer
<1>2. CASE Goto(f, "failed")
  BY <1>1, <1>2, GotoInvariant DEF Plain
<1>3. CASE Request(f) \in objects /\ Goto(f, "receipt")
  <2>1. BindingsKept /\ UNCHANGED objects
    BY <1>1 DEF BindingsKept, local, remote
  <2>2. /\ flow' \in [Flows -> Flow] /\ \A g \in Flows : g # f => flow'[g] = flow[g]
        /\ flow'[f].pc = "receipt" /\ flow'[f].purchase = flow[f].purchase
        /\ flow'[f].kind = flow[f].kind /\ flow'[f].ops = flow[f].ops
    BY <1>3, GotoFacts DEF IInv
  <2>3. SnapshotStands(f)'
    BY <2>1, <2>2, SnapshotKept
  <2>4. HasAgreement(f)'
    BY <1>1, <2>2 DEF IInv, FlowsStand, FlowStands, HasAgreement
  <2>5. ReceiptIsMade(f)'
    BY <1>3, <2>1, <2>2 DEF ReceiptIsMade, Request, Before
  <2>6. FlowStands(f)' /\ ~Sending(f)'
    BY <2>2, <2>3, <2>4, <2>5 DEF FlowStands, IdleIsNew, ClaimIsUnused, FoundIsOwn, ShownAsBound, Sending
  <2> QED
    BY <1>1, <2>2, <2>6, FlowStep
<1> QED
  BY <1>2, <1>3 DEF Answer

\* An operation of the flow itself, as OperationStep sees it.
LEMMA OwnFacts ==
    ASSUME IInv, NEW f \in Flows
    PROVE  LET p == flow[f].purchase  k == flow[f].kind  o == Own(f) IN
           /\ p \in Purchases /\ k \in Kinds /\ o \in Operation /\ o = op[p][k]
           /\ OwnObject(o.bound, p, k) /\ OwnObject(o.cand, p, k)
           /\ o.state \in Claimed => o.claimed
           /\ o.state = "pending" => ~o.claimed
           /\ o.state = "bound" => o.bound # NoId
           /\ row[p] \in RowStates
  BY FlowFacts DEF IInv, OperationsStand, OperationStands, Own, TypeOK

\* A transaction on the flow's operation, and the flow's next step.
LEMMA OwnTransaction ==
    ASSUME IInv, NEW f \in Flows, NEW o, Set(f, o), OperationStep(flow[f].purchase, flow[f].kind, o),
           UNCHANGED <<held, remote>>,
           NEW x \in RowStates, row' = [row EXCEPT ![flow[f].purchase] = x],
           x = row[flow[f].purchase] \/ (x # "absent" /\ Held(f)),
           x = "linked" => Held(f) /\ o.state = "bound"
                             /\ \A j \in Kinds : j # flow[f].kind => op[flow[f].purchase][j].state = "bound",
           flow' \in [Flows -> Flow], \A g \in Flows : g # f => flow'[g] = flow[g],
           FlowStands(f)', ~Sending(f)'
    PROVE  IInv'
<1>1. flow[f].purchase \in Purchases /\ flow[f].kind \in Kinds
  BY OwnFacts
<1>2. \A g \in Flows : flow'[g] = flow[g] \/ FlowStands(g)'
  OBVIOUS
<1>3. ClaimIsSole'
  BY SoleKept
<1>4. RowStep(flow[f].purchase, flow[f].kind, o, x)
  BY DEF RowStep, Held
<1> QED
  BY <1>1, <1>2, <1>3, <1>4, TransactionStep

LEMMA RecordReceiptInvariant == ASSUME IInv, NEW f \in Flows, RecordReceipt(f) PROVE IInv'
<1> DEFINE o == [Own(f) EXCEPT !.cand = Request(f)]
           p == flow[f].purchase
           k == flow[f].kind
<1>1. flow[f].pc = "receipt" /\ UNCHANGED <<row, held, remote>>
  BY DEF RecordReceipt
<1>2. CASE Goto(f, "failed") /\ UNCHANGED op
  BY <1>1, <1>2, GotoInvariant DEF Plain, local
<1>3. CASE ReceiptAccepted(f) /\ Set(f, o) /\ Goto(f, "reread")
  <2>1. /\ p \in Purchases /\ k \in Kinds /\ Own(f) \in Operation /\ Own(f) = op[p][k]
        /\ OwnObject(Own(f).bound, p, k) /\ row[p] \in RowStates
        /\ Own(f).state \in Claimed => Own(f).claimed
    BY OwnFacts
  <2>2. Request(f) \in objects /\ HasAgreement(f)
    BY <1>1 DEF IInv, FlowsStand, FlowStands, ReceiptIsMade
  <2>3. Request(f) \in Id /\ OwnObject(Request(f), p, k)
    BY <1>1, <2>2, RequestFacts DEF HasAgreement, OwnObject
  <2>4. /\ o \in Operation /\ o.state = Own(f).state /\ o.bound = Own(f).bound
        /\ o.claimed = Own(f).claimed /\ o.cand = Request(f)
    BY <2>1, <2>3 DEF Operation
  <2>5. Held(f) /\ Own(f).state \in {"possible_send", "unknown"}
    BY <1>3 DEF ReceiptAccepted
  <2>6. op' = [op EXCEPT ![p][k] = o]
    BY <1>3 DEF Set
  <2> HIDE DEF o
  <2>7. OperationStep(p, k, o)
    BY <2>1, <2>3, <2>4, <2>5, <2>6 DEF OperationStep, Unsent, Claimed
  <2>8. BindingsKept /\ objects \subseteq objects'
    BY <1>1, <2>1, <2>7, OperationStepFacts DEF remote
  <2>9. /\ flow' \in [Flows -> Flow] /\ \A g \in Flows : g # f => flow'[g] = flow[g]
        /\ FlowStands(f)' /\ ~Sending(f)'
    BY <1>3, <2>8, GotoPlain DEF Plain
  <2>10. row[p] # "linked"
    BY <2>1, <2>5 DEF IInv, RowsStand
  <2>11. row' = [row EXCEPT ![p] = row[p]]
    BY <1>1, <2>1 DEF IInv, TypeOK
  <2> QED
    BY <1>1, <1>3, <2>1, <2>7, <2>9, <2>10, <2>11, OwnTransaction
<1> QED
  BY <1>2, <1>3 DEF RecordReceipt

LEMMA ProvenNotSentInvariant == ASSUME IInv, NEW f \in Flows, ProvenNotSent(f) PROVE IInv'
<1> DEFINE o == [Own(f) EXCEPT !.state = "proven_not_sent", !.fence = @ + 1]
           p == flow[f].purchase
           k == flow[f].kind
<1>1. flow[f].pc = "not_sent" /\ Held(f) /\ End(f) /\ UNCHANGED <<held, remote>>
  BY DEF ProvenNotSent
<1>2. /\ flow' \in [Flows -> Flow] /\ \A g \in Flows : g # f => flow'[g] = flow[g]
      /\ FlowStands(f)' /\ ~Sending(f)'
  BY <1>1, EndFlow
<1>3. CASE UNCHANGED <<op, row>>
  BY <1>1, <1>3, EndInvariant DEF local
<1>4. CASE NotSentAccepted(f) /\ Set(f, o) /\ row' = [row EXCEPT ![p] = "preparing"]
  <2>1. /\ p \in Purchases /\ k \in Kinds /\ Own(f) \in Operation /\ Own(f) = op[p][k]
        /\ OwnObject(Own(f).bound, p, k) /\ OwnObject(Own(f).cand, p, k)
    BY OwnFacts
  <2>2. Own(f).claimed
    BY <1>4 DEF NotSentAccepted
  <2>3. /\ o \in Operation /\ o.state = "proven_not_sent" /\ o.claimed = Own(f).claimed
        /\ o.bound = op[p][k].bound /\ o.cand = op[p][k].cand
    <3>1. "proven_not_sent" \in States
      BY DEF States
    <3>2. /\ o \in Operation /\ o.state = "proven_not_sent" /\ o.claimed = Own(f).claimed
          /\ o.bound = Own(f).bound /\ o.cand = Own(f).cand
      BY <2>1, <3>1, WrittenFacts, Zenon
    <3> QED
      BY <2>1, <3>2
  <2>4. op' = [op EXCEPT ![p][k] = o]
    BY <1>4 DEF Set
  <2> HIDE DEF o
  <2>5. Sending(f) /\ ClaimIsUnused(f)
    BY <1>1 DEF IInv, FlowsStand, FlowStands, Sending
  <2>6. \A g \in Flows : flow'[g] = flow[g] /\ Sending(g) =>
            ~(flow[g].purchase = p /\ flow[g].kind = k)
    BY <1>2, <2>5 DEF IInv, ClaimIsSole, SameOperation, Sending
  <2>7. OperationStep(p, k, o)
    BY <2>1, <2>2, <2>3, <2>4, <2>5, <2>6 DEF OperationStep, ClaimIsUnused
  <2> QED
    BY <1>1, <1>2, <1>4, <2>7, OwnTransaction DEF RowStates, o
<1> QED
  BY <1>3, <1>4 DEF ProvenNotSent

\* A failure or a conflict takes an operation back, or leaves it pending.
LEMMA DemotionStep ==
    ASSUME IInv, NEW p \in Purchases, NEW k \in Kinds, NEW o \in Operation,
           op' = [op EXCEPT ![p][k] = o],
           o.bound = op[p][k].bound, o.cand = op[p][k].cand, o.claimed = op[p][k].claimed,
           o.state \in {"unknown", "pending", "manual_review"},
           o.state = "unknown" => o.claimed,
           o.state = "pending" => op[p][k].state = "pending"
    PROVE  OperationStep(p, k, o)
<1>1. /\ OwnObject(op[p][k].bound, p, k) /\ OwnObject(op[p][k].cand, p, k)
      /\ op[p][k].state = "pending" => ~op[p][k].claimed /\ \A i \in requests : i.purchase = p => i.kind # k
  BY DEF IInv, OperationsStand, OperationStands, Unsent
<1>2. op[p][k].state = "pending" =>
         \A g \in Flows : Sending(g) => ~(flow[g].purchase = p /\ flow[g].kind = k)
  BY DEF IInv, FlowsStand, FlowStands, ClaimIsUnused, Own, Unsent
<1> QED
  BY <1>1, <1>2 DEF OperationStep, Claimed, Unsent

LEMMA KeepPendingInvariant ==
    ASSUME IInv, NEW f \in Flows, Held(f), KeepPending(f), UNCHANGED <<held, remote>>,
           BindingsKept => /\ flow' \in [Flows -> Flow] /\ \A g \in Flows : g # f => flow'[g] = flow[g]
                           /\ FlowStands(f)' /\ ~Sending(f)'
    PROVE  IInv'
<1> DEFINE p == flow[f].purchase
           k == flow[f].kind
<1>1. /\ p \in Purchases /\ k \in Kinds /\ Own(f) \in Operation /\ Own(f) = op[p][k]
      /\ Own(f).state = "bound" => Own(f).bound # NoId
      /\ Own(f).state \in Claimed => Own(f).claimed
      /\ Own(f).state = "pending" => ~Own(f).claimed
      /\ row[p] \in RowStates
      /\ OwnObject(Own(f).bound, p, k) /\ OwnObject(Own(f).cand, p, k)
  BY OwnFacts
<1>2. UNCHANGED <<requests, objects, held>>
  BY DEF remote
<1>3. op \in [Purchases -> [Kinds -> Operation]] /\ row \in [Purchases -> RowStates]
  BY DEF IInv, TypeOK
<1>4. CASE UNCHANGED <<op, row>>
  BY <1>4, FlowStep DEF local, BindingsKept
<1>5. CASE Own(f).state = "bound" /\ PendingRow(f) /\ UNCHANGED op
  <2> DEFINE x == IF row[p] \in {"review", "linked"} THEN row[p] ELSE "awaiting"
  <2>1. row' = [row EXCEPT ![p] = x] /\ x \in RowStates
    BY <1>1, <1>3, <1>5 DEF PendingRow, RowStates
  <2>2. op' = [op EXCEPT ![p][k] = Own(f)] /\ Set(f, Own(f))
    BY <1>1, <1>3, <1>5 DEF Set
  <2>3. OperationStep(p, k, Own(f))
    BY <1>1, <1>5, <2>2 DEF OperationStep, Unsent
  <2>4. BindingsKept
    BY <1>5 DEF BindingsKept
  <2>5. x = "linked" => \A j \in Kinds : op[p][j].state = "bound"
    BY <1>1 DEF IInv, RowsStand
  <2>6. x = row[p] \/ x # "absent"
    OBVIOUS
  <2> HIDE DEF x
  <2> QED
    BY <1>5, <2>1, <2>2, <2>3, <2>4, <2>5, <2>6, OwnTransaction
<1>6. CASE Set(f, Reviewed(Own(f), "outcome_unknown")) /\ row' = [row EXCEPT ![p] = "review"]
  <2> DEFINE o == Reviewed(Own(f), "outcome_unknown")
  <2>1. "outcome_unknown" \in Cases
    BY DEF Cases
  <2>2. /\ o \in Operation /\ o.state = "manual_review" /\ o.claimed = Own(f).claimed
        /\ o.bound = Own(f).bound /\ o.cand = Own(f).cand
    BY <1>1, <2>1, ReviewedFacts, Zenon
  <2>3. op' = [op EXCEPT ![p][k] = o]
    BY <1>6 DEF Set
  <2> HIDE DEF o
  <2>4. OperationStep(p, k, o)
    BY <1>1, <2>2, <2>3, DemotionStep
  <2>5. BindingsKept
    BY <1>1, <1>2, <2>4, OperationStepFacts
  <2>6. Set(f, o)
    BY <1>6 DEF o
  <2> QED
    BY <1>6, <2>4, <2>5, <2>6, OwnTransaction DEF RowStates
<1>7. CASE /\ Own(f).state \in {"pending", "possible_send", "unknown"}
           /\ Set(f, [Own(f) EXCEPT !.state = IF Own(f).claimed THEN "unknown" ELSE "pending"])
           /\ PendingRow(f)
  <2> DEFINE s == IF Own(f).claimed THEN "unknown" ELSE "pending"
             o == [Own(f) EXCEPT !.state = s]
  <2>1. /\ s \in States /\ s \in {"unknown", "pending", "manual_review"}
        /\ s = "unknown" => Own(f).claimed
        /\ s = "pending" => Own(f).state = "pending"
    BY <1>1, <1>7 DEF States, Claimed
  <2>2. Set(f, o)
    BY <1>7
  <2> HIDE DEF s
  <2>3. /\ o \in Operation /\ o.state = s /\ o.claimed = Own(f).claimed
        /\ o.bound = Own(f).bound /\ o.cand = Own(f).cand
    <3>1. Own(f) \in Operation /\ s \in States
      BY <1>1, <2>1
    <3> QED
      BY <3>1, WrittenFacts, Zenon
  <2> HIDE DEF o
  <2>4. op' = [op EXCEPT ![p][k] = o]
    BY <2>2 DEF Set
  <2>5. OperationStep(p, k, o)
    BY <1>1, <2>1, <2>3, <2>4, DemotionStep
  <2>6. BindingsKept
    BY <1>1, <1>2, <2>5, OperationStepFacts
  <2>7. row' = [row EXCEPT ![p] = "awaiting"]
    BY <1>7 DEF PendingRow
  <2> QED
    BY <2>2, <2>5, <2>6, <2>7, OwnTransaction DEF RowStates
<1> QED
  BY <1>4, <1>5, <1>6, <1>7 DEF KeepPending

LEMMA PendingInvariant == ASSUME IInv, NEW f \in Flows, Pending(f) PROVE IInv'
<1>1. Held(f) /\ UNCHANGED <<held, remote>> /\ objects \subseteq objects'
  BY DEF Pending, remote
<1>2. Goto(f, "reread") \/ End(f)
  BY DEF Pending
<1>3. BindingsKept => /\ flow' \in [Flows -> Flow] /\ \A g \in Flows : g # f => flow'[g] = flow[g]
                      /\ FlowStands(f)' /\ ~Sending(f)'
  BY <1>1, <1>2, GotoPlain, EndFlow DEF Plain
<1>4. CASE KeepPending(f)
  BY <1>1, <1>3, <1>4, KeepPendingInvariant
<1>5. CASE UNCHANGED <<op, row>>
  BY <1>1, <1>3, <1>5, FlowStep DEF local, BindingsKept
<1> QED
  BY <1>4, <1>5 DEF Pending

LEMMA ConflictInvariant == ASSUME IInv, NEW f \in Flows, Conflict(f) PROVE IInv'
<1> DEFINE p == flow[f].purchase
           k == flow[f].kind
           o == Reviewed(Own(f), "conflict")
<1>1. Held(f) /\ End(f) /\ UNCHANGED <<held, remote>>
  BY DEF Conflict
<1>2. /\ flow' \in [Flows -> Flow] /\ \A g \in Flows : g # f => flow'[g] = flow[g]
      /\ FlowStands(f)' /\ ~Sending(f)'
  BY <1>1, EndFlow
<1>3. CASE UNCHANGED <<op, row>>
  BY <1>1, <1>3, EndInvariant DEF local
<1>4. CASE Set(f, o) /\ row' = [row EXCEPT ![p] = "review"]
  <2>1. p \in Purchases /\ k \in Kinds /\ Own(f) \in Operation /\ Own(f) = op[p][k]
    BY OwnFacts
  <2>2. "conflict" \in Cases
    BY DEF Cases
  <2>3. /\ o \in Operation /\ o.state = "manual_review" /\ o.claimed = Own(f).claimed
        /\ o.bound = Own(f).bound /\ o.cand = Own(f).cand
    BY <2>1, <2>2, ReviewedFacts, Zenon
  <2> HIDE DEF o
  <2>4. op' = [op EXCEPT ![p][k] = o]
    BY <1>4 DEF Set
  <2>5. OperationStep(p, k, o)
    BY <2>1, <2>3, <2>4, DemotionStep
  <2> QED
    BY <1>1, <1>2, <1>4, <2>5, OwnTransaction DEF RowStates
<1> QED
  BY <1>3, <1>4 DEF Conflict

LEMMA ChangedTermsInvariant == ASSUME IInv, NEW f \in Flows, ChangedTerms(f) PROVE IInv'
<1> DEFINE p == flow[f].purchase
           o == Reviewed(op[p]["subscription"], "terms_changed")
<1>1. Held(f) /\ End(f) /\ UNCHANGED remote
  BY DEF ChangedTerms
<1>2. /\ flow' \in [Flows -> Flow] /\ \A g \in Flows : g # f => flow'[g] = flow[g]
      /\ FlowStands(f)' /\ ~Sending(f)'
  BY <1>1, EndFlow
<1>3. p \in Purchases /\ "subscription" \in Kinds
  BY OwnFacts DEF Kinds
<1>4. CASE UNCHANGED <<op, row, held>>
  BY <1>1, <1>4, EndInvariant DEF local
<1>5. CASE /\ row[p] # "linked" /\ NeverSent(p) /\ row' = [row EXCEPT ![p] = "failed"]
           /\ held' = held \ {p} /\ UNCHANGED op
  <2>1. UNCHANGED <<op, requests, objects, strange, edits>>
    BY <1>1, <1>5 DEF remote
  <2>2. row \in [Purchases -> RowStates] /\ held \in SUBSET Purchases
    BY DEF IInv, TypeOK
  <2>3. /\ row' \in [Purchases -> RowStates] /\ row'[p] = "failed" /\ held' \in SUBSET Purchases
        /\ \A q \in Purchases : q # p => row'[q] = row[q]
    BY <1>3, <1>5, <2>2 DEF RowStates
  <2>4. TypeOK'
    BY <1>2, <2>1, <2>3 DEF IInv, TypeOK
  <2>5. RowsStand'
    BY <1>5, <2>1, <2>3 DEF IInv, RowsStand
  <2>6. OperationsStand' /\ RequestsHang'
    BY <2>1 DEF IInv, OperationsStand, OperationStands, OwnObject, RequestsHang
  <2>7. ClaimIsSole'
    BY <1>2, SoleKept
  <2>8. ASSUME NEW g \in Flows, g # f PROVE FlowStands(g)'
    <3>1. flow'[g] = flow[g] /\ flow[g].kind \in Kinds
      BY <1>2, <2>8, OwnFacts
    <3>2. ASSUME Sending(g) PROVE ClaimIsUnused(g)'
      <4>1. ClaimIsUnused(g)
        BY DEF IInv, FlowsStand, FlowStands
      <4>2. flow[g].purchase # p
        BY <1>5, <3>1, <3>2, <4>1 DEF ClaimIsUnused, NeverSent, Own
      <4> QED
        BY <1>5, <2>1, <3>1, <4>1, <4>2 DEF ClaimIsUnused, Sending, Held, Own
    <3> QED
      BY <2>1, <3>1, <3>2, OthersStand DEF BindingsKept
  <2> QED
    BY <1>2, <2>4, <2>5, <2>6, <2>7, <2>8 DEF IInv, FlowsStand
<1>6. CASE /\ op' = [op EXCEPT ![p]["subscription"] = Reviewed(@, "terms_changed")]
           /\ row' = [row EXCEPT ![p] = "review"] /\ UNCHANGED held
  <2>1. op[p]["subscription"] \in Operation /\ "terms_changed" \in Cases
    BY <1>3, OperationFacts DEF IInv, Cases
  <2>2. /\ o \in Operation /\ o.state = "manual_review" /\ o.claimed = op[p]["subscription"].claimed
        /\ o.bound = op[p]["subscription"].bound /\ o.cand = op[p]["subscription"].cand
    BY <2>1, ReviewedFacts, Zenon
  <2>3. op' = [op EXCEPT ![p]["subscription"] = o]
    BY <1>3, <1>6 DEF IInv, TypeOK
  <2> HIDE DEF o
  <2>4. OperationStep(p, "subscription", o)
    BY <1>3, <2>2, <2>3, DemotionStep
  <2>5. ClaimIsSole'
    BY <1>2, SoleKept
  <2>6. RowStep(p, "subscription", o, "review") /\ UNCHANGED <<held, remote>>
    BY <1>1, <1>6 DEF RowStep, RowStates, Held
  <2>7. flow' \in [Flows -> Flow] /\ \A g \in Flows : flow'[g] = flow[g] \/ FlowStands(g)'
    BY <1>2
  <2> HIDE DEF p
  <2> QED
    BY <1>3, <2>4, <2>5, <2>6, <2>7, TransactionStep
<1> QED
  BY <1>4, <1>5, <1>6 DEF ChangedTerms

LEMMA BindInvariant == ASSUME IInv, NEW f \in Flows, Bind(f) PROVE IInv'
<1> DEFINE p == flow[f].purchase
           k == flow[f].kind
           n == IF Own(f).state = "bound" THEN Own(f).fence ELSE Own(f).fence + 1
           o == [Own(f) EXCEPT !.state = "bound", !.bound = flow[f].id, !.fence = n,
                               !.cases = Own(f).cases \ {"outcome_unknown"}]
           x == IF k = "subscription" THEN "linked"
                ELSE IF row[p] = "review" /\ op[p][CHOOSE j \in Kinds : j # k].state # "manual_review"
                THEN "preparing" ELSE row[p]
<1>1. flow[f].pc = "bind" /\ MayBind(f) /\ UNCHANGED <<held, remote>>
  BY DEF Bind
<1>2. /\ p \in Purchases /\ k \in Kinds /\ Own(f) \in Operation /\ Own(f) = op[p][k]
      /\ OwnObject(Own(f).cand, p, k) /\ row[p] \in RowStates
  BY OwnFacts
<1>3. flow[f].id # NoId /\ OwnObject(flow[f].id, p, k) /\ flow[f].id \in Id
  <2>1. flow[f].id # NoId /\ OwnObject(flow[f].id, p, k)
    BY <1>1 DEF IInv, FlowsStand, FlowStands, FoundIsOwn
  <2> QED
    BY <2>1, FlowFacts DEF IInv
<1>4. /\ Held(f) /\ Own(f).claimed /\ Own(f).bound \in {NoId, flow[f].id}
      /\ k = "subscription" => op[p]["agreement"].state = "bound"
  BY <1>1 DEF MayBind
<1>6. op' = [op EXCEPT ![p][k] = o] /\ Set(f, o)
  <2>1. op \in [Purchases -> [Kinds -> Operation]]
    BY DEF IInv, TypeOK
  <2> QED
    BY <1>2, <2>1 DEF Bind, Set
<1>7. row' = [row EXCEPT ![p] = x]
  <2>1. row \in [Purchases -> RowStates]
    BY DEF IInv, TypeOK
  <2> QED
    BY <1>2, <2>1 DEF Bind
<1>8. /\ o \in Operation /\ o.state = "bound" /\ o.bound = flow[f].id
      /\ o.cand = Own(f).cand /\ o.claimed = Own(f).claimed
  <2>0. Own(f).fence \in Nat /\ Own(f).cases \in SUBSET Cases
    BY <1>2 DEF Operation
  <2>1. n \in Nat /\ Own(f).cases \ {"outcome_unknown"} \in SUBSET Cases
    BY <2>0
  <2> HIDE DEF n
  <2> QED
    BY <1>2, <1>3, <2>1 DEF Operation, States
<1>9. x \in RowStates /\ (x = row[p] \/ x # "absent")
  BY <1>2 DEF RowStates
<1>10. x = "linked" => \A j \in Kinds : j # k => op[p][j].state = "bound"
  <2>1. CASE k = "subscription"
    BY <1>4, <2>1 DEF Kinds
  <2>2. CASE k # "subscription"
    <3>1. x = "linked" => row[p] = "linked"
      BY <2>2
    <3> HIDE DEF x
    <3> QED
      BY <1>2, <3>1 DEF IInv, RowsStand
  <2> QED
    BY <2>1, <2>2
<1>11. CASE k = "agreement"
            /\ flow' = [flow EXCEPT ![f].pc = "read", ![f].kind = "subscription", ![f].id = NoId]
  <2> HIDE DEF o, x
  <2>1. OperationStep(p, k, o)
    <3>1. op[p][k].bound # NoId => o.bound = op[p][k].bound
      BY <1>2, <1>4, <1>8
    <3>2. OwnObject(o.bound, p, k) /\ OwnObject(o.cand, p, k)
      BY <1>2, <1>3, <1>8
    <3>3. o.claimed
      BY <1>4, <1>8
    <3>4. o.state = "bound" /\ o.bound # NoId
      BY <1>3, <1>8
    <3> QED
      BY <1>6, <1>8, <3>1, <3>2, <3>3, <3>4 DEF OperationStep, Unsent
  <2>2. BindingsKept /\ objects \subseteq objects'
    BY <1>1, <1>2, <2>1, OperationStepFacts DEF remote
  <2>3. flow[f] \in Flow /\ flow \in [Flows -> Flow]
    BY DEF IInv, TypeOK
  <2>4. /\ flow' \in [Flows -> Flow] /\ \A g \in Flows : g # f => flow'[g] = flow[g]
        /\ flow'[f].pc = "read" /\ flow'[f].purchase = flow[f].purchase /\ flow'[f].ops = flow[f].ops
    BY <1>11, <2>3 DEF Flow, Kinds
  <2>5. FlowStands(f)' /\ ~Sending(f)'
    BY <2>2, <2>4, SnapshotKept, PlainStands DEF Plain
  <2> QED
    BY <1>1, <1>4, <1>6, <1>7, <1>8, <1>9, <1>10, <2>1, <2>4, <2>5, OwnTransaction
<1>12. CASE Goto(f, "confirm") \/ End(f)
  <2> HIDE DEF o, x
  <2>1. OperationStep(p, k, o)
    BY <1>2, <1>3, <1>4, <1>6, <1>8 DEF OperationStep, Unsent
  <2>2. BindingsKept /\ objects \subseteq objects'
    BY <1>1, <1>2, <2>1, OperationStepFacts DEF remote
  <2>3. /\ flow' \in [Flows -> Flow] /\ \A g \in Flows : g # f => flow'[g] = flow[g]
        /\ FlowStands(f)' /\ ~Sending(f)'
    BY <1>12, <2>2, GotoPlain, EndFlow DEF Plain
  <2> QED
    BY <1>1, <1>4, <1>6, <1>7, <1>8, <1>9, <1>10, <2>1, <2>3, OwnTransaction
<1> QED
  BY <1>11, <1>12 DEF Bind

LEMMA ConfirmInvariant == ASSUME IInv, NEW f \in Flows, Confirm(f) PROVE IInv'
<1>1. UNCHANGED <<local, remote>> /\ UNCHANGED objects
  BY DEF Confirm, remote
<1>2. CASE End(f)
  BY <1>1, <1>2, EndInvariant
<1>3. CASE /\ row[flow[f].purchase] = "linked"
           /\ \A k \in Kinds : op[flow[f].purchase][k].state = "bound"
           /\ Snapshot(f, "show")
  <2>1. /\ flow' \in [Flows -> Flow] /\ \A g \in Flows : g # f => flow'[g] = flow[g]
        /\ flow'[f].pc = "show" /\ SnapshotStands(f)'
        /\ flow'[f].row = "linked" /\ \A k \in Kinds : flow'[f].ops[k].state = "bound"
    BY <1>1, <1>3, SnapshotTaken
  <2>2. FlowStands(f)' /\ ~Sending(f)'
    BY <2>1 DEF FlowStands, IdleIsNew, HasAgreement, ClaimIsUnused, ReceiptIsMade, FoundIsOwn,
                ShownAsBound, Sending
  <2> QED
    BY <1>1, <2>1, <2>2, FlowStep
<1> QED
  BY <1>2, <1>3 DEF Confirm

LEMMA ShowInvariant == ASSUME IInv, NEW f \in Flows, Show(f) PROVE IInv'
<1> DEFINE e == [EndedFlow EXCEPT !.pc = "shown", !.purchase = flow[f].purchase]
<1>1. UNCHANGED <<local, remote>> /\ flow' = [flow EXCEPT ![f] = e]
  BY DEF Show
<1>2. /\ EndedFlow \in Flow
      /\ \A k \in Kinds : EndedFlow.ops[k].bound = NoId /\ EndedFlow.ops[k].cand = NoId
  BY NewFlowFacts
<1>3. flow[f].purchase \in Purchases
  BY OwnFacts
<1> HIDE DEF EndedFlow
<1>4. e \in Flow /\ e.pc = "shown" /\ \A k \in Kinds : e.ops[k].bound = NoId /\ e.ops[k].cand = NoId
  BY <1>2, <1>3 DEF Flow
<1> HIDE DEF e
<1>5. /\ flow' \in [Flows -> Flow] /\ \A g \in Flows : g # f => flow'[g] = flow[g]
      /\ flow'[f] = e
  BY <1>1, <1>4 DEF IInv, TypeOK
<1>6. SnapshotStands(f)'
  BY <1>4, <1>5 DEF SnapshotStands, OwnObject
<1>7. FlowStands(f)' /\ ~Sending(f)'
  BY <1>4, <1>5, <1>6, PlainStands DEF Plain
<1> QED
  BY <1>1, <1>5, <1>7, FlowStep

LEMMA OverdueInvariant ==
    ASSUME IInv, NEW p \in Purchases, NEW k \in Kinds, Overdue(p, k)
    PROVE  IInv'
<1> DEFINE o == [op[p][k] EXCEPT !.overdue = TRUE]
<1>1. /\ op[p][k].state \in {"possible_send", "unknown", "manual_review"}
      /\ op' = [op EXCEPT ![p][k].overdue = TRUE] /\ UNCHANGED <<row, held, flow, remote>>
  BY DEF Overdue
<1>2. op \in [Purchases -> [Kinds -> Operation]] /\ op[p][k] \in Operation
      /\ row \in [Purchases -> RowStates] /\ flow \in [Flows -> Flow]
  BY DEF IInv, TypeOK
<1>3. /\ o \in Operation /\ o.state = op[p][k].state /\ o.claimed = op[p][k].claimed
      /\ o.bound = op[p][k].bound /\ o.cand = op[p][k].cand
  BY <1>2 DEF Operation
<1>4. op' = [op EXCEPT ![p][k] = o]
  BY <1>1, <1>2
<1> HIDE DEF o
<1>5. /\ OwnObject(op[p][k].bound, p, k) /\ OwnObject(op[p][k].cand, p, k)
      /\ op[p][k].state \in Claimed => op[p][k].claimed
  BY DEF IInv, OperationsStand, OperationStands
<1>6. OperationStep(p, k, o)
  BY <1>1, <1>3, <1>4, <1>5 DEF OperationStep, Unsent
<1>7. ClaimIsSole'
  BY <1>1, SoleKept
<1>8. row' = [row EXCEPT ![p] = row[p]] /\ row[p] \in RowStates
  BY <1>1, <1>2
<1>9. row[p] # "linked"
  BY <1>1 DEF IInv, RowsStand
<1>10. RowStep(p, k, o, row[p])
  BY <1>8, <1>9 DEF RowStep
<1>11. flow' \in [Flows -> Flow] /\ \A g \in Flows : flow'[g] = flow[g]
  BY <1>1, <1>2
<1> QED
  BY <1>1, <1>6, <1>7, <1>10, <1>11, TransactionStep

LEMMA EscalateInvariant ==
    ASSUME IInv, NEW p \in Purchases, NEW k \in Kinds, Escalate(p, k)
    PROVE  IInv'
<1> DEFINE o == Reviewed(op[p][k], "outcome_unknown")
<1>1. /\ p \in held /\ op' = [op EXCEPT ![p][k] = Reviewed(@, "outcome_unknown")]
      /\ row' = [row EXCEPT ![p] = "review"] /\ UNCHANGED <<held, flow, remote>>
  BY DEF Escalate
<1>2. op \in [Purchases -> [Kinds -> Operation]] /\ op[p][k] \in Operation /\ flow \in [Flows -> Flow]
      /\ "outcome_unknown" \in Cases
  BY DEF IInv, TypeOK, Cases
<1>3. op' = [op EXCEPT ![p][k] = o]
  BY <1>1, <1>2
<1>4. /\ o \in Operation /\ o.state = "manual_review" /\ o.claimed = op[p][k].claimed
      /\ o.bound = op[p][k].bound /\ o.cand = op[p][k].cand
  BY <1>2, ReviewedFacts, Zenon
<1> HIDE DEF o
<1>5. OperationStep(p, k, o)
  BY <1>3, <1>4, DemotionStep
<1>6. ClaimIsSole'
  BY <1>1, SoleKept
<1>7. RowStep(p, k, o, "review")
  BY <1>1 DEF RowStep, RowStates
<1>8. flow' \in [Flows -> Flow] /\ \A g \in Flows : flow'[g] = flow[g]
  BY <1>1, <1>2
<1> QED
  BY <1>1, <1>5, <1>6, <1>7, <1>8, TransactionStep

LEMMA ProviderInvariant ==
    ASSUME IInv, NEW i \in requests, Process(i) \/ Edit(i)
    PROVE  IInv'
<1>1. /\ UNCHANGED <<row, held, op, flow, requests>> /\ objects \subseteq objects'
      /\ objects' \in SUBSET requests /\ strange' \in SUBSET objects' /\ edits' \in 0..MaxEdits
  <2>1. objects \in SUBSET requests /\ strange \in SUBSET objects /\ edits \in 0..MaxEdits
    BY DEF IInv, TypeOK
  <2>2. CASE Process(i)
    BY <2>1, <2>2 DEF Process, local
  <2>3. CASE Edit(i)
    BY <2>1, <2>3, EditAssumption DEF Edit, local
  <2> QED
    BY <2>2, <2>3
<1>2. TypeOK'
  BY <1>1 DEF IInv, TypeOK
<1>3. OperationsStand' /\ RowsStand' /\ RequestsHang'
  BY <1>1 DEF IInv, OperationsStand, OperationStands, OwnObject, RowsStand, RequestsHang
<1>4. ClaimIsSole'
  BY <1>1, SoleKept
<1>5. ASSUME NEW g \in Flows PROVE FlowStands(g)'
  <2>1. Sending(g) => ClaimIsUnused(g)'
    BY <1>1 DEF IInv, FlowsStand, FlowStands, ClaimIsUnused, Held, Own
  <2> QED
    BY <1>1, <2>1, OthersStand DEF BindingsKept
<1> QED
  BY <1>2, <1>3, <1>4, <1>5 DEF IInv, FlowsStand

-----------------------------------------------------------------------------
(* Safety *)

LEMMA StepInvariant == IInv /\ [Next]_vars => IInv'
<1> SUFFICES ASSUME IInv, [Next]_vars PROVE IInv'
  OBVIOUS
<1>1. ASSUME NEW f \in Flows, Step(f) PROVE IInv'
  BY <1>1, BeginInvariant, ReadInvariant, InventoryInvariant, FindInvariant, RecoverInvariant,
     ClaimInvariant, SendInvariant, AnswerInvariant, RecordReceiptInvariant, ProvenNotSentInvariant,
     PendingInvariant, ConflictInvariant, ChangedTermsInvariant, BindInvariant, ConfirmInvariant,
     ShowInvariant DEF Step
<1>2. CASE UNCHANGED vars
  <2>1. UNCHANGED <<row, held, op, flow, requests, objects, strange, edits>>
    BY <1>2 DEF vars, local, remote
  <2>2. \A g \in Flows : Own(g)' = Own(g) /\ Before(g)' = Before(g) /\ Request(g)' = Request(g)
    BY <2>1 DEF Own, Before, Request
  <2> QED
    BY <2>1, <2>2 DEF IInv, TypeOK, OperationsStand, OperationStands, OwnObject, RowsStand, RequestsHang,
        FlowsStand, FlowStands, SnapshotStands, IdleIsNew, HasAgreement, ClaimIsUnused, ReceiptIsMade,
        FoundIsOwn, ShownAsBound, Sending, Held, ClaimIsSole, SameOperation
<1> QED
  BY <1>1, <1>2, PinInvariant, OverdueInvariant, EscalateInvariant, ProviderInvariant DEF Next

LEMMA InvariantHolds == Spec => []IInv
  BY InitInvariant, StepInvariant, PTL DEF Spec

\* The state of every reachable purchase, operation and flow is well formed.
THEOREM TypeCorrect == Spec => []TypeOK
<1>1. IInv => TypeOK
  BY DEF IInv
<1> QED
  BY <1>1, InvariantHolds, PTL

\* What the portal records as not sent was not sent (financial.py:142-170).
THEOREM NothingUnsentWasSent == Spec => []UnsentIsUnsent
<1>1. IInv => UnsentIsUnsent
  BY DEF IInv, OperationsStand, OperationStands, UnsentIsUnsent
<1> QED
  BY <1>1, InvariantHolds, PTL

\* An operation is bound to its own request's object, and a linked purchase
\* holds its product with both objects bound, one under the other
\* (inventory.py:22-54, financial.py:317-374).
THEOREM BoundToOwn == Spec => []BindingsAreOwn
<1>1. ASSUME IInv PROVE BindingsAreOwn
  <2> SUFFICES ASSUME NEW p \in Purchases
               PROVE  /\ \A k \in Kinds :
                            LET i == op[p][k].bound IN
                            i # NoId => i \in objects /\ i.purchase = p /\ i.kind = k
                      /\ row[p] = "linked" =>
                            /\ p \in held
                            /\ \A k \in Kinds : op[p][k].state = "bound" /\ op[p][k].bound # NoId
                            /\ op[p]["subscription"].bound.under = op[p]["agreement"].bound
    BY DEF BindingsAreOwn
  <2>1. \A k \in Kinds : OwnObject(op[p][k].bound, p, k) /\ (op[p][k].state = "bound" => op[p][k].bound # NoId)
    BY <1>1 DEF IInv, OperationsStand, OperationStands
  <2>2. ASSUME row[p] = "linked"
        PROVE  op[p]["subscription"].bound.under = op[p]["agreement"].bound
    <3> DEFINE i == op[p]["subscription"].bound
    <3>1. i \in objects /\ i.purchase = p /\ i.kind = "subscription"
      BY <1>1, <2>1, <2>2 DEF IInv, RowsStand, OwnObject, Kinds
    <3>2. i \in requests
      BY <1>1, <3>1 DEF IInv, TypeOK
    <3> QED
      BY <1>1, <3>1, <3>2 DEF IInv, RequestsHang
  <2>3. row[p] = "linked" => p \in held /\ \A k \in Kinds : op[p][k].state = "bound"
    BY <1>1 DEF IInv, RowsStand
  <2> QED
    BY <2>1, <2>2, <2>3 DEF OwnObject
<1> QED
  BY <1>1, InvariantHolds, PTL

-----------------------------------------------------------------------------
(* What a step may do to bindings *)

\* How a bound operation may be left.
StillOrDecided(o) ==
    o.state = "bound" \/ (o.state = "manual_review" /\ o.cases \cap {"conflict", "terms_changed"} # {})

BindingStays ==
    \A p \in Purchases, k \in Kinds :
        /\ Guarded(op[p][k], op'[p][k])
        /\ op[p][k].state = "bound" =>
              \/ op'[p][k].state = "bound"
              \/ op'[p][k].state = "manual_review"
                 /\ op'[p][k].cases \cap {"conflict", "terms_changed"} # {}

\* Nothing becomes pending once it is claimed, so standing still is allowed.
LEMMA StillStays == ASSUME IInv, UNCHANGED op PROVE BindingStays
  BY DEF IInv, OperationsStand, OperationStands, BindingStays, Guarded

LEMMA WriteStays ==
    ASSUME IInv, NEW p \in Purchases, NEW k \in Kinds, NEW o, op' = [op EXCEPT ![p][k] = o],
           Guarded(op[p][k], o),
           op[p][k].state = "bound" => StillOrDecided(o)
    PROVE  BindingStays
<1>1. op \in [Purchases -> [Kinds -> Operation]]
  BY DEF IInv, TypeOK
<1>2. op'[p][k] = o /\ \A q \in Purchases, j \in Kinds : q # p \/ j # k => op'[q][j] = op[q][j]
  BY <1>1
<1>3. \A q \in Purchases, j \in Kinds : Guarded(op[q][j], op[q][j])
  BY DEF Guarded, IInv, OperationsStand, OperationStands, Claimed
<1> QED
  BY <1>2, <1>3 DEF BindingStays, StillOrDecided

LEMMA SetStays ==
    ASSUME IInv, NEW f \in Flows, NEW o, Set(f, o),
           Guarded(Own(f), o),
           Own(f).state = "bound" => StillOrDecided(o)
    PROVE  BindingStays
  BY OwnFacts, WriteStays DEF Set

LEMMA SendsStay ==
    ASSUME IInv, NEW f \in Flows, Claim(f) \/ RecordReceipt(f) \/ ProvenNotSent(f)
    PROVE  BindingStays
<1>1. Own(f) \in Operation
  BY OwnFacts
<1>2. CASE Claim(f)
  <2> DEFINE o == [Own(f) EXCEPT !.state = "possible_send", !.fence = @ + 1,
                                 !.claimed = TRUE, !.overdue = FALSE]
  <2>1. Set(f, o) /\ Own(f).state \in Unsent
    BY <1>2 DEF Claim, MayClaim
  <2>2. o.bound = Own(f).bound /\ o.claimed /\ o.state = "possible_send"
    BY <1>1 DEF Operation
  <2> HIDE DEF o
  <2> QED
    BY <2>1, <2>2, SetStays DEF Guarded, Unsent
<1>3. CASE RecordReceipt(f)
  <2> DEFINE o == [Own(f) EXCEPT !.cand = Request(f)]
  <2>1. UNCHANGED op \/ (Set(f, o) /\ Own(f).state \in {"possible_send", "unknown"})
    BY <1>3 DEF RecordReceipt, ReceiptAccepted
  <2>2. o.bound = Own(f).bound /\ o.claimed = Own(f).claimed /\ o.state = Own(f).state
    BY <1>1 DEF Operation
  <2> HIDE DEF o
  <2> QED
    BY <2>1, <2>2, StillStays, SetStays DEF Guarded
<1>4. CASE ProvenNotSent(f)
  <2> DEFINE o == [Own(f) EXCEPT !.state = "proven_not_sent", !.fence = @ + 1]
  <2>1. UNCHANGED op \/ (Set(f, o) /\ Own(f).state \in {"possible_send", "unknown"})
    BY <1>4 DEF ProvenNotSent, NotSentAccepted
  <2>2. o.bound = Own(f).bound /\ o.claimed = Own(f).claimed /\ o.state = "proven_not_sent"
    BY <1>1 DEF Operation
  <2> HIDE DEF o
  <2> QED
    BY <2>1, <2>2, StillStays, SetStays DEF Guarded
<1> QED
  BY <1>2, <1>3, <1>4

LEMMA FailuresStay ==
    ASSUME IInv, NEW f \in Flows, Pending(f) \/ Conflict(f) \/ ChangedTerms(f)
    PROVE  BindingStays
<1>1. /\ Own(f) \in Operation /\ flow[f].purchase \in Purchases
      /\ "outcome_unknown" \in Cases /\ "conflict" \in Cases /\ "terms_changed" \in Cases
      /\ "subscription" \in Kinds
  BY OwnFacts DEF Cases, Kinds
<1>2. CASE Pending(f)
  <2> DEFINE r == Reviewed(Own(f), "outcome_unknown")
             s == IF Own(f).claimed THEN "unknown" ELSE "pending"
             o == [Own(f) EXCEPT !.state = s]
  <2>1. \/ UNCHANGED op
        \/ Set(f, r) /\ Own(f).state # "bound"
        \/ Set(f, o) /\ Own(f).state # "bound"
    BY <1>2 DEF Pending, KeepPending
  <2>2. Own(f).claimed => s = "unknown"
    OBVIOUS
  <2> HIDE DEF s
  <2>3. o.bound = Own(f).bound /\ o.claimed = Own(f).claimed /\ o.state = s
    BY <1>1 DEF Operation
  <2>4. r.bound = Own(f).bound /\ r.claimed = Own(f).claimed /\ r.state = "manual_review"
    BY <1>1, ReviewedFacts, Zenon
  <2> HIDE DEF o, r
  <2> QED
    BY <2>1, <2>2, <2>3, <2>4, StillStays, SetStays DEF Guarded
<1>3. CASE Conflict(f)
  <2> DEFINE r == Reviewed(Own(f), "conflict")
  <2>1. UNCHANGED op \/ Set(f, r)
    BY <1>3 DEF Conflict
  <2>2. /\ r.bound = Own(f).bound /\ r.claimed = Own(f).claimed
        /\ r.state = "manual_review" /\ "conflict" \in r.cases
    BY <1>1, ReviewedFacts, Zenon
  <2> HIDE DEF r
  <2> QED
    BY <2>1, <2>2, StillStays, SetStays DEF Guarded, StillOrDecided
<1>4. CASE ChangedTerms(f)
  <2> DEFINE p == flow[f].purchase
             r == Reviewed(op[p]["subscription"], "terms_changed")
  <2>1. op \in [Purchases -> [Kinds -> Operation]]
    BY DEF IInv, TypeOK
  <2>2. UNCHANGED op \/ op' = [op EXCEPT ![p]["subscription"] = r]
    BY <1>1, <1>4, <2>1 DEF ChangedTerms
  <2>3. op[p]["subscription"] \in Operation
    BY <1>1, <2>1
  <2>4. /\ r.bound = op[p]["subscription"].bound /\ r.claimed = op[p]["subscription"].claimed
        /\ r.state = "manual_review" /\ "terms_changed" \in r.cases
    BY <1>1, <2>3, ReviewedFacts, Zenon
  <2> HIDE DEF r
  <2> QED
    BY <1>1, <2>2, <2>4, StillStays, WriteStays DEF Guarded, StillOrDecided
<1> QED
  BY <1>2, <1>3, <1>4

LEMMA BindStays == ASSUME IInv, NEW f \in Flows, Bind(f) PROVE BindingStays
<1> DEFINE n == IF Own(f).state = "bound" THEN Own(f).fence ELSE Own(f).fence + 1
           o == [Own(f) EXCEPT !.state = "bound", !.bound = flow[f].id, !.fence = n,
                               !.cases = Own(f).cases \ {"outcome_unknown"}]
<1>1. Own(f) \in Operation /\ flow[f].purchase \in Purchases /\ flow[f].kind \in Kinds
      /\ Own(f) = op[flow[f].purchase][flow[f].kind] /\ op \in [Purchases -> [Kinds -> Operation]]
  BY OwnFacts DEF IInv, TypeOK
<1>2. Set(f, o) /\ Own(f).bound \in {NoId, flow[f].id}
  BY <1>1 DEF Bind, Set, MayBind
<1> HIDE DEF n
<1>3. o.state = "bound" /\ o.bound = flow[f].id /\ o.claimed = Own(f).claimed
  BY <1>1 DEF Operation
<1> HIDE DEF o
<1> QED
  BY <1>2, <1>3, SetStays DEF Guarded, StillOrDecided

LEMMA DeadlinesStay ==
    ASSUME IInv, NEW p \in Purchases, NEW k \in Kinds, Overdue(p, k) \/ Escalate(p, k)
    PROVE  BindingStays
<1> DEFINE o == [op[p][k] EXCEPT !.overdue = TRUE]
           r == Reviewed(op[p][k], "outcome_unknown")
<1>1. op[p][k] \in Operation /\ op \in [Purchases -> [Kinds -> Operation]] /\ "outcome_unknown" \in Cases
  BY DEF IInv, TypeOK, Cases
<1>2. /\ op[p][k].state \notin {"bound", "pending"}
      /\ op' = [op EXCEPT ![p][k] = o] \/ op' = [op EXCEPT ![p][k] = r]
  BY <1>1 DEF Overdue, Escalate
<1>3. o.bound = op[p][k].bound /\ o.claimed = op[p][k].claimed /\ o.state = op[p][k].state
  BY <1>1 DEF Operation
<1>4. r.bound = op[p][k].bound /\ r.claimed = op[p][k].claimed /\ r.state = "manual_review"
  BY <1>1, ReviewedFacts, Zenon
<1> HIDE DEF o, r
<1> QED
  BY <1>2, <1>3, <1>4, WriteStays DEF Guarded

\* A binding is permanent, no step runs into the trigger that guards a request
\* once claimed, and only a conflict or changed terms take a bound operation
\* back (financial.py:222-246).
THEOREM BindingsAreKept == Spec => BindingsStay
<1>1. IInv /\ [Next]_vars => [BindingStays]_vars
  <2> SUFFICES ASSUME IInv, Next PROVE BindingStays
    OBVIOUS
  <2>1. CASE UNCHANGED op
    BY <2>1, StillStays
  <2>2. ASSUME NEW f \in Flows, Step(f), ~UNCHANGED op PROVE BindingStays
    BY <2>2, SendsStay, FailuresStay, BindStays
    DEF Step, Advance, RecoverFinancial, OpenPayment, Start, Read, Reread, Inventory, Find, Recover, Send,
        Answer, Confirm, Show, local
  <2> QED
    BY <2>1, <2>2, DeadlinesStay DEF Next, Pin, Process, Edit, local
<1>2. Spec => [][BindingStays]_vars
  BY <1>1, InvariantHolds, PTL DEF Spec
<1> QED
  BY <1>2 DEF BindingsStay, BindingStays

PaidIsProven ==
    \A f \in Flows :
        flow[f].pc # "shown" /\ flow'[f].pc = "shown" =>
            LET p == flow[f].purchase IN
            p \in held /\ row[p] = "linked" /\ \A k \in Kinds : op[p][k].state = "bound"

LEMMA OnlyShowShows ==
    ASSUME IInv, NEW f \in Flows, flow[f].pc # "shown", flow'[f].pc = "shown", NEW g \in Flows, Step(g)
    PROVE  f = g /\ Show(f)
<1>1. flow \in [Flows -> Flow] /\ flow[g] \in Flow
  BY DEF IInv, TypeOK
<1>2. EndedFlow.pc = "ended"
  BY NewFlowFacts
<1> HIDE DEF EndedFlow
<1>3. CASE Show(g)
  BY <1>1, <1>3 DEF Show
<1>4. CASE Advance(g) \/ RecoverFinancial(g) \/ OpenPayment(g)
  <2>1. PICK p \in held, r \in {"advance", "recover", "payment"} : Start(g, p, r)
    BY <1>4 DEF Advance, RecoverFinancial, OpenPayment
  <2> QED
    BY <1>1, <2>1 DEF Start
<1>5. CASE Read(g) \/ Reread(g) \/ Inventory(g) \/ Find(g) \/ Recover(g)
  BY <1>1, <1>2, <1>5 DEF Read, Reread, Inventory, Find, Recover, Snapshot, Compared, Goto, End, Flow
<1>6. CASE Claim(g) \/ Send(g) \/ Answer(g) \/ RecordReceipt(g) \/ ProvenNotSent(g)
  BY <1>1, <1>2, <1>6 DEF Claim, Send, Answer, RecordReceipt, ProvenNotSent, Goto, End, Flow
<1>7. CASE Pending(g) \/ Conflict(g) \/ ChangedTerms(g)
  <2>1. Goto(g, "reread") \/ End(g)
    BY <1>7 DEF Pending, Conflict, ChangedTerms
  <2> QED
    BY <1>1, <1>2, <2>1 DEF Goto, End, Flow
<1>8. CASE Bind(g) \/ Confirm(g)
  BY <1>1, <1>2, <1>8 DEF Bind, Confirm, Snapshot, Goto, End, Flow
<1> QED
  BY <1>3, <1>4, <1>5, <1>6, <1>7, <1>8 DEF Step

\* A payment credential is handed out only for a purchase that holds its product
\* and has both objects bound at that moment (service.py:458-470).
THEOREM PaidOnProof == Spec => PaymentIsProven
<1>1. IInv /\ [Next]_vars => [PaidIsProven]_vars
  <2> SUFFICES ASSUME IInv, Next, NEW f \in Flows, flow[f].pc # "shown", flow'[f].pc = "shown"
               PROVE  LET p == flow[f].purchase IN
                      p \in held /\ row[p] = "linked" /\ \A k \in Kinds : op[p][k].state = "bound"
    BY DEF PaidIsProven
  <2>1. PICK g \in Flows : Step(g)
    BY DEF Next, Pin, Overdue, Escalate, Process, Edit, local
  <2>2. Show(f)
    BY <2>1, OnlyShowShows
  <2>3. Held(f) /\ AsSeen(f) /\ ShownAsBound(f) /\ flow[f].pc = "show"
    BY <2>2 DEF Show, IInv, FlowsStand, FlowStands
  <2>4. \A k \in Kinds : Seen(op[flow[f].purchase][k]).state = op[flow[f].purchase][k].state
    BY DEF Seen
  <2> QED
    BY <2>3, <2>4 DEF Held, AsSeen, ShownAsBound
<1>2. Spec => [][PaidIsProven]_vars
  BY <1>1, InvariantHolds, PTL DEF Spec
<1> QED
  BY <1>2 DEF PaymentIsProven, PaidIsProven

-----------------------------------------------------------------------------
(* PurchaseOps implements PurchaseEffects *)

Status(p) == IF row[p] = "absent" THEN "new" ELSE IF p \in held THEN "open" ELSE "released"

\* A step the outside world does not see.
Quiet == UNCHANGED <<held, requests, objects>> /\ \A p \in Purchases : Status(p)' = Status(p)

LEMMA QuietRow ==
    ASSUME IInv, UNCHANGED <<held, requests, objects>>,
           \/ UNCHANGED row
           \/ \E p \in held, x \in RowStates \ {"absent"} : row' = [row EXCEPT ![p] = x]
    PROVE  Quiet
<1>1. CASE UNCHANGED row
  BY <1>1 DEF Quiet, Status
<1>2. ASSUME NEW p \in held, NEW x \in RowStates \ {"absent"}, row' = [row EXCEPT ![p] = x]
      PROVE  Quiet
  <2>1. row \in [Purchases -> RowStates] /\ p \in Purchases /\ row[p] # "absent"
    BY DEF IInv, TypeOK, RowsStand
  <2>2. row'[p] # "absent" /\ \A q \in Purchases : q # p => row'[q] = row[q]
    BY <1>2, <2>1
  <2> QED
    BY <2>1, <2>2 DEF Quiet, Status
<1> QED
  BY <1>1, <1>2

LEMMA QuietFailure ==
    ASSUME IInv, NEW f \in Flows, Pending(f) \/ Conflict(f) \/ Bind(f)
    PROVE  Quiet
<1> DEFINE p == flow[f].purchase
<1>1. /\ p \in held /\ UNCHANGED <<held, requests, objects>> /\ p \in Purchases
      /\ row \in [Purchases -> RowStates] /\ row[p] \in RowStates \ {"absent"}
  BY OwnFacts DEF Pending, Conflict, Bind, MayBind, Held, remote, IInv, TypeOK, RowsStand
<1>2. \/ UNCHANGED row
      \/ \E x \in {"awaiting", "review", "preparing", "linked", row[p]} : row' = [row EXCEPT ![p] = x]
  <2>1. CASE Pending(f)
    <3>1. PendingRow(f) => \E x \in {"awaiting", row[p]} : row' = [row EXCEPT ![p] = x]
      BY <1>1 DEF PendingRow
    <3> QED
      BY <2>1, <3>1 DEF Pending, KeepPending
  <2>2. CASE Conflict(f)
    BY <2>2 DEF Conflict
  <2>3. CASE Bind(f)
    BY <1>1, <2>3 DEF Bind
  <2> QED
    BY <2>1, <2>2, <2>3
<1> QED
  BY <1>1, <1>2, QuietRow DEF RowStates

LEMMA FlowEffects ==
    ASSUME IInv, NEW f \in Flows, Step(f)
    PROVE  \/ Quiet
           \/ /\ flow[f].pc = "send" /\ requests' = requests \cup {Request(f)}
              /\ UNCHANGED <<local, objects>>
           \/ /\ Held(f) /\ NeverSent(flow[f].purchase) /\ UNCHANGED <<requests, objects>>
              /\ row' = [row EXCEPT ![flow[f].purchase] = "failed"]
              /\ held' = held \ {flow[f].purchase}
<1>1. CASE \/ Advance(f) \/ RecoverFinancial(f) \/ OpenPayment(f) \/ Read(f) \/ Reread(f) \/ Inventory(f)
           \/ Find(f) \/ Recover(f) \/ Answer(f) \/ Confirm(f) \/ Show(f)
  <2>1. UNCHANGED <<row, held, requests, objects>>
    BY <1>1 DEF Advance, RecoverFinancial, OpenPayment, Start, Read, Reread, Inventory, Find, Recover,
                Answer, Confirm, Show, local, remote
  <2> QED
    BY <2>1, QuietRow
<1>2. CASE Claim(f) \/ RecordReceipt(f) \/ ProvenNotSent(f)
  <2>1. /\ UNCHANGED <<held, requests, objects>>
        /\ UNCHANGED row \/ (Held(f) /\ row' = [row EXCEPT ![flow[f].purchase] = "preparing"])
    BY <1>2 DEF Claim, MayClaim, RecordReceipt, ProvenNotSent, remote
  <2> QED
    BY <2>1, QuietRow DEF Held, RowStates
<1>3. CASE Send(f)
  <2>1. CASE UNCHANGED requests
    BY <1>3, <2>1, QuietRow DEF Send, local
  <2> QED
    BY <1>3, <2>1 DEF Send
<1>4. CASE Pending(f) \/ Conflict(f) \/ Bind(f)
  BY <1>4, QuietFailure
<1>5. CASE ChangedTerms(f)
  <2>1. Held(f) /\ UNCHANGED <<requests, objects>>
    BY <1>5 DEF ChangedTerms, remote
  <2>2. \/ UNCHANGED <<row, held>>
        \/ UNCHANGED held /\ row' = [row EXCEPT ![flow[f].purchase] = "review"]
        \/ /\ NeverSent(flow[f].purchase) /\ row' = [row EXCEPT ![flow[f].purchase] = "failed"]
           /\ held' = held \ {flow[f].purchase}
    BY <1>5 DEF ChangedTerms
  <2> QED
    BY <2>1, <2>2, QuietRow DEF Held, RowStates
<1> QED
  BY <1>1, <1>2, <1>3, <1>4, <1>5 DEF Step

\* Of a purchase that was never sent, nothing was asked.
LEMMA NothingAsked ==
    ASSUME IInv, NEW p \in Purchases, NeverSent(p)
    PROVE  Contract!Asked(p) = {}
<1>1. \A i \in requests : i.kind \in Kinds
  BY IdFacts DEF IInv, TypeOK
<1>2. \A i \in requests : i.purchase # p
  BY <1>1 DEF IInv, OperationsStand, OperationStands, NeverSent
<1> QED
  BY <1>2 DEF Contract!Asked

\* Purchase preparation implements PurchaseEffects: each object is asked for
\* once, a subscription under the agreement that was made for it, and a product
\* is given up only if nothing was asked for (financial.py:84-92, 252-275).
THEOREM AskedOnce == Spec => AsksOnce
<1> DEFINE S == [p \in Purchases |->
                    IF row[p] = "absent" THEN "new" ELSE IF p \in held THEN "open" ELSE "released"]
<1>0. \A p \in Purchases : S[p] = Status(p)
  BY DEF Status
<1>1. Init => Contract!Init
  <2> SUFFICES ASSUME Init PROVE Contract!Init
    OBVIOUS
  <2>1. S = [p \in Purchases |-> "new"]
    BY DEF Init
  <2> QED
    BY <2>1 DEF Init, Contract!Init
<1>2. IInv /\ [Next]_vars => [Contract!Next]_(Contract!vars)
  <2> SUFFICES ASSUME IInv, [Next]_vars PROVE Contract!Next \/ UNCHANGED Contract!vars
    OBVIOUS
  <2>1. \A p \in Purchases : S'[p] = Status(p)'
    BY DEF Status
  <2> HIDE DEF S
  <2>2. ASSUME Quiet PROVE UNCHANGED Contract!vars
    <3>1. S' = S
      BY <2>2 DEF Quiet, Status, S
    <3> QED
      BY <2>2, <3>1 DEF Quiet, Contract!vars, S
  <2>3. ASSUME NEW p \in Purchases, Pin(p) PROVE Contract!Accept(p)
    <3>1. /\ row[p] = "absent" /\ row' = [row EXCEPT ![p] = "created"] /\ held' = held \cup {p}
          /\ \A q \in held : Product[q] # Product[p]
          /\ UNCHANGED <<requests, objects>>
      BY <2>3 DEF Pin, remote
    <3>2. row \in [Purchases -> RowStates]
      BY DEF IInv, TypeOK
    <3>3. row'[p] = "created" /\ \A q \in Purchases : q # p => row'[q] = row[q]
      BY <3>1, <3>2
    <3>4. S' = [S EXCEPT ![p] = "open"]
      BY <3>1, <3>3 DEF S
    <3>5. S[p] = "new" /\ \A q \in Purchases : Product[q] = Product[p] => S[q] # "open"
      BY <3>1 DEF S
    <3> QED
      BY <3>1, <3>4, <3>5 DEF Contract!Accept, S
  <2>4. ASSUME NEW f \in Flows, flow[f].pc = "send", requests' = requests \cup {Request(f)},
               UNCHANGED <<local, objects>>
        PROVE  Contract!Ask(Request(f)) /\ Request(f) \in requests' \ requests
    <3>1. ClaimIsUnused(f) /\ HasAgreement(f) /\ Sending(f)
      BY <2>4 DEF IInv, FlowsStand, FlowStands, Sending
    <3>2. /\ Request(f).purchase = flow[f].purchase /\ Request(f).kind = flow[f].kind
          /\ flow[f].kind = "subscription" =>
                 Request(f).under \in objects /\ Request(f).under.purchase = flow[f].purchase
      BY <2>4, <3>1, RequestFacts DEF HasAgreement
    <3>3. Request(f).purchase \in Purchases /\ Request(f).purchase \in held
          /\ row[Request(f).purchase] # "absent"
      BY <3>1, <3>2, OwnFacts DEF ClaimIsUnused, Held, IInv, RowsStand
    <3>4. S[Request(f).purchase] = "open"
      BY <3>3 DEF S
    <3>5. \A j \in Contract!Asked(Request(f).purchase) : j.kind # Request(f).kind
      BY <3>1, <3>2 DEF ClaimIsUnused, Contract!Asked
    <3>6. Request(f).kind = "subscription" =>
             Request(f).under \in objects \cap Contract!Asked(Request(f).purchase)
      BY <3>2 DEF Contract!Asked, IInv, TypeOK
    <3>7. S' = S
      BY <2>4 DEF local, S
    <3>8. Request(f) \notin requests
      BY <3>1, <3>2 DEF ClaimIsUnused
    <3> QED
      BY <2>4, <3>4, <3>5, <3>6, <3>7, <3>8 DEF Contract!Ask, S
  <2>5. ASSUME NEW p \in held, NeverSent(p), UNCHANGED <<requests, objects>>,
               row' = [row EXCEPT ![p] = "failed"], held' = held \ {p}
        PROVE  p \in Purchases /\ Contract!Release(p)
    <3>1. p \in Purchases /\ row[p] # "absent" /\ row \in [Purchases -> RowStates]
      BY DEF IInv, RowsStand, TypeOK
    <3>2. row'[p] = "failed" /\ \A q \in Purchases : q # p => row'[q] = row[q]
      BY <2>5, <3>1
    <3>3. S' = [S EXCEPT ![p] = "released"]
      BY <2>5, <3>1, <3>2 DEF S
    <3>4. S[p] = "open"
      BY <3>1 DEF S
    <3>5. Contract!Asked(p) = {}
      BY <2>5, <3>1, NothingAsked
    <3> QED
      BY <2>5, <3>1, <3>3, <3>4, <3>5 DEF Contract!Release, S
  <2>6. ASSUME NEW i \in requests, Process(i) PROVE Contract!Make(i)
    <3>1. S' = S /\ objects' = objects \cup {i} /\ UNCHANGED requests
      BY <2>6 DEF Process, local, S
    <3> QED
      BY <3>1 DEF Contract!Make, S
  <2>7. ASSUME NEW f \in Flows, Step(f) PROVE Contract!Next \/ UNCHANGED Contract!vars
    <3>1. CASE Quiet
      BY <2>2, <3>1
    <3>2. CASE /\ flow[f].pc = "send" /\ requests' = requests \cup {Request(f)}
               /\ UNCHANGED <<local, objects>>
      BY <2>4, <3>2 DEF Contract!Next
    <3>3. CASE /\ Held(f) /\ NeverSent(flow[f].purchase) /\ UNCHANGED <<requests, objects>>
               /\ row' = [row EXCEPT ![flow[f].purchase] = "failed"]
               /\ held' = held \ {flow[f].purchase}
      <4>1. PICK p \in held : p = flow[f].purchase
        BY <3>3 DEF Held
      <4>2. p \in Purchases /\ Contract!Release(p)
        BY <2>5, <3>3, <4>1
      <4> QED
        BY <4>2 DEF Contract!Next
    <3> QED
      BY <2>7, <3>1, <3>2, <3>3, FlowEffects
  <2>8. ASSUME NEW p \in Purchases, NEW k \in Kinds, Overdue(p, k) \/ Escalate(p, k) PROVE Quiet
    <3>1. CASE Overdue(p, k)
      BY <3>1, QuietRow DEF Overdue, remote
    <3>2. CASE Escalate(p, k)
      BY <3>2, QuietRow DEF Escalate, remote, RowStates
    <3> QED
      BY <2>8, <3>1, <3>2
  <2>9. ASSUME NEW i \in requests, Edit(i) PROVE Quiet
    BY <2>9, QuietRow DEF Edit, local
  <2>10. CASE UNCHANGED vars
    BY <2>2, <2>10, QuietRow DEF vars, local, remote
  <2> QED
    BY <2>2, <2>3, <2>6, <2>7, <2>8, <2>9, <2>10 DEF Next, Contract!Next
<1> QED
  BY <1>1, <1>2, InvariantHolds, PTL DEF Spec, AsksOnce, Contract!Spec

-----------------------------------------------------------------------------
(* The locks of the transactions (LockOrder).  Each takes a lock it does not *)
(* have only above all it has, so among transactions that wait for each      *)
(* other none could want the highest lock.                                   *)

\* A lock is taken anew, or once more.
Ordered(p) ==
    \A n \in 1..Len(p) :
        \/ \E m \in 1..(n - 1) : p[m] = p[n]
        \/ \A m \in 1..(n - 1) : Rank[p[m].kind] < Rank[p[n].kind]

PlanStands(t) == Ordered(plan[t]) /\ taken[t] \in 0..Len(plan[t])

\* Locks that conflict are not held together.
Excluded ==
    \A t, u \in Transactions : t # u =>
        \A a \in Taken(t), b \in Taken(u) : ~Conflicting(a, b)

LockInv ==
    /\ plan \in [Transactions -> Seq(Lock)]
    /\ taken \in [Transactions -> Nat]
    /\ \A t \in Transactions : PlanStands(t)
    /\ Excluded

LEMMA RankBound == \A k \in DOMAIN Rank : Rank[k] \in 1..14
  BY DEF Rank

\* Every way to begin is a plan of known locks in order.
LEMMA PlansOrdered ==
  ASSUME NEW t \in Transactions, BeginAny(t)
  PROVE  \E p \in Seq(Lock) : Ordered(p) /\ Begin(t, p)
<1> USE OwnerAssumption DEF Lock, Rank, Things, Exclusive, Shared, Writing
<1>1. CASE \E u \in Users : Begin(t, ReservePlan(u))
  <2> PICK u \in Users : Begin(t, ReservePlan(u))  BY <1>1
  <2>1. ReservePlan(u) \in Seq(Lock)  BY DEF ReservePlan
  <2>2. Ordered(ReservePlan(u))  BY DEF ReservePlan, Ordered
  <2> QED BY <2>1, <2>2
<1>2. CASE \E u \in Users : Begin(t, ClaimPlan(u))
  <2> PICK u \in Users : Begin(t, ClaimPlan(u))  BY <1>2
  <2>1. ClaimPlan(u) \in Seq(Lock)  BY DEF ClaimPlan
  <2>2. Ordered(ClaimPlan(u))  BY DEF ClaimPlan, Ordered
  <2> QED BY <2>1, <2>2
<1>3. CASE \E u \in Users, i \in Ids : Begin(t, ReadPlan(u, i))
  <2> PICK u \in Users, i \in Ids : Begin(t, ReadPlan(u, i))  BY <1>3
  <2>1. ReadPlan(u, i) \in Seq(Lock)  BY DEF ReadPlan
  <2>2. Ordered(ReadPlan(u, i))  BY DEF ReadPlan, Ordered
  <2> QED BY <2>1, <2>2
<1>4. CASE \E u \in Users, p \in Products : Begin(t, PinPlan(u, p))
  <2> PICK u \in Users, p \in Products : Begin(t, PinPlan(u, p))  BY <1>4
  <2>1. PinPlan(u, p) \in Seq(Lock)  BY DEF PinPlan
  <2>2. Ordered(PinPlan(u, p))  BY DEF PinPlan, Ordered
  <2> QED BY <2>1, <2>2
<1>5. CASE \E b \in Intents : Begin(t, FinancialPlan(b))
  <2> PICK b \in Intents : Begin(t, FinancialPlan(b))  BY <1>5
  <2>1. FinancialPlan(b) \in Seq(Lock)  BY DEF FinancialPlan
  <2>2. Ordered(FinancialPlan(b))  BY DEF FinancialPlan, Ordered
  <2> QED BY <2>1, <2>2
<1>6. CASE \E b \in Intents, i \in Ids : Begin(t, BindPlan(b, i))
  <2> PICK b \in Intents, i \in Ids : Begin(t, BindPlan(b, i))  BY <1>6
  <2>1. BindPlan(b, i) \in Seq(Lock)  BY DEF BindPlan
  <2>2. Ordered(BindPlan(b, i))  BY DEF BindPlan, Ordered
  <2> QED BY <2>1, <2>2
<1>7. CASE \E p \in Products, o \in Offers : Begin(t, PublishPlan(p, o))
  <2> PICK p \in Products, o \in Offers : Begin(t, PublishPlan(p, o))  BY <1>7
  <2>1. PublishPlan(p, o) \in Seq(Lock)  BY DEF PublishPlan
  <2>2. Ordered(PublishPlan(p, o))  BY DEF PublishPlan, Ordered
  <2> QED BY <2>1, <2>2
<1>8. \A a \in Lock : <<a>> \in Seq(Lock) /\ Ordered(<<a>>)
  BY DEF Ordered
<1>9. CASE \E a \in Lock : Begin(t, <<a>>)
  BY <1>8, <1>9
<1> HIDE DEF Lock, Rank, Things
<1>10. \A u \in Users : Exclusive("user", u) \in Lock /\ Shared("user", u) \in Lock
  BY DEF Lock, Rank, Things
<1>11. \A o \in Offers : Exclusive("offer", o) \in Lock
  BY DEF Lock, Rank, Things
<1>12. Writing("documents", "portal") \in Lock
  BY DEF Lock, Rank, Things
<1> QED
  <2> HIDE DEF Exclusive, Shared, Writing
  <2> QED BY <1>1, <1>2, <1>3, <1>4, <1>5, <1>6, <1>7, <1>9, <1>10, <1>11, <1>12 DEF BeginAny

LEMMA LockInvInit == LockInit => LockInv
  BY DEF LockInit, LockInv, PlanStands, Ordered, Excluded, Taken

LEMMA LockInvNext == LockInv /\ [LockNext]_locks => LockInv'
<1> SUFFICES ASSUME LockInv, [LockNext]_locks PROVE LockInv'
  OBVIOUS
<1>1. ASSUME NEW t \in Transactions, BeginAny(t) PROVE LockInv'
  <2>1. PICK p \in Seq(Lock) : Ordered(p) /\ Begin(t, p)
    BY <1>1, PlansOrdered
  <2>2. plan[t] = <<>> /\ taken[t] = 0
    BY <2>1 DEF Begin, LockInv, PlanStands
  <2>3. plan' = [plan EXCEPT ![t] = p] /\ taken' = taken
    BY <2>1 DEF Begin
  <2>4. \A u \in Transactions : Taken(u)' = Taken(u)
    BY <2>2, <2>3 DEF LockInv, Taken
  <2>5. Excluded'
    BY <2>4 DEF LockInv, Excluded
  <2>6. \A u \in Transactions : PlanStands(u)'
    <3> SUFFICES ASSUME NEW u \in Transactions PROVE PlanStands(u)'
      OBVIOUS
    <3>1. CASE u = t
      BY <2>1, <2>2, <2>3, <3>1 DEF LockInv, PlanStands
    <3>2. CASE u # t
      BY <2>3, <3>2 DEF LockInv, PlanStands
    <3> QED BY <3>1, <3>2
  <2>7. plan' \in [Transactions -> Seq(Lock)] /\ taken' \in [Transactions -> Nat]
    BY <2>1, <2>3 DEF LockInv
  <2> QED BY <2>5, <2>6, <2>7 DEF LockInv
<1>2. ASSUME NEW t \in Transactions, Take(t) PROVE LockInv'
  <2> DEFINE a == Wanted(t)
  <2>1. /\ taken[t] < Len(plan[t]) /\ plan' = plan
        /\ taken' = [taken EXCEPT ![t] = @ + 1]
        /\ \A u \in Transactions : ~WaitsFor(t, u)
    BY <1>2 DEF Take, Going
  <2>2. plan[t] \in Seq(Lock) /\ taken[t] \in Nat /\ Len(plan[t]) \in Nat
    BY DEF LockInv
  <2>3. taken'[t] = taken[t] + 1 /\ taken' \in [Transactions -> Nat]
    BY <2>1, <2>2 DEF LockInv
  <2>4. \A u \in Transactions : u # t => taken'[u] = taken[u]
    BY <2>1 DEF LockInv
  <2>5. Taken(t)' \subseteq Taken(t) \cup {a}
    <3> SUFFICES ASSUME NEW n \in 1..(taken[t] + 1) PROVE plan[t][n] \in Taken(t) \cup {a}
      BY <2>1, <2>3 DEF Taken
    <3>1. CASE n = taken[t] + 1
      BY <3>1 DEF Wanted
    <3>2. CASE n # taken[t] + 1
      <4>1. n \in 1..taken[t]
        BY <3>2, <2>2
      <4> QED BY <4>1 DEF Taken
    <3> QED BY <3>1, <3>2
  <2>6. \A u \in Transactions : u # t => Taken(u)' = Taken(u)
    BY <2>1, <2>4 DEF Taken
  <2>7. \A u \in Transactions : u # t => \A b \in Taken(u) : ~Conflicting(a, b) /\ ~Conflicting(b, a)
    BY <2>1 DEF WaitsFor, Conflicting
  <2>8. Excluded'
    <3> SUFFICES ASSUME NEW u \in Transactions, NEW v \in Transactions, u # v,
                        NEW b \in Taken(u)', NEW c \in Taken(v)'
                 PROVE  ~Conflicting(b, c)
      BY DEF Excluded, Conflicting
    <3>1. \A x \in Transactions, y \in Transactions : x # y =>
             \A d \in Taken(x), e \in Taken(y) : ~Conflicting(d, e)
      BY DEF LockInv, Excluded
    <3> HIDE DEF a
    <3>2. CASE u = t
      BY <2>5, <2>6, <2>7, <3>1, <3>2
    <3>3. CASE v = t
      BY <2>5, <2>6, <2>7, <3>1, <3>3
    <3>4. CASE u # t /\ v # t
      BY <2>6, <3>1, <3>4
    <3> QED BY <3>2, <3>3, <3>4
  <2>9. \A u \in Transactions : PlanStands(u)'
    <3> SUFFICES ASSUME NEW u \in Transactions PROVE PlanStands(u)'
      OBVIOUS
    <3>1. CASE u = t
      BY <2>1, <2>2, <2>3, <3>1 DEF LockInv, PlanStands
    <3>2. CASE u # t
      BY <2>1, <2>4, <3>2 DEF LockInv, PlanStands
    <3> QED BY <3>1, <3>2
  <2> QED BY <2>1, <2>3, <2>8, <2>9 DEF LockInv
<1>3. ASSUME NEW t \in Transactions, Leave(t) PROVE LockInv'
  <2>1. plan' = [plan EXCEPT ![t] = <<>>] /\ taken' = [taken EXCEPT ![t] = 0]
    BY <1>3 DEF Leave
  <2>2. plan'[t] = <<>> /\ taken'[t] = 0
    BY <2>1 DEF LockInv
  <2>3. \A u \in Transactions : u # t => plan'[u] = plan[u] /\ taken'[u] = taken[u]
    BY <2>1 DEF LockInv
  <2>4. Taken(t)' = {}
    BY <2>2 DEF Taken
  <2>5. \A u \in Transactions : u # t => Taken(u)' = Taken(u)
    BY <2>3 DEF Taken
  <2>6. Excluded'
    <3>1. \A u \in Transactions : Taken(u)' \subseteq Taken(u)
      BY <2>4, <2>5
    <3> QED BY <3>1 DEF LockInv, Excluded, Conflicting
  <2>7. \A u \in Transactions : PlanStands(u)'
    <3> SUFFICES ASSUME NEW u \in Transactions PROVE PlanStands(u)'
      OBVIOUS
    <3>1. CASE u = t
      BY <2>2, <3>1 DEF PlanStands, Ordered
    <3>2. CASE u # t
      BY <2>3, <3>2 DEF LockInv, PlanStands
    <3> QED BY <3>1, <3>2
  <2>8. plan' \in [Transactions -> Seq(Lock)] /\ taken' \in [Transactions -> Nat]
    BY <2>1 DEF LockInv
  <2> QED BY <2>6, <2>7, <2>8 DEF LockInv
<1>4. CASE UNCHANGED locks
  <2>1. plan' = plan /\ taken' = taken
    BY <1>4 DEF locks
  <2>2. \A t \in Transactions : PlanStands(t)' <=> PlanStands(t)
    BY <2>1 DEF PlanStands
  <2>3. \A t \in Transactions : Taken(t)' = Taken(t)
    BY <2>1 DEF Taken
  <2>4. Excluded'
    BY <2>3 DEF LockInv, Excluded
  <2> QED BY <2>1, <2>2, <2>4 DEF LockInv
<1> QED BY <1>1, <1>2, <1>3, <1>4 DEF LockNext

\* Whoever waits for another wants a lock above all it has, hence above the one
\* it keeps others waiting with.
LEMMA WantsAbove ==
  ASSUME LockInv, NEW t \in Transactions, NEW u \in Transactions,
         NEW v \in Transactions,
         Going(t), WaitsFor(t, u), Going(u), WaitsFor(u, v)
  PROVE  /\ Rank[Wanted(t).kind] \in 1..14
         /\ Rank[Wanted(t).kind] < Rank[Wanted(u).kind]
<1>1. /\ plan[t] \in Seq(Lock) /\ taken[t] \in Nat /\ taken[t] + 1 \in 1..Len(plan[t])
      /\ plan[u] \in Seq(Lock) /\ taken[u] \in Nat /\ taken[u] + 1 \in 1..Len(plan[u])
  BY DEF LockInv, Going
<1>2. Wanted(t) \in Lock
  BY <1>1 DEF Wanted
<1>3. Rank[Wanted(t).kind] \in 1..14
  BY <1>2, RankBound DEF Lock
<1>4. PICK m \in 1..taken[u] : Conflicting(plan[u][m], Wanted(t))
  BY DEF WaitsFor, Taken
<1>5. plan[u][m].kind = Wanted(t).kind
  BY <1>4 DEF Conflicting
<1>6. \A n \in 1..taken[u] : plan[u][n] # Wanted(u)
  <2> SUFFICES ASSUME NEW n \in 1..taken[u], plan[u][n] = Wanted(u) PROVE FALSE
    OBVIOUS
  <2>1. Wanted(u) \in Taken(u)
    BY DEF Taken
  <2>2. PICK b \in Taken(v) : Conflicting(b, Wanted(u))
    BY DEF WaitsFor
  <2>3. u # v
    BY DEF WaitsFor
  <2> QED BY <2>1, <2>2, <2>3 DEF LockInv, Excluded
<1>7. \A n \in 1..taken[u] : Rank[plan[u][n].kind] < Rank[Wanted(u).kind]
  <2>1. Ordered(plan[u])
    BY DEF LockInv, PlanStands
  <2>2. (taken[u] + 1) - 1 = taken[u]
    BY <1>1
  <2> QED BY <1>1, <1>6, <2>1, <2>2 DEF Ordered, Wanted
<1> QED BY <1>3, <1>5, <1>7

LEMMA SomeHighest ==
  ASSUME NEW R \in SUBSET (1..14), R # {}
  PROVE  \E r \in R : \A s \in R : ~(r < s)
<1> DEFINE T == {14 - r : r \in R}
<1>1. T \subseteq Nat /\ T # {}
  <2>1. \A r \in R : r \in 1..14 /\ 14 - r \in Nat
    OBVIOUS
  <2>2. PICK r \in R : TRUE
    OBVIOUS
  <2>3. 14 - r \in T
    OBVIOUS
  <2> QED BY <2>1, <2>3
<1>2. PICK z \in T : \A y \in T : ~(<<y, z>> \in OpToRel(<, Nat))
  BY <1>1, WFMin, NatLessThanWellFounded
<1>3. \A y \in T : ~(y < z)
  BY <1>1, <1>2 DEF OpToRel
<1>4. PICK r \in R : z = 14 - r
  OBVIOUS
<1>5. \A s \in R : ~(r < s)
  <2> SUFFICES ASSUME NEW s \in R, r < s PROVE FALSE
    OBVIOUS
  <2>1. 14 - s \in T /\ r \in 1..14 /\ s \in 1..14
    OBVIOUS
  <2>2. ~(14 - s < 14 - r)
    BY <1>3, <1>4, <2>1
  <2> QED BY <2>1, <2>2
<1> QED BY <1>5

\* In every state the invariant describes no transactions wait in a circle.
LEMMA InvNoDeadlock == LockInv => NoDeadlock
<1> SUFFICES ASSUME LockInv, NEW c \in SUBSET Transactions, Deadlocked(c) PROVE FALSE
  BY DEF NoDeadlock
<1> DEFINE r(t) == Rank[Wanted(t).kind]
<1>1. c # {} /\ \A t \in c : Going(t) /\ \E u \in c : WaitsFor(t, u)
  BY DEF Deadlocked
<1>2. \A t \in c : r(t) \in 1..14 /\ \E u \in c : r(t) < r(u)
  <2> SUFFICES ASSUME NEW t \in c PROVE r(t) \in 1..14 /\ \E u \in c : r(t) < r(u)
    OBVIOUS
  <2>1. PICK u \in c : WaitsFor(t, u)
    BY <1>1
  <2>2. PICK v \in c : WaitsFor(u, v)
    BY <1>1
  <2>3. t \in Transactions /\ u \in Transactions /\ v \in Transactions
    OBVIOUS
  <2>4. r(t) \in 1..14 /\ r(t) < r(u)
    BY <1>1, <2>1, <2>2, <2>3, WantsAbove
  <2> QED BY <2>4
<1> HIDE DEF r
<1> DEFINE R == {r(t) : t \in c}
<1>3. R \subseteq 1..14 /\ R # {}
  BY <1>1, <1>2
<1>4. PICK x \in R : \A y \in R : ~(x < y)
  <2> HIDE DEF R
  <2> QED BY <1>3, SomeHighest
<1> QED BY <1>2, <1>4

\* The transactions of customers, purchases and publications never wait for each
\* other in a circle (financial.py:81, admission.py:10-16, link_publication.py:276-305),
\* however many run, whichever users, products and offers they are about.
THEOREM LockDeadlockFree == LockSpec => []NoDeadlock
<1>1. LockSpec => []LockInv
  BY LockInvInit, LockInvNext, PTL DEF LockSpec
<1> QED BY <1>1, InvNoDeadlock, PTL
=============================================================================
