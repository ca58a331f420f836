-------------------------- MODULE CustomerOpsProofs --------------------------
(***************************************************************************)
(* Proofs about CustomerOps: its type invariant, the invariants its runs   *)
(* check, the lease action property and the refinement of CustomerBinding. *)
(*                                                                         *)
(* The inductive invariant IInv has two halves.  The first is about sends: *)
(* fences only grow, so an attempt in progress is told from every later    *)
(* one by its fence; whoever may still be posting owns a lease that lasts  *)
(* beyond its budget, or its customer is already bound.  The second is     *)
(* about identity: binding state, operation state, reviews and the proven  *)
(* id of a customer always agree with each other.                          *)
(***************************************************************************)
EXTENDS CustomerOps, TLAPS

-----------------------------------------------------------------------------
(* Sends *)

InAttempt(o) == opening[o].pc \in Sending

\* o may still hold or start a POST that its budget and cleanup allow.
Posting(o) ==
    opening[o].pc \in {"send", "await"} /\ clock < opening[o].deadline + Cleanup

FencesBehind ==
    \A o \in Openings : /\ opening[o].fence <= op[Owner[o]].fence
                        /\ opening[o].first <= op[Owner[o]].fence

InTime ==
    \A o \in Openings :
        /\ opening[o].pc \in Running =>
              /\ opening[o].deadline <= clock + Total
              /\ clock <= opening[o].deadline + Slack
        /\ At(o, "await") => clock <= opening[o].deadline

DistinctSends ==
    \A o, p \in Openings :
        o # p /\ Owner[o] = Owner[p] /\ InAttempt(o) /\ InAttempt(p)
        => opening[o].fence # opening[p].fence

PostingOwnsLease ==
    \A o \in Openings :
        Posting(o) =>
            \/ slot[Owner[o]].id # NoId
            \/ /\ lease[Owner[o]].owner = opening[o].fence
               /\ lease[Owner[o]].expires >= opening[o].deadline + Cleanup

OnePosting ==
    \A o, p \in Openings :
        o # p /\ Owner[o] = Owner[p] => ~(Posting(o) /\ Posting(p))

ClaimOwnsLease ==
    \A c \in Customers :
        op[c].state = "possible_send" => lease[c].owner = op[c].fence

CurrentSend ==
    \A o \in Openings :
        InAttempt(o) /\ Current(o) =>
            /\ op[Owner[o]].state = "possible_send"
            /\ opening[o].deadline + Window <= op[Owner[o]].deadline + Total

PostingIsCurrent ==
    \A o \in Openings :
        Posting(o) => Current(o) \/ op[Owner[o]].state \in {"bound", "manual_review"}

SendInv ==
    /\ FencesBehind /\ InTime /\ DistinctSends /\ PostingOwnsLease /\ OnePosting
    /\ ClaimOwnsLease /\ CurrentSend /\ PostingIsCurrent

(* Identity *)

CandidateInHand ==
    \A o \in Openings :
        opening[o].pc \in {"point", "apply", "receipt"} => opening[o].id # NoId

BindingRow(c) ==
    /\ slot[c].binding \in {"absent", "unbound"} =>
          /\ slot[c].id = NoId
          /\ op[c].state # "bound"
          /\ reviews[c] \subseteq {"unknown"}
    /\ slot[c].binding = "bound" =>
          slot[c].id # NoId /\ op[c].state = "bound" /\ reviews[c] = {}
    /\ slot[c].binding = "conflict" => op[c].state = "manual_review"
    /\ slot[c].id # NoId => op[c].bound = slot[c].id

BindingState == \A c \in Customers : BindingRow(c)

ReadIsTrue ==
    rekeys = 0 =>
        /\ \A o \in Openings :
              At(o, "apply") => /\ users[opening[o].id].live
                                /\ users[opening[o].id].key = opening[o].key
        /\ \A c \in Customers :
              slot[c].id # NoId => /\ users[slot[c].id].live
                                   /\ users[slot[c].id].key = c

IdentityInv ==
    CandidateInHand /\ BindingState /\ ProofStands /\ NoSharedIdentity /\ ReadIsTrue

IInv == TypeOK /\ SendInv /\ IdentityInv

-----------------------------------------------------------------------------
(* Steps of one opening *)

\* How an opening may move without a claim or a proof.
MoveTo(o, new) ==
    LET old == opening[o] IN
    /\ new \in Opening
    /\ new.pc \in Running \cup Ended
    /\ new.first = -1 => new.pc \in {"reserve"} \cup Ended
    /\ new.first \in {old.first, -1, op[Owner[o]].fence}
    /\ new.fence \in {old.fence, old.first, 0, op[Owner[o]].fence}
    /\ new.pc \in Running =>
          \/ old.pc \in Running /\ new.deadline = old.deadline
          \/ new.pc = "reserve" /\ new.deadline = clock + Total
    /\ new.pc \in Sending => old.pc \in Sending /\ new.fence = old.fence
    /\ new.pc \in {"send", "await"} => old.pc \in {"send", "await"}
    /\ new.pc = "await" => clock < old.deadline
    /\ new.pc \in {"client", "recheck"} =>
          /\ old.pc \in {"client", "recheck"}
          /\ new.fence = old.fence /\ new.saved = old.saved
    /\ new.pc \in {"point", "apply", "receipt"} => new.id # NoId
    /\ new.pc = "apply" => users[new.id].live /\ users[new.id].key = new.key

Move(o) ==
    \E new \in Opening :
        MoveTo(o, new) /\ opening' = [opening EXCEPT ![o] = new]

LEMMA EndMoves ==
    ASSUME NEW o \in Openings, NEW pc \in Ended, End(o, pc)
    PROVE  Move(o)
<1> DEFINE new == [NewOpening EXCEPT !.pc = pc]
<1>1. new \in Opening
  BY DEF NewOpening, Opening, MaybeId, Keys
<1>2. new.pc = pc /\ new.first = -1 /\ new.fence = 0
  BY DEF NewOpening
<1>3. opening' = [opening EXCEPT ![o] = new]
  BY DEF End
<1> HIDE DEF new
<1>4. MoveTo(o, new)
  BY <1>1, <1>2 DEF MoveTo, Ended, Running, Remote, Local, Sending
<1> QED
  BY <1>1, <1>3, <1>4 DEF Move

LEMMA GotoMoves ==
    ASSUME TypeOK, NEW o \in Openings, opening[o].first # -1, opening[o].pc \in Running,
           NEW pc \in {"email", "prepare", "claim", "elsewhere", "ambiguous", "finish",
                       "release", "await", "recheck"},
           pc \in Sending => opening[o].pc \in Sending,
           pc = "await" => At(o, "send") /\ InBudget(o),
           pc = "recheck" => At(o, "client"),
           Goto(o, pc)
    PROVE  Move(o)
<1> DEFINE old == opening[o]
           new == [old EXCEPT !.pc = pc, !.id = NoId, !.key = NoKey]
<1>1. old \in Opening
  BY DEF TypeOK
<1>2. new \in Opening
  BY <1>1 DEF Opening, Running, Remote, Local, MaybeId, Keys
<1>3. /\ new.pc = pc /\ new.first = old.first /\ new.fence = old.fence
      /\ new.deadline = old.deadline /\ new.saved = old.saved
  BY <1>1 DEF Opening
<1>4. opening' = [opening EXCEPT ![o] = new]
  BY <1>1 DEF Goto, Opening
<1> HIDE DEF new
<1>5. MoveTo(o, new)
  BY <1>2, <1>3 DEF MoveTo, At, InBudget, Running, Remote, Local, Ended, Sending
<1> QED
  BY <1>2, <1>4, <1>5 DEF Move

LEMMA AgainMoves ==
    ASSUME TypeOK, NEW o \in Openings, opening[o].first # -1, opening[o].pc \in Running,
           NEW pc \in {"wait", "reserve"}, NEW wake \in Nat,
           NEW failure \in {"none", "temporary", "permanent", "refused"},
           Again(o, pc, wake, failure)
    PROVE  Move(o)
<1> DEFINE old == opening[o]
           new == [NewOpening EXCEPT !.pc = pc, !.wake = wake, !.failure = failure,
                     !.deadline = old.deadline, !.first = old.first,
                     !.taken = old.taken]
<1>1. old \in Opening
  BY DEF TypeOK
<1>2. new \in Opening
  BY <1>1 DEF NewOpening, Opening, Running, Remote, Local, MaybeId, Keys
<1>3. /\ new.pc = pc /\ new.first = old.first /\ new.fence = 0
      /\ new.deadline = old.deadline
  BY <1>1 DEF NewOpening, Opening
<1>4. opening' = [opening EXCEPT ![o] = new]
  BY DEF Again
<1> HIDE DEF new
<1>5. MoveTo(o, new)
  BY <1>2, <1>3 DEF MoveTo, Running, Remote, Local, Ended, Sending
<1> QED
  BY <1>2, <1>4, <1>5 DEF Move

LEMMA WaitMoves ==
    ASSUME TypeOK, NEW o \in Openings, opening[o].first # -1, opening[o].pc \in Running,
           Wait(o)
    PROVE  Move(o)
<1>1. opening[o].failure \in {"none", "temporary", "permanent", "refused"}
      /\ clock + 1 \in Nat
  BY TimeAssumption DEF TypeOK, Opening
<1> QED
  BY <1>1, EndMoves, AgainMoves DEF Wait, Ended

\* A step that rewrites some fields of the opening in place.
LEMMA EditMoves ==
    ASSUME NEW o \in Openings, NEW new, MoveTo(o, new),
           opening' = [opening EXCEPT ![o] = new]
    PROVE  Move(o)
BY DEF Move, MoveTo

\* The steps that change nothing but their own opening.
Quiet(o) ==
    \/ FindByKey(o) \/ FindByEmail(o) \/ ScopeMismatch(o) \/ PointRead(o)
    \/ Prepare(o) \/ ReadFails(o) \/ WakeUp(o) \/ NotSent(o) \/ CreateFails(o)
    \/ ClientReady(o) \/ ClientFails(o) \/ Recheck(o) \/ Expire(o)
    \/ TransactionFails(o) \/ Abort(o)

LEMMA Started ==
    ASSUME TypeOK, NEW o \in Openings,
           opening[o].pc \in Running \ {"reserve"}
    PROVE  opening[o].first # -1 /\ opening[o].pc \in Running /\ opening[o] \in Opening
BY DEF TypeOK, Running, Remote, Local, Ended

LEMMA FoundMoves ==
    ASSUME TypeOK, NEW o \in Openings, opening[o].pc \in {"key", "email"},
           NEW ids \in SUBSET Ids, Found(o, ids)
    PROVE  Move(o)
<1>1. opening[o].first # -1 /\ opening[o].pc \in Running /\ opening[o] \in Opening
  BY Started DEF Running, Remote
<1>2. CASE \E i \in ids : opening' = [opening EXCEPT ![o].pc = "point", ![o].id = i]
  <2>1. PICK i \in ids : opening' = [opening EXCEPT ![o].pc = "point", ![o].id = i]
    BY <1>2
  <2> DEFINE new == [opening[o] EXCEPT !.pc = "point", !.id = i]
  <2>2. /\ new \in Opening /\ new.pc = "point" /\ new.first = opening[o].first
        /\ new.fence = opening[o].fence /\ new.deadline = opening[o].deadline
        /\ new.id # NoId
    BY <1>1, NullAssumption DEF Opening, Running, Remote, MaybeId
  <2>3. opening' = [opening EXCEPT ![o] = new]
    BY <1>1, <2>1 DEF Opening
  <2> HIDE DEF new
  <2> QED
    BY <1>1, <2>2, <2>3, EditMoves DEF MoveTo, Running, Remote, Local, Sending
<1>3. CASE Goto(o, "ambiguous")
  BY <1>1, <1>3, GotoMoves DEF Sending
<1> QED
  BY <1>2, <1>3 DEF Found

LEMMA QuietMoves ==
    ASSUME TypeOK, CandidateInHand, NEW o \in Openings, Quiet(o)
    PROVE  Move(o) /\ UNCHANGED <<clock, portal, remote>>
<1>1. UNCHANGED <<clock, portal, remote>>
  BY DEF Quiet, FindByKey, FindByEmail, ScopeMismatch, PointRead, Prepare, ReadFails,
         WakeUp, NotSent, CreateFails, ClientReady, ClientFails, Recheck, Expire,
         TransactionFails, Abort
<1>2. Move(o)
  <2>1. CASE FindByKey(o)
    <3>1. Goto(o, "email") => Move(o)
      BY <2>1, Started, GotoMoves DEF FindByKey, At, Running, Remote, Sending
    <3> QED
      BY <2>1, <3>1, FoundMoves DEF FindByKey, At
  <2>2. CASE FindByEmail(o)
    <3>1. opening[o].first # -1 /\ opening[o].pc \in Running
      BY <2>2, Started DEF FindByEmail, At, Running, Remote
    <3>2. NotFound(o) => Move(o)
      BY <3>1, EndMoves, GotoMoves, WaitMoves DEF NotFound, Ended, Sending
    <3> QED
      BY <2>2, <3>2, FoundMoves DEF FindByEmail, At
  <2>3. CASE ScopeMismatch(o)
    <3> DEFINE new == [opening[o] EXCEPT !.pc = "ambiguous", !.fence = opening[o].first]
    <3>1. opening[o].first # -1 /\ opening[o].pc \in Running /\ opening[o] \in Opening
      BY <2>3, Started DEF ScopeMismatch, At, Running, Remote
    <3>2. /\ new \in Opening /\ new.pc = "ambiguous" /\ new.first = opening[o].first
          /\ new.fence = opening[o].first /\ new.deadline = opening[o].deadline
      BY <3>1 DEF Opening, Running, Local
    <3>3. opening' = [opening EXCEPT ![o] = new]
      BY <2>3, <3>1 DEF ScopeMismatch, Opening
    <3> HIDE DEF new
    <3> QED
      BY <3>1, <3>2, <3>3, EditMoves DEF MoveTo, Running, Remote, Local, Sending
  <2>4. CASE PointRead(o)
    <3> DEFINE new == [opening[o] EXCEPT !.pc = "apply",
                                         !.key = users[opening[o].id].key]
    <3>1. opening[o].first # -1 /\ opening[o].pc \in Running /\ opening[o] \in Opening
      BY <2>4, Started DEF PointRead, At, Running, Remote
    <3>2. opening[o].id \in Ids /\ opening[o].id # NoId
      BY <2>4, <3>1 DEF PointRead, CandidateInHand, At, Opening, MaybeId
    <3>3. users[opening[o].id].key \in Keys /\ users[opening[o].id].live
      BY <2>4, <3>2 DEF PointRead, TypeOK
    <3>4. /\ new \in Opening /\ new.pc = "apply" /\ new.first = opening[o].first
          /\ new.fence = opening[o].fence /\ new.deadline = opening[o].deadline
          /\ new.id = opening[o].id /\ new.key = users[new.id].key
      BY <3>1, <3>3 DEF Opening, Running, Local
    <3>5. opening' = [opening EXCEPT ![o] = new]
      BY <2>4, <3>1 DEF PointRead, Opening
    <3> HIDE DEF new
    <3> QED
      BY <3>1, <3>2, <3>3, <3>4, <3>5, EditMoves
      DEF MoveTo, Running, Remote, Local, Sending
  <2>5. CASE Prepare(o)
    BY <2>5, Started, GotoMoves DEF Prepare, At, Running, Remote, Sending
  <2>6. CASE ReadFails(o)
    <3>1. opening[o].first # -1 /\ opening[o].pc \in Running
      BY <2>6, Started DEF ReadFails, Running, Remote
    <3> QED
      BY <2>6, <3>1, WaitMoves, EndMoves DEF ReadFails, Ended
  <2>7. CASE WakeUp(o)
    <3>1. opening[o].first # -1 /\ opening[o].pc \in Running
          /\ opening[o].failure \in {"none", "temporary", "permanent", "refused"}
      BY <2>7, Started DEF WakeUp, At, Running, Remote, Opening
    <3> QED
      BY <2>7, <3>1, AgainMoves DEF WakeUp
  <2>8. CASE NotSent(o)
    BY <2>8, Started, GotoMoves DEF NotSent, At, Running, Local, Sending
  <2>9. CASE CreateFails(o)
    <3>1. opening[o].first # -1 /\ opening[o].pc \in Running /\ opening[o] \in Opening
      BY <2>9, Started DEF CreateFails, At, Running, Remote
    <3>2. PICK failure \in {"temporary", "permanent", "refused"} :
            opening' = [opening EXCEPT ![o].pc = "finish", ![o].failure = failure]
      BY <2>9 DEF CreateFails
    <3> DEFINE new == [opening[o] EXCEPT !.pc = "finish", !.failure = failure]
    <3>3. /\ new \in Opening /\ new.pc = "finish" /\ new.first = opening[o].first
          /\ new.fence = opening[o].fence /\ new.deadline = opening[o].deadline
      BY <3>1 DEF Opening, Running, Local
    <3>4. opening' = [opening EXCEPT ![o] = new]
      BY <3>1, <3>2 DEF Opening
    <3> HIDE DEF new
    <3> QED
      BY <2>9, <3>1, <3>3, <3>4, EditMoves
      DEF CreateFails, At, MoveTo, Running, Remote, Local, Sending
  <2>10. CASE ClientReady(o)
    BY <2>10, Started, GotoMoves DEF ClientReady, At, Running, Remote, Sending
  <2>11. CASE ClientFails(o)
    BY <2>11, EndMoves DEF ClientFails, Ended
  <2>12. CASE Recheck(o)
    BY <2>12, EndMoves DEF Recheck, Ended
  <2>13. CASE Expire(o)
    BY <2>13, EndMoves DEF Expire, Ended
  <2>14. CASE TransactionFails(o)
    <3>1. CASE opening[o].pc \in {"receipt", "release"}
      <4> DEFINE new == [opening[o] EXCEPT !.pc = "finish", !.id = NoId,
                                           !.failure = "refused"]
      <4>1. opening[o].first # -1 /\ opening[o].pc \in Running /\ opening[o] \in Opening
        BY <3>1, Started DEF Running, Local
      <4>2. /\ new \in Opening /\ new.pc = "finish" /\ new.first = opening[o].first
            /\ new.fence = opening[o].fence /\ new.deadline = opening[o].deadline
        BY <4>1 DEF Opening, Running, Local, MaybeId
      <4>3. opening' = [opening EXCEPT ![o] = new]
        BY <2>14, <3>1, <4>1 DEF TransactionFails, Opening
      <4> HIDE DEF new
      <4> QED
        BY <3>1, <4>1, <4>2, <4>3, EditMoves
        DEF MoveTo, Running, Remote, Local, Sending
    <3>2. CASE opening[o].pc \notin {"receipt", "release"}
      BY <2>14, <3>2, EndMoves DEF TransactionFails, Ended
    <3> QED
      BY <3>1, <3>2
  <2>15. CASE Abort(o)
    BY <2>15, EndMoves DEF Abort, Ended
  <2> QED
    BY <2>1, <2>2, <2>3, <2>4, <2>5, <2>6, <2>7, <2>8, <2>9, <2>10, <2>11, <2>12,
       <2>13, <2>14, <2>15 DEF Quiet
<1> QED
  BY <1>1, <1>2

-----------------------------------------------------------------------------
(* What a move of one opening keeps, whatever the step does to the portal *)

LEMMA MoveFacts ==
    ASSUME TypeOK, NEW o \in Openings, Move(o)
    PROVE  /\ opening' \in [Openings -> Opening]
           /\ \A q \in Openings : q # o => opening'[q] = opening[q]
           /\ MoveTo(o, opening'[o])
           /\ \A q \in Openings :
                 opening'[q].first = -1 => opening'[q].pc \in {"idle", "reserve"} \cup Ended
<1>1. PICK new \in Opening :
        MoveTo(o, new) /\ opening' = [opening EXCEPT ![o] = new]
  BY DEF Move
<1>2. /\ opening' \in [Openings -> Opening]
      /\ \A q \in Openings : q # o => opening'[q] = opening[q]
      /\ opening'[o] = new
  BY <1>1 DEF TypeOK
<1> QED
  BY <1>1, <1>2 DEF TypeOK, MoveTo

OpeningsInv ==
    FencesBehind /\ InTime /\ DistinctSends /\ OnePosting /\ CandidateInHand

LEMMA MoveKeepsOpenings ==
    ASSUME TypeOK, OpeningsInv, NEW o \in Openings, Move(o), clock' = clock,
           op' \in [Customers -> Operation],
           \A c \in Customers : op'[c].fence >= op[c].fence
    PROVE  OpeningsInv'
<1>1. /\ opening' \in [Openings -> Opening]
      /\ \A q \in Openings : q # o => opening'[q] = opening[q]
      /\ MoveTo(o, opening'[o])
  BY MoveFacts
<1>2. \A q \in Openings : opening[q] \in Opening /\ opening'[q] \in Opening
                          /\ Owner[q] \in Customers
  BY <1>1, OwnerAssumption DEF TypeOK
<1>3. \A c \in Customers : op[c].fence \in Nat /\ op'[c].fence \in Nat
  BY DEF TypeOK, Operation
<1>4. FencesBehind'
  BY <1>1, <1>2, <1>3 DEF OpeningsInv, FencesBehind, MoveTo, Opening
<1>5. InTime'
  BY <1>1, <1>2, TimeAssumption
  DEF OpeningsInv, InTime, MoveTo, Opening, At, TypeOK, Running, Remote, Local, Ended
<1>6. DistinctSends'
  BY <1>1, <1>2 DEF OpeningsInv, DistinctSends, InAttempt, MoveTo
<1>7. OnePosting'
  BY <1>1, <1>2 DEF OpeningsInv, OnePosting, Posting, MoveTo, Running, Remote, Local
<1>8. CandidateInHand'
  BY <1>1 DEF OpeningsInv, CandidateInHand, MoveTo
<1> QED
  BY <1>4, <1>5, <1>6, <1>7, <1>8 DEF OpeningsInv

\* A move beside which nothing that the sends are about changes.
LEMMA MoveKeepsSends ==
    ASSUME TypeOK, SendInv, CandidateInHand, NEW o \in Openings, Move(o), clock' = clock,
           op' \in [Customers -> Operation],
           \A c \in Customers :
              /\ op'[c].fence = op[c].fence /\ op'[c].deadline = op[c].deadline
              /\ op'[c].state = op[c].state \/ (op[c].state = "none" /\ op'[c].state = "pending")
              /\ lease'[c] = lease[c] /\ slot'[c].id = slot[c].id
    PROVE  SendInv' /\ CandidateInHand'
<1>1. /\ opening' \in [Openings -> Opening]
      /\ \A q \in Openings : q # o => opening'[q] = opening[q]
      /\ MoveTo(o, opening'[o])
  BY MoveFacts
<1>2. \A q \in Openings : opening[q] \in Opening /\ opening'[q] \in Opening
                          /\ Owner[q] \in Customers
  BY <1>1, OwnerAssumption DEF TypeOK
<1>3. OpeningsInv'
  <2>1. OpeningsInv
    BY DEF OpeningsInv, SendInv
  <2>2. \A c \in Customers : op'[c].fence >= op[c].fence
    BY DEF TypeOK, Operation
  <2> QED
    BY <2>1, <2>2, MoveKeepsOpenings
<1>4. \A q \in Openings : Posting(q)' => Posting(q) /\ opening'[q].fence = opening[q].fence
                                       /\ opening'[q].deadline = opening[q].deadline
  BY <1>1, <1>2 DEF Posting, MoveTo, Running, Remote, Local, Sending
<1>5. \A q \in Openings : InAttempt(q)' => InAttempt(q) /\ opening'[q].fence = opening[q].fence
                                       /\ opening'[q].deadline = opening[q].deadline
  BY <1>1, <1>2 DEF InAttempt, MoveTo, Running, Remote, Local, Sending
<1>6. PostingOwnsLease'
  BY <1>2, <1>4 DEF SendInv, PostingOwnsLease
<1>7. ClaimOwnsLease'
  BY DEF SendInv, ClaimOwnsLease
<1>8. CurrentSend'
  BY <1>2, <1>5 DEF SendInv, CurrentSend, Current
<1>9. PostingIsCurrent'
  BY <1>2, <1>4 DEF SendInv, PostingIsCurrent, Current
<1> QED
  BY <1>3, <1>6, <1>7, <1>8, <1>9 DEF SendInv, OpeningsInv

-----------------------------------------------------------------------------
(* The steps, grouped by what they change *)

Conflict(o) ==
    /\ opening[o].pc \in {"apply", "elsewhere", "ambiguous"}
    /\ \E review \in Reviews \ {"unknown"} :
          /\ RecordConflict(Owner[o], review)
          /\ review = "key" => OriginalId(o) /\ Recoverable(Owner[o])
    /\ End(o, "refused")
    /\ UNCHANGED <<clock, remote>>

Proof(o) ==
    /\ At(o, "apply") /\ Current(o) /\ Recoverable(Owner[o])
    /\ ~Contradicts(o) /\ ~BoundElsewhere(o)
    /\ Bind(o)
    /\ UNCHANGED <<clock, remote>>

Refusal(o) ==
    /\ \/ opening[o].pc \in {"apply", "ambiguous"} /\ End(o, "refused")
       \/ At(o, "apply") /\ Goto(o, "elsewhere")
    /\ UNCHANGED <<clock, portal, remote>>

LEMMA ReadCases ==
    ASSUME NEW o \in Openings, Apply(o) \/ RecordElsewhere(o) \/ Ambiguous(o)
    PROVE  Conflict(o) \/ Proof(o) \/ Refusal(o)
<1>1. CASE Apply(o)
  <2>1. CASE ReadRefused(o)
    BY <1>1, <2>1 DEF Apply, Refusal, At
  <2>2. CASE ~ReadRefused(o) /\ Contradicts(o)
    <3>1. RecordConflict(Owner[o], IF OriginalId(o) THEN "key" ELSE "identity")
          /\ End(o, "refused")
      BY <1>1, <2>2 DEF Apply
    <3> QED
      BY <1>1, <2>2, <3>1 DEF Apply, Conflict, ReadRefused, At, Reviews
  <2>3. CASE ~ReadRefused(o) /\ ~Contradicts(o) /\ BoundElsewhere(o)
    BY <1>1, <2>3 DEF Apply, Refusal
  <2>4. CASE ~ReadRefused(o) /\ ~Contradicts(o) /\ ~BoundElsewhere(o)
    BY <1>1, <2>4 DEF Apply, Proof, ReadRefused
  <2> QED
    BY <2>1, <2>2, <2>3, <2>4
<1>2. CASE RecordElsewhere(o)
  BY <1>2 DEF RecordElsewhere, Conflict, At, Reviews
<1>3. CASE Ambiguous(o)
  BY <1>3 DEF Ambiguous, Conflict, Refusal, At, Reviews
<1> QED
  BY <1>1, <1>2, <1>3

LEMMA Cases ==
    ASSUME Next
    PROVE  \/ \E o \in Openings :
                 \/ Quiet(o) \/ Open(o) \/ Reserve(o) \/ Claim(o) \/ Dispatch(o)
                 \/ RecordReceipt(o) \/ Release(o) \/ Finish(o)
                 \/ Conflict(o) \/ Proof(o) \/ Refusal(o)
           \/ \E c \in Customers : Escalate(c)
           \/ \E p \in posts : ProviderCreates(p) \/ ProviderRefuses(p)
           \/ \E i \in Ids : Rekey(i)
           \/ Tick
BY ReadCases DEF Next, Step, Quiet

-----------------------------------------------------------------------------
(* Types *)

LEMMA AnswerMoves ==
    ASSUME TypeOK, NEW p \in posts, NEW i \in MaybeId,
           NEW failure \in {"none", "permanent"}, Answer(p, i, failure)
    PROVE  UNCHANGED opening \/ \E o \in Openings : Move(o)
<1>1. CASE UNCHANGED opening
  BY <1>1
<1>2. CASE \E o \in Openings :
          /\ At(o, "await")
          /\ opening' = [opening EXCEPT ![o].pc = IF i = NoId THEN "finish" ELSE "receipt",
                            ![o].id = i, ![o].failure = failure, ![o].taken = i = NoId]
  <2>1. PICK o \in Openings :
          /\ At(o, "await")
          /\ opening' = [opening EXCEPT ![o].pc = IF i = NoId THEN "finish" ELSE "receipt",
                            ![o].id = i, ![o].failure = failure, ![o].taken = i = NoId]
    BY <1>2
  <2> DEFINE new == [opening[o] EXCEPT !.pc = IF i = NoId THEN "finish" ELSE "receipt",
                       !.id = i, !.failure = failure, !.taken = i = NoId]
  <2>2. opening[o].first # -1 /\ opening[o].pc \in Running /\ opening[o] \in Opening
    BY <2>1, Started DEF At, Running, Remote
  <2>3. /\ new \in Opening /\ new.pc \in {"finish", "receipt"}
        /\ new.first = opening[o].first /\ new.fence = opening[o].fence
        /\ new.deadline = opening[o].deadline
        /\ new.pc = "receipt" => new.id # NoId
    BY <2>2 DEF Opening, Running, Local
  <2>4. opening' = [opening EXCEPT ![o] = new]
    BY <2>1, <2>2 DEF Opening
  <2> HIDE DEF new
  <2>5. MoveTo(o, new)
    BY <2>1, <2>2, <2>3 DEF At, MoveTo, Running, Remote, Local, Sending
  <2> QED
    BY <2>4, <2>5, EditMoves
<1> QED
  BY <1>1, <1>2 DEF Answer

LEMMA OpenMoves ==
    ASSUME TypeOK, NEW o \in Openings, Open(o)
    PROVE  Move(o)
<1> DEFINE new == [opening[o] EXCEPT !.pc = "reserve", !.deadline = clock + Total]
<1>1. opening[o] \in Opening /\ clock + Total \in Nat
  BY TimeAssumption DEF TypeOK
<1>2. /\ new \in Opening /\ new.pc = "reserve" /\ new.deadline = clock + Total
      /\ new.first = opening[o].first /\ new.fence = opening[o].fence
  BY <1>1 DEF Opening, Running, Local
<1>3. opening' = [opening EXCEPT ![o] = new]
  BY <1>1 DEF Open, Opening
<1> HIDE DEF new
<1>4. MoveTo(o, new)
  BY <1>2 DEF MoveTo, Running, Remote, Local, Ended, Sending
<1> QED
  BY <1>3, <1>4, EditMoves

LEMMA ReserveMoves ==
    ASSUME TypeOK, NEW o \in Openings, Reserve(o)
    PROVE  Move(o)
<1> DEFINE c == Owner[o]
           pc == IF Saved(c) = NoId THEN "key" ELSE "point"
           first == IF opening[o].first = -1 THEN op[c].fence ELSE opening[o].first
           new == [opening[o] EXCEPT !.pc = pc, !.first = first, !.fence = op[c].fence,
                     !.saved = Saved(c), !.id = Saved(c), !.key = NoKey]
<1>1. CASE End(o, "refused")
  BY <1>1, EndMoves DEF Ended
<1>2. CASE opening' = [opening EXCEPT ![o].pc = IF Saved(c) = NoId THEN "key" ELSE "point",
                        ![o].first = IF @ = -1 THEN op[c].fence ELSE @,
                        ![o].fence = op[c].fence, ![o].saved = Saved(c),
                        ![o].id = Saved(c), ![o].key = NoKey]
  <2>1. c \in Customers /\ op[c] \in Operation /\ slot[c] \in Slot
        /\ opening[o] \in Opening /\ opening[o].pc = "reserve"
    BY OwnerAssumption DEF TypeOK, Reserve, At
  <2>2. Saved(c) \in MaybeId /\ NoKey \in Keys /\ op[c].fence \in Nat
    BY <2>1 DEF Saved, Slot, Operation, Keys
  <2>3. /\ pc \in Running /\ pc \in {"key", "point"} /\ (pc = "point" => Saved(c) # NoId)
        /\ first \in Nat /\ first # -1 /\ first \in {opening[o].first, op[c].fence}
    BY <2>1, <2>2 DEF Running, Remote, Opening
  <2>4. opening' = [opening EXCEPT ![o] = new]
    BY <1>2, <2>1 DEF Opening
  <2> HIDE DEF pc, first
  <2>5. /\ new \in Opening /\ new.pc = pc /\ new.first = first /\ new.id = Saved(c)
        /\ new.fence = op[c].fence /\ new.deadline = opening[o].deadline
    BY <2>1, <2>2, <2>3 DEF Opening
  <2> HIDE DEF new
  <2>6. MoveTo(o, new)
    BY <2>1, <2>3, <2>5 DEF MoveTo, Running, Remote, Local, Ended, Sending
  <2> QED
    BY <2>4, <2>6, EditMoves
<1> QED
  BY <1>1, <1>2 DEF Reserve

LEMMA DispatchMoves ==
    ASSUME TypeOK, NEW o \in Openings, Dispatch(o)
    PROVE  Move(o)
BY Started, GotoMoves DEF Dispatch, At, Running, Local, Sending

LEMMA RecordReceiptMoves ==
    ASSUME TypeOK, NEW o \in Openings, RecordReceipt(o)
    PROVE  Move(o)
<1>1. opening[o].first # -1 /\ opening[o].pc \in Running /\ opening[o] \in Opening
  BY Started DEF RecordReceipt, At, Running, Local
<1>2. CASE ReceiptAccepted(o)
  BY <1>1, <1>2, GotoMoves DEF RecordReceipt, At, Sending
<1>3. CASE ~ReceiptAccepted(o)
  <2> DEFINE new == [opening[o] EXCEPT !.pc = "finish", !.id = NoId, !.failure = "refused"]
  <2>1. /\ new \in Opening /\ new.pc = "finish" /\ new.first = opening[o].first
        /\ new.fence = opening[o].fence /\ new.deadline = opening[o].deadline
    BY <1>1 DEF Opening, Running, Local, MaybeId
  <2>2. opening' = [opening EXCEPT ![o] = new]
    BY <1>1, <1>3 DEF RecordReceipt, Opening
  <2> HIDE DEF new
  <2> QED
    BY <1>1, <2>1, <2>2, EditMoves
    DEF RecordReceipt, At, MoveTo, Running, Remote, Local, Sending
<1> QED
  BY <1>2, <1>3

LEMMA ReleaseMoves ==
    ASSUME TypeOK, NEW o \in Openings, Release(o)
    PROVE  Move(o)
<1>1. opening[o].first # -1 /\ opening[o].pc \in Running /\ opening[o] \in Opening
  BY Started DEF Release, At, Running, Local
<1>2. PICK failure \in {"temporary", "refused"} :
        opening' = [opening EXCEPT ![o].pc = "finish", ![o].failure = failure]
  BY DEF Release
<1> DEFINE new == [opening[o] EXCEPT !.pc = "finish", !.failure = failure]
<1>3. /\ new \in Opening /\ new.pc = "finish" /\ new.first = opening[o].first
      /\ new.fence = opening[o].fence /\ new.deadline = opening[o].deadline
  BY <1>1 DEF Opening, Running, Local
<1>4. opening' = [opening EXCEPT ![o] = new]
  BY <1>1, <1>2 DEF Opening
<1> HIDE DEF new
<1> QED
  BY <1>1, <1>3, <1>4, EditMoves
  DEF Release, At, MoveTo, Running, Remote, Local, Sending

LEMMA FinishMoves ==
    ASSUME TypeOK, NEW o \in Openings, Finish(o)
    PROVE  Move(o)
<1>1. opening[o].first # -1 /\ opening[o].pc \in Running /\ opening[o] \in Opening
  BY Started DEF Finish, At, Running, Local
<1>2. opening[o].failure \in {"none", "temporary", "permanent", "refused"}
  BY <1>1 DEF Opening
<1> QED
  BY <1>1, <1>2, EndMoves, AgainMoves DEF Finish, Ended

LEMMA RefusalMoves ==
    ASSUME TypeOK, NEW o \in Openings, Conflict(o) \/ Refusal(o)
    PROVE  Move(o)
<1>1. CASE End(o, "refused")
  BY <1>1, EndMoves DEF Ended
<1>2. CASE At(o, "apply") /\ Goto(o, "elsewhere")
  BY <1>2, Started, GotoMoves DEF At, Running, Local, Sending
<1> QED
  BY <1>1, <1>2 DEF Conflict, Refusal

\* The portal's tables are typed, and lease owner and expiry are paired.
PortalOK ==
    /\ slot \in [Customers -> Slot] /\ op \in [Customers -> Operation]
    /\ lease \in [Customers -> Lease] /\ reviews \in [Customers -> SUBSET Reviews]
    /\ \A c \in Customers : lease[c].owner = 0 <=> lease[c].expires = 0

OnlyAt(c) ==
    \A d \in Customers :
        d # c => /\ slot'[d] = slot[d] /\ op'[d] = op[d]
                 /\ lease'[d] = lease[d] /\ reviews'[d] = reviews[d]

\* A transaction writes the rows of one customer.
Writes(c, s, p, l, r) ==
    /\ slot' = [slot EXCEPT ![c] = s] /\ op' = [op EXCEPT ![c] = p]
    /\ lease' = [lease EXCEPT ![c] = l] /\ reviews' = [reviews EXCEPT ![c] = r]

LEMMA WriteAt ==
    ASSUME TypeOK, NEW c \in Customers,
           NEW s \in Slot, NEW p \in Operation, NEW l \in Lease, NEW r \in SUBSET Reviews,
           l.owner = 0 <=> l.expires = 0,
           Writes(c, s, p, l, r)
    PROVE  /\ PortalOK' /\ OnlyAt(c)
           /\ slot'[c] = s /\ op'[c] = p /\ lease'[c] = l /\ reviews'[c] = r
BY DEF TypeOK, PortalOK, OnlyAt, Writes

LEMMA SameAt ==
    ASSUME TypeOK, NEW c \in Customers
    PROVE  /\ slot = [slot EXCEPT ![c] = slot[c]] /\ op = [op EXCEPT ![c] = op[c]]
           /\ lease = [lease EXCEPT ![c] = lease[c]]
           /\ reviews = [reviews EXCEPT ![c] = reviews[c]]
           /\ slot[c] \in Slot /\ op[c] \in Operation /\ lease[c] \in Lease
           /\ reviews[c] \in SUBSET Reviews
           /\ lease[c].owner = 0 <=> lease[c].expires = 0
           /\ NewFence(c) \in Nat /\ NewFence(c) # 0 /\ NewFence(c) > op[c].fence
           /\ NoId \in MaybeId
           /\ NoLease \in Lease /\ NoLease.owner = 0 /\ NoLease.expires = 0
<1>1. slot[c] \in Slot /\ op[c] \in Operation /\ lease[c] \in Lease
      /\ reviews[c] \in SUBSET Reviews
  BY DEF TypeOK
<1> QED
  BY <1>1 DEF TypeOK, NewFence, NoLease, Lease, MaybeId, Operation

LEMMA Rows ==
    ASSUME TypeOK, NEW c \in Customers
    PROVE  /\ slot[c].binding \in {"absent", "unbound", "bound", "conflict"}
           /\ slot[c].id \in MaybeId
           /\ op[c].fence \in Nat /\ op[c].deadline \in Nat
           /\ lease[c].owner \in Nat /\ lease[c].expires \in Nat
           /\ reviews[c] \subseteq Reviews
<1>1. slot[c] \in Slot /\ op[c] \in Operation /\ lease[c] \in Lease
      /\ reviews[c] \in SUBSET Reviews
  BY DEF TypeOK
<1> QED
  BY <1>1 DEF Slot, Operation, Lease

LEMMA ReserveEffect ==
    ASSUME TypeOK, NEW o \in Openings, Reserve(o)
    PROVE  LET c == Owner[o] IN
           /\ PortalOK' /\ OnlyAt(c)
           /\ slot'[c] = IF slot[c].binding = "absent"
                         THEN [slot[c] EXCEPT !.binding = "unbound"] ELSE slot[c]
           /\ op'[c] = IF op[c].state = "none" THEN [op[c] EXCEPT !.state = "pending"]
                       ELSE op[c]
           /\ lease'[c] = lease[c] /\ reviews'[c] = reviews[c]
<1> DEFINE c == Owner[o]
           s == IF slot[c].binding = "absent"
                THEN [slot[c] EXCEPT !.binding = "unbound"] ELSE slot[c]
           p == IF op[c].state = "none" THEN [op[c] EXCEPT !.state = "pending"] ELSE op[c]
<1>1. c \in Customers
  BY OwnerAssumption
<1>2. s \in Slot /\ p \in Operation
  BY <1>1, SameAt DEF Slot, Operation
<1>3. slot' = [slot EXCEPT ![c] = s]
  BY <1>1, SameAt DEF Reserve, Slot
<1>4. op' = [op EXCEPT ![c] = p]
  BY <1>1, SameAt DEF Reserve, Operation
<1>5. UNCHANGED <<lease, reviews>>
  BY DEF Reserve
<1>6. Writes(c, s, p, lease[c], reviews[c])
  BY <1>1, <1>3, <1>4, <1>5, SameAt DEF Writes
<1> HIDE DEF s, p, c
<1>7. PortalOK' /\ OnlyAt(c) /\ slot'[c] = s /\ op'[c] = p
      /\ lease'[c] = lease[c] /\ reviews'[c] = reviews[c]
  BY <1>1, <1>2, <1>3, <1>4, <1>5, <1>6, SameAt, WriteAt
<1> QED
  BY <1>7 DEF c, s, p

LEMMA ClaimEffect ==
    ASSUME TypeOK, NEW o \in Openings, Claim(o), Admitted(Owner[o]), MayClaim(o)
    PROVE  LET c == Owner[o] IN
           /\ PortalOK' /\ OnlyAt(c)
           /\ slot'[c] = slot[c] /\ reviews'[c] = reviews[c]
           /\ op'[c] = [op[c] EXCEPT !.fence = NewFence(c), !.state = "possible_send",
                                     !.deadline = clock + Window]
           /\ lease'[c] = [owner |-> NewFence(c), expires |-> LeaseEnd]
<1> DEFINE c == Owner[o]
           p == [op[c] EXCEPT !.fence = NewFence(c), !.state = "possible_send",
                              !.deadline = clock + Window]
           l == [owner |-> NewFence(c), expires |-> LeaseEnd]
<1>1. c \in Customers
  BY OwnerAssumption
<1>2. clock + Window \in Nat /\ LeaseEnd \in Nat /\ LeaseEnd # 0
  BY TimeAssumption DEF TypeOK, LeaseEnd
<1>3. p \in Operation
  BY <1>1, <1>2, SameAt DEF Operation
<1>4. l \in Lease /\ l.owner # 0 /\ l.expires # 0
  BY <1>1, <1>2, SameAt DEF Lease
<1>5. op' = [op EXCEPT ![c] = p]
  BY <1>1, SameAt DEF Claim, Operation
<1>6. lease' = [lease EXCEPT ![c] = l] /\ UNCHANGED <<slot, reviews>>
  BY DEF Claim
<1>7. Writes(c, slot[c], p, l, reviews[c])
  BY <1>1, <1>5, <1>6, SameAt DEF Writes
<1> HIDE DEF p, l, c
<1>8. PortalOK' /\ OnlyAt(c) /\ slot'[c] = slot[c] /\ op'[c] = p
      /\ lease'[c] = l /\ reviews'[c] = reviews[c]
  BY <1>1, <1>3, <1>4, <1>5, <1>6, <1>7, SameAt, WriteAt
<1> QED
  BY <1>8 DEF c, p, l

LEMMA ReceiptEffect ==
    ASSUME TypeOK, NEW o \in Openings, RecordReceipt(o)
    PROVE  LET c == Owner[o] IN
           /\ PortalOK' /\ OnlyAt(c)
           /\ slot'[c] = slot[c] /\ lease'[c] = lease[c] /\ reviews'[c] = reviews[c]
           /\ op'[c].state = op[c].state /\ op'[c].fence = op[c].fence
           /\ op'[c].bound = op[c].bound /\ op'[c].deadline = op[c].deadline
<1> DEFINE c == Owner[o]
           p == [op[c] EXCEPT !.receipt = opening[o].id]
<1>1. c \in Customers
  BY OwnerAssumption
<1>2. /\ p \in Operation /\ p.state = op[c].state /\ p.fence = op[c].fence
      /\ p.bound = op[c].bound /\ p.deadline = op[c].deadline
  <2>1. opening[o].id \in MaybeId
    BY DEF TypeOK, Opening
  <2> QED
    BY <1>1, <2>1, SameAt DEF Operation
<1>3. op' = [op EXCEPT ![c] = p] \/ op' = op
  BY <1>1, SameAt DEF RecordReceipt, Operation
<1>4. UNCHANGED <<slot, lease, reviews>>
  BY DEF RecordReceipt
<1>5. Writes(c, slot[c], p, lease[c], reviews[c])
        \/ Writes(c, slot[c], op[c], lease[c], reviews[c])
  BY <1>1, <1>3, <1>4, SameAt DEF Writes
<1> HIDE DEF p, c
<1>6. PortalOK' /\ OnlyAt(c) /\ slot'[c] = slot[c] /\ op'[c] \in {p, op[c]}
      /\ lease'[c] = lease[c] /\ reviews'[c] = reviews[c]
  BY <1>1, <1>2, <1>5, SameAt, WriteAt
<1> QED
  BY <1>2, <1>6 DEF c

LEMMA ReleaseEffect ==
    ASSUME TypeOK, NEW o \in Openings, Release(o), ReleaseAccepted(o)
    PROVE  LET c == Owner[o] IN
           /\ PortalOK' /\ OnlyAt(c)
           /\ slot'[c] = slot[c] /\ reviews'[c] = reviews[c] /\ lease'[c] = NoLease
           /\ op'[c] = [op[c] EXCEPT !.state = "pending", !.deadline = 0,
                                     !.fence = NewFence(c)]
<1> DEFINE c == Owner[o]
           p == [op[c] EXCEPT !.state = "pending", !.deadline = 0, !.fence = NewFence(c)]
<1>1. c \in Customers
  BY OwnerAssumption
<1>2. p \in Operation
  BY <1>1, SameAt DEF Operation
<1>3. op' = [op EXCEPT ![c] = p]
  BY <1>1, SameAt DEF Release, Operation
<1>4. lease' = [lease EXCEPT ![c] = NoLease] /\ UNCHANGED <<slot, reviews>>
  BY DEF Release
<1>5. Writes(c, slot[c], p, NoLease, reviews[c])
  BY <1>1, <1>3, <1>4, SameAt DEF Writes
<1> HIDE DEF p, c
<1>6. PortalOK' /\ OnlyAt(c) /\ slot'[c] = slot[c] /\ op'[c] = p
      /\ lease'[c] = NoLease /\ reviews'[c] = reviews[c]
  BY <1>1, <1>2, <1>3, <1>4, <1>5, SameAt, WriteAt
<1> QED
  BY <1>6 DEF c, p

LEMMA FinishEffect ==
    ASSUME TypeOK, NEW o \in Openings, Finish(o), Current(o)
    PROVE  LET c == Owner[o] IN
           /\ PortalOK' /\ OnlyAt(c)
           /\ slot'[c] = slot[c] /\ reviews'[c] = reviews[c]
           /\ lease'[c] = IF lease[c].owner = opening[o].fence THEN NoLease ELSE lease[c]
           /\ op'[c] = IF Outstanding(c)
                       THEN [op[c] EXCEPT !.state = "unknown", !.fence = NewFence(c)]
                       ELSE op[c]
<1> DEFINE c == Owner[o]
           p == IF Outstanding(c)
                THEN [op[c] EXCEPT !.state = "unknown", !.fence = NewFence(c)] ELSE op[c]
           l == IF lease[c].owner = opening[o].fence THEN NoLease ELSE lease[c]
<1>1. c \in Customers
  BY OwnerAssumption
<1>2. p \in Operation /\ l \in Lease /\ (l.owner = 0 <=> l.expires = 0)
  BY <1>1, SameAt DEF Operation
<1>3. op' = [op EXCEPT ![c] = p]
  BY <1>1, SameAt DEF Finish, FinishedOp, Operation
<1>4. lease' = [lease EXCEPT ![c] = l] /\ UNCHANGED <<slot, reviews>>
  BY <1>1, SameAt DEF Finish, FinishedLease
<1>5. Writes(c, slot[c], p, l, reviews[c])
  BY <1>1, <1>3, <1>4, SameAt DEF Writes
<1> HIDE DEF p, l, c
<1>6. PortalOK' /\ OnlyAt(c) /\ slot'[c] = slot[c] /\ op'[c] = p
      /\ lease'[c] = l /\ reviews'[c] = reviews[c]
  BY <1>1, <1>2, <1>3, <1>4, <1>5, SameAt, WriteAt
<1> QED
  BY <1>6 DEF c, p, l

LEMMA ConflictEffect ==
    ASSUME TypeOK, NEW o \in Openings, Conflict(o)
    PROVE  LET c == Owner[o] IN
           /\ PortalOK' /\ OnlyAt(c)
           /\ slot'[c] = [slot[c] EXCEPT !.binding = "conflict"]
           /\ op'[c] = [op[c] EXCEPT !.state = "manual_review", !.fence = NewFence(c)]
           /\ lease'[c] = lease[c]
           /\ \E review \in Reviews \ {"unknown"} :
                 /\ reviews'[c] = reviews[c] \cup {review}
                 /\ review = "key" => OriginalId(o) /\ Recoverable(c)
<1> DEFINE c == Owner[o]
           s == [slot[c] EXCEPT !.binding = "conflict"]
           p == [op[c] EXCEPT !.state = "manual_review", !.fence = NewFence(c)]
<1>1. c \in Customers
  BY OwnerAssumption
<1>2. PICK review \in Reviews \ {"unknown"} :
        /\ slot' = [slot EXCEPT ![c].binding = "conflict"]
        /\ op' = [op EXCEPT ![c].state = "manual_review", ![c].fence = NewFence(c)]
        /\ reviews' = [reviews EXCEPT ![c] = @ \cup {review}]
        /\ lease' = lease
        /\ review = "key" => OriginalId(o) /\ Recoverable(c)
  BY DEF Conflict, RecordConflict, OpInConflict
<1> DEFINE r == reviews[c] \cup {review}
<1>a. slot[c] \in Slot /\ op[c] \in Operation /\ NewFence(c) \in Nat
      /\ reviews[c] \in SUBSET Reviews
  BY <1>1, SameAt
<1>b. op \in [Customers -> Operation] /\ slot \in [Customers -> Slot]
  BY DEF TypeOK
<1>3. s \in Slot /\ p \in Operation /\ r \in SUBSET Reviews
  BY <1>a DEF Slot, Operation
<1>4. slot' = [slot EXCEPT ![c] = s] /\ op' = [op EXCEPT ![c] = p]
  <2>1. slot' = [slot EXCEPT ![c] = s]
    BY <1>1, <1>2, <1>b DEF Slot
  <2>2. op' = [op EXCEPT ![c] = p]
    BY <1>1, <1>2, <1>a, <1>b DEF Operation
  <2> QED
    BY <2>1, <2>2
<1>5. reviews' = [reviews EXCEPT ![c] = r]
  BY <1>1, <1>2 DEF TypeOK
<1>6. Writes(c, s, p, lease[c], r)
  BY <1>1, <1>2, <1>4, <1>5, SameAt DEF Writes
<1> HIDE DEF s, p, r, c
<1>7. PortalOK' /\ OnlyAt(c) /\ slot'[c] = s /\ op'[c] = p
      /\ lease'[c] = lease[c] /\ reviews'[c] = r
  BY <1>1, <1>2, <1>3, <1>4, <1>5, <1>6, SameAt, WriteAt
<1> QED
  BY <1>2, <1>7 DEF c, s, p, r

LEMMA ProofEffect ==
    ASSUME TypeOK, CandidateInHand, NEW o \in Openings, Proof(o)
    PROVE  LET c == Owner[o]
               i == opening[o].id
               f == IF AlreadyBound(o) THEN op[c].fence ELSE NewFence(c) IN
           /\ PortalOK' /\ OnlyAt(c) /\ i \in Ids /\ f \in Nat
           /\ slot'[c] = [binding |-> "bound", id |-> i]
           /\ op'[c] = [op[c] EXCEPT !.state = "bound", !.bound = i, !.fence = f]
           /\ lease'[c] = NoLease /\ reviews'[c] = {}
<1> DEFINE c == Owner[o]
           i == opening[o].id
           f == IF AlreadyBound(o) THEN op[c].fence ELSE NewFence(c)
           s == [binding |-> "bound", id |-> i]
           p == [op[c] EXCEPT !.state = "bound", !.bound = i, !.fence = f]
<1>1. c \in Customers /\ i \in Ids
  BY OwnerAssumption DEF CandidateInHand, Proof, At, TypeOK, Opening, MaybeId
<1>2. f \in Nat
  BY <1>1, SameAt DEF Operation
<1>3. op' = [op EXCEPT ![c].state = "bound", ![c].bound = i, ![c].fence = f]
      /\ slot' = [slot EXCEPT ![c] = s] /\ lease' = [lease EXCEPT ![c] = NoLease]
      /\ reviews' = [reviews EXCEPT ![c] = {}]
  BY DEF Proof, Bind
<1> HIDE DEF f
<1>a. op[c] \in Operation /\ op \in [Customers -> Operation]
  BY <1>1 DEF TypeOK
<1>4. s \in Slot /\ p \in Operation
  BY <1>1, <1>2, <1>a DEF Slot, Operation, MaybeId
<1>5. op' = [op EXCEPT ![c] = p]
  BY <1>1, <1>3, <1>a DEF Operation
<1>6. {} \in SUBSET Reviews
  OBVIOUS
<1>7. Writes(c, s, p, NoLease, {})
  BY <1>1, <1>3, <1>5, SameAt DEF Writes
<1> HIDE DEF s, p, c, i
<1>8. PortalOK' /\ OnlyAt(c) /\ slot'[c] = s /\ op'[c] = p
      /\ lease'[c] = NoLease /\ reviews'[c] = {}
  BY <1>1, <1>3, <1>4, <1>5, <1>6, <1>7, SameAt, WriteAt
<1> QED
  BY <1>1, <1>2, <1>8 DEF c, s, p, f, i

\* Refused transactions write nothing.
LEMMA NoEffect ==
    ASSUME NEW o \in Openings,
           \/ Claim(o) /\ ~(Admitted(Owner[o]) /\ MayClaim(o))
           \/ Release(o) /\ ~ReleaseAccepted(o)
           \/ Finish(o) /\ ~Current(o)
    PROVE  UNCHANGED portal
BY DEF Claim, Release, Finish, portal

LEMMA PortalTypes ==
    ASSUME TypeOK, CandidateInHand, NEW o \in Openings,
           Reserve(o) \/ Claim(o) \/ RecordReceipt(o) \/ Release(o) \/ Finish(o)
             \/ Conflict(o) \/ Proof(o)
    PROVE  PortalOK'
<1>1. UNCHANGED portal => PortalOK'
  BY DEF TypeOK, PortalOK, portal
<1> QED
  BY <1>1, ReserveEffect, ClaimEffect, ReceiptEffect, ReleaseEffect, FinishEffect,
     ConflictEffect, ProofEffect, NoEffect

LEMMA TypeStep ==
    ASSUME TypeOK, CandidateInHand, [Next]_vars
    PROVE  TypeOK'
<1>1. ASSUME NEW o \in Openings, Move(o),
             UNCHANGED <<clock, users, rekeys>>,
             posts' \in SUBSET [fence : Nat, customer : Customers],
             PortalOK'
      PROVE  TypeOK'
  BY <1>1, MoveFacts DEF TypeOK, PortalOK
<1>2. ASSUME UNCHANGED <<portal, posts>>
      PROVE  PortalOK' /\ posts' \in SUBSET [fence : Nat, customer : Customers]
  BY <1>2 DEF TypeOK, PortalOK, portal
<1>3. ASSUME NEW o \in Openings, NEW new \in Opening,
             opening' = [opening EXCEPT ![o] = new],
             new.first = -1 => new.pc \in {"idle", "reserve"} \cup Ended
      PROVE  /\ opening' \in [Openings -> Opening]
             /\ \A q \in Openings :
                   opening'[q].first = -1 => opening'[q].pc \in {"idle", "reserve"} \cup Ended
  BY <1>3 DEF TypeOK
<1>4. CASE \E o \in Openings : Quiet(o) \/ Refusal(o)
  <2>1. PICK o \in Openings : Quiet(o) \/ Refusal(o)
    BY <1>4
  <2>2. Move(o)
    BY <2>1, QuietMoves, RefusalMoves
  <2>3. UNCHANGED <<clock, portal, remote>>
    BY <2>1, QuietMoves DEF Refusal
  <2> QED
    BY <1>1, <1>2, <2>2, <2>3 DEF remote
<1>5. CASE \E o \in Openings : RecordReceipt(o) \/ Release(o) \/ Finish(o) \/ Conflict(o)
  <2>1. PICK o \in Openings : RecordReceipt(o) \/ Release(o) \/ Finish(o) \/ Conflict(o)
    BY <1>5
  <2>2. UNCHANGED <<clock, remote>>
    BY <2>1 DEF RecordReceipt, Release, Finish, Conflict
  <2>3. PortalOK'
    BY <2>1, PortalTypes
  <2>4. Move(o)
    BY <2>1, RecordReceiptMoves, ReleaseMoves, FinishMoves, RefusalMoves
  <2> QED
    BY <1>1, <2>2, <2>3, <2>4 DEF remote, TypeOK
<1>6. CASE \E o \in Openings : Dispatch(o)
  <2>1. PICK o \in Openings : Dispatch(o)
    BY <1>6
  <2>2. posts' \in SUBSET [fence : Nat, customer : Customers]
    BY <2>1, OwnerAssumption DEF Dispatch, TypeOK, Opening
  <2> QED
    BY <1>1, <2>1, <2>2, DispatchMoves DEF Dispatch, TypeOK, PortalOK, portal
<1>7. CASE \E o \in Openings : Open(o)
  <2>1. PICK o \in Openings : Open(o)
    BY <1>7
  <2>2. UNCHANGED <<portal, remote>>
    BY <2>1 DEF Open
  <2>3. Move(o)
    BY <2>1, OpenMoves
  <2> QED
    BY <1>1, <1>2, <2>1, <2>2, <2>3 DEF Open, remote
<1>8. CASE \E o \in Openings : Reserve(o)
  <2>1. PICK o \in Openings : Reserve(o)
    BY <1>8
  <2>2. UNCHANGED <<clock, remote>>
    BY <2>1 DEF Reserve
  <2>3. PortalOK' /\ Move(o)
    BY <2>1, PortalTypes, ReserveMoves
  <2> QED
    BY <1>1, <2>2, <2>3 DEF remote, TypeOK
<1>9. CASE \E o \in Openings : Claim(o)
  <2>1. PICK o \in Openings : Claim(o)
    BY <1>9
  <2> DEFINE c == Owner[o]
             new == [opening[o] EXCEPT !.pc = "send", !.fence = NewFence(c)]
  <2>2. opening[o].first # -1 /\ opening[o].pc \in Running /\ opening[o] \in Opening
    BY <2>1, Started DEF Claim, At, Running, Local
  <2>3. CASE Wait(o) \/ End(o, "refused")
    BY <1>1, <2>1, <2>2, <2>3, PortalTypes, WaitMoves, EndMoves
    DEF Claim, remote, TypeOK, Ended
  <2>4. CASE opening' = [opening EXCEPT ![o].pc = "send", ![o].fence = NewFence(c)]
    <3>1. NewFence(c) \in Nat
      BY OwnerAssumption DEF NewFence, TypeOK, Operation
    <3>2. new \in Opening /\ new.first # -1
      BY <2>2, <3>1 DEF Opening, Running, Local
    <3>3. opening' = [opening EXCEPT ![o] = new]
      BY <2>2, <2>4 DEF Opening
    <3> HIDE DEF new
    <3> QED
      BY <1>3, <2>1, <3>2, <3>3, PortalTypes DEF Claim, remote, TypeOK, PortalOK
  <2> QED
    BY <2>1, <2>3, <2>4 DEF Claim
<1>10. CASE \E o \in Openings : Proof(o)
  <2>1. PICK o \in Openings : Proof(o)
    BY <1>10
  <2> DEFINE c == Owner[o]
  <2>2. PICK f \in Nat :
          opening' = [opening EXCEPT ![o].pc = "client", ![o].fence = f,
                        ![o].saved = opening[o].id, ![o].id = NoId, ![o].key = NoKey]
    BY <2>1, ProofEffect DEF Proof, Bind
  <2> DEFINE new == [opening[o] EXCEPT !.pc = "client", !.fence = f,
                       !.saved = opening[o].id, !.id = NoId, !.key = NoKey]
  <2>3. opening[o].first # -1 /\ opening[o] \in Opening
    BY <2>1, Started DEF Proof, At, Running, Local
  <2>4. new \in Opening /\ new.first # -1
    BY <2>3 DEF Opening, Running, Remote, MaybeId, Keys
  <2>5. opening' = [opening EXCEPT ![o] = new]
    BY <2>2, <2>3 DEF Opening
  <2> HIDE DEF new
  <2> QED
    BY <1>3, <2>1, <2>4, <2>5, PortalTypes DEF Proof, remote, TypeOK, PortalOK
<1>11. CASE \E c \in Customers : Escalate(c)
  <2>1. PICK c \in Customers : Escalate(c)
    BY <1>11
  <2>2. op' \in [Customers -> Operation]
    BY <2>1 DEF Escalate, TypeOK, Operation
  <2>3. reviews' \in [Customers -> SUBSET Reviews]
    BY <2>1 DEF Escalate, TypeOK, Reviews
  <2> QED
    BY <2>1, <2>2, <2>3 DEF Escalate, TypeOK, remote
<1>12. CASE \E p \in posts : ProviderCreates(p) \/ ProviderRefuses(p)
  <2>1. PICK p \in posts : ProviderCreates(p) \/ ProviderRefuses(p)
    BY <1>12
  <2>2. p.customer \in Customers /\ posts' \in SUBSET [fence : Nat, customer : Customers]
    BY <2>1 DEF ProviderCreates, ProviderRefuses, TypeOK
  <2>3. UNCHANGED opening \/ \E o \in Openings : Move(o)
    BY <2>1, AnswerMoves DEF ProviderCreates, ProviderRefuses, MaybeId
  <2>4. /\ opening' \in [Openings -> Opening]
        /\ \A q \in Openings :
              opening'[q].first = -1 => opening'[q].pc \in {"idle", "reserve"} \cup Ended
    BY <2>3, MoveFacts DEF TypeOK
  <2>5. users' \in [Ids -> [live : BOOLEAN, key : Keys, email : Customers]]
    <3>1. [live |-> TRUE, key |-> p.customer, email |-> p.customer]
            \in [live : BOOLEAN, key : Keys, email : Customers]
      BY <2>2 DEF Keys
    <3> QED
      BY <2>1, <3>1 DEF ProviderCreates, ProviderRefuses, TypeOK
  <2> QED
    BY <2>1, <2>2, <2>4, <2>5 DEF ProviderCreates, ProviderRefuses, TypeOK, portal
<1>13. CASE \E i \in Ids : Rekey(i)
  BY <1>13, BoundAssumption DEF Rekey, TypeOK, portal, Keys
<1>14. CASE Tick
  BY <1>14, TimeAssumption DEF Tick, TypeOK, portal, remote
<1>15. CASE UNCHANGED vars
  BY <1>15 DEF vars, portal, remote, TypeOK
<1> QED
  BY <1>4, <1>5, <1>6, <1>7, <1>8, <1>9, <1>10, <1>11, <1>12, <1>13, <1>14, <1>15,
     Cases

-----------------------------------------------------------------------------
(* Sends *)

\* A step that moves at most one opening, or none, and does not touch what the
\* sends are about.
LEMMA StillKeepsSends ==
    ASSUME TypeOK, SendInv, CandidateInHand, UNCHANGED <<clock, opening>>,
           op' \in [Customers -> Operation],
           \A c \in Customers :
              /\ op'[c].fence = op[c].fence /\ op'[c].deadline = op[c].deadline
              /\ op'[c].state = op[c].state
              /\ lease'[c] = lease[c] /\ slot'[c].id = slot[c].id
    PROVE  SendInv' /\ CandidateInHand'
<1>1. \A o \in Openings : Owner[o] \in Customers
  BY OwnerAssumption
<1> QED
  BY <1>1
  DEF SendInv, CandidateInHand, FencesBehind, InTime, DistinctSends, PostingOwnsLease,
      OnePosting, ClaimOwnsLease, CurrentSend, PostingIsCurrent, InAttempt, Posting,
      Current, At

LEMMA ClaimSends ==
    ASSUME IInv, TypeOK', NEW o \in Openings, Claim(o),
           Admitted(Owner[o]), MayClaim(o)
    PROVE  SendInv' /\ CandidateInHand'
<1> DEFINE c == Owner[o]
<1>1. /\ c \in Customers /\ OnlyAt(c) /\ clock' = clock
      /\ slot'[c] = slot[c] /\ slot[c].id = NoId /\ lease[c].expires <= clock
      /\ op'[c].fence = op[c].fence + 1 /\ op'[c].state = "possible_send"
      /\ op'[c].deadline = clock + Window
      /\ lease'[c].owner = op[c].fence + 1 /\ lease'[c].expires = clock + Total + Cleanup
  <2>1. slot[c].id = NoId /\ lease[c].expires <= clock
    BY OwnerAssumption DEF MayClaim, Saved, LeaseActive, IInv, TypeOK, Lease
  <2>2. TypeOK /\ c \in Customers
    BY OwnerAssumption DEF IInv
  <2>3. op[c] \in Operation
    BY <2>2 DEF TypeOK
  <2>4. /\ OnlyAt(c) /\ slot'[c] = slot[c]
        /\ op'[c] = [op[c] EXCEPT !.fence = NewFence(c), !.state = "possible_send",
                                  !.deadline = clock + Window]
        /\ lease'[c] = [owner |-> NewFence(c), expires |-> LeaseEnd]
    BY <2>2, ClaimEffect
  <2>5. clock' = clock
    BY DEF Claim
  <2> QED
    BY <2>1, <2>2, <2>3, <2>4, <2>5 DEF NewFence, LeaseEnd, Operation
<1>2. /\ \A q \in Openings : q # o => opening'[q] = opening[q]
      /\ opening'[o].pc = "send" /\ opening'[o].fence = op[c].fence + 1
      /\ opening'[o].first = opening[o].first /\ opening'[o].deadline = opening[o].deadline
      /\ opening[o].pc = "claim"
  BY DEF IInv, Claim, At, NewFence, TypeOK, Opening
<1>3. \A q \in Openings : /\ opening[q] \in Opening /\ opening'[q] \in Opening
                          /\ Owner[q] \in Customers /\ op[Owner[q]] \in Operation
                          /\ op'[Owner[q]] \in Operation
                          /\ lease[Owner[q]] \in Lease
  BY OwnerAssumption DEF IInv, TypeOK
<1>4. clock \in Nat /\ opening[o].deadline <= clock + Total
      /\ clock <= opening[o].deadline + Slack
  BY <1>2 DEF IInv, TypeOK, SendInv, InTime, Running, Local
<1>5. \A q \in Openings : opening[q].fence <= op[Owner[q]].fence
                          /\ opening[q].first <= op[Owner[q]].fence
  BY DEF IInv, SendInv, FencesBehind
<1>6. \A q \in Openings : q # o /\ Owner[q] = c => ~Posting(q)
  BY <1>1, <1>3, <1>4, TimeAssumption DEF IInv, SendInv, PostingOwnsLease, Posting, Lease, Opening
<1>7. FencesBehind'
  BY <1>1, <1>2, <1>3, <1>5 DEF FencesBehind, OnlyAt, Operation, Opening
<1>8. InTime'
  BY <1>1, <1>2, <1>4 DEF IInv, SendInv, InTime, At, Running, Local
<1>9. DistinctSends'
  BY <1>1, <1>2, <1>3, <1>5 DEF IInv, SendInv, DistinctSends, InAttempt, Opening, Operation
<1>10. PostingOwnsLease'
  BY <1>1, <1>2, <1>3, <1>4, <1>6, TimeAssumption
  DEF IInv, SendInv, PostingOwnsLease, Posting, OnlyAt, Opening
<1>11. OnePosting'
  BY <1>1, <1>2, <1>6 DEF IInv, SendInv, OnePosting, Posting
<1>12. ClaimOwnsLease'
  BY <1>1 DEF IInv, SendInv, ClaimOwnsLease, OnlyAt
<1>13. CurrentSend'
  BY <1>1, <1>2, <1>3, <1>4, <1>5, TimeAssumption
  DEF IInv, SendInv, CurrentSend, Current, InAttempt, OnlyAt, Opening, Operation
<1>14. PostingIsCurrent'
  BY <1>1, <1>2, <1>3, <1>6
  DEF IInv, SendInv, PostingIsCurrent, Posting, Current, OnlyAt
<1>15. CandidateInHand'
  BY <1>2 DEF IInv, IdentityInv, CandidateInHand
<1> QED
  BY <1>7, <1>8, <1>9, <1>10, <1>11, <1>12, <1>13, <1>14, <1>15 DEF SendInv

LEMMA ReleaseSends ==
    ASSUME IInv, TypeOK', NEW o \in Openings, Release(o), ReleaseAccepted(o)
    PROVE  SendInv' /\ CandidateInHand'
<1> DEFINE c == Owner[o]
<1>1. TypeOK /\ SendInv /\ CandidateInHand /\ c \in Customers /\ op[c] \in Operation
  BY OwnerAssumption DEF IInv, IdentityInv, TypeOK
<1>2. /\ OnlyAt(c) /\ slot'[c] = slot[c] /\ op'[c].state = "pending"
      /\ op'[c].fence = op[c].fence + 1 /\ clock' = clock
  BY <1>1, ReleaseEffect DEF Release, NewFence, Operation
<1>3. /\ Current(o) /\ op[c].state = "possible_send" /\ opening[o].pc = "release"
      /\ lease[c].owner = op[c].fence
  BY <1>1 DEF Release, ReleaseAccepted, At, SendInv, ClaimOwnsLease
<1>4. /\ \A q \in Openings : q # o => opening'[q] = opening[q]
      /\ MoveTo(o, opening'[o])
  BY <1>1, ReleaseMoves, MoveFacts
<1>5. opening'[o].pc \notin {"send", "await"}
  BY <1>3, <1>4 DEF MoveTo
<1>6. \A q \in Openings : /\ opening[q] \in Opening /\ opening'[q] \in Opening
                          /\ Owner[q] \in Customers /\ op[Owner[q]] \in Operation
                          /\ op'[Owner[q]] \in Operation
  BY OwnerAssumption DEF IInv, TypeOK
<1>7. OpeningsInv'
  <2>1. \A d \in Customers : op'[d].fence >= op[d].fence
    BY <1>1, <1>2, Rows DEF OnlyAt
  <2>2. op' \in [Customers -> Operation]
    BY DEF TypeOK
  <2> QED
    BY <1>1, <1>2, <2>1, <2>2, ReleaseMoves, MoveKeepsOpenings DEF OpeningsInv, SendInv
<1>8. \A q \in Openings : q # o /\ Owner[q] = c /\ InAttempt(q) => opening[q].fence # op[c].fence
  BY <1>1, <1>3 DEF SendInv, DistinctSends, InAttempt, Current, Sending
<1>9. \A q \in Openings : FencesBehind => opening[q].fence <= op[Owner[q]].fence
  BY DEF FencesBehind
<1>10. PostingOwnsLease'
  BY <1>1, <1>2, <1>3, <1>4, <1>5, <1>6, <1>8
  DEF SendInv, PostingOwnsLease, Posting, InAttempt, Sending, OnlyAt
<1>11. ClaimOwnsLease'
  BY <1>1, <1>2 DEF SendInv, ClaimOwnsLease, OnlyAt
<1>12. CurrentSend'
  BY <1>1, <1>2, <1>3, <1>4, <1>6, <1>9
  DEF SendInv, CurrentSend, Current, InAttempt, OnlyAt, MoveTo, Opening, Operation
<1>13. PostingIsCurrent'
  BY <1>1, <1>2, <1>3, <1>4, <1>5, <1>6, <1>8
  DEF SendInv, PostingIsCurrent, Posting, InAttempt, Sending, Current, OnlyAt
<1> QED
  BY <1>7, <1>10, <1>11, <1>12, <1>13 DEF SendInv, OpeningsInv

LEMMA FinishSends ==
    ASSUME IInv, TypeOK', NEW o \in Openings, Finish(o), Current(o)
    PROVE  SendInv' /\ CandidateInHand'
<1> DEFINE c == Owner[o]
<1>1. TypeOK /\ SendInv /\ CandidateInHand /\ c \in Customers /\ op[c] \in Operation
  BY OwnerAssumption DEF IInv, IdentityInv, TypeOK
<1>2. opening[o].pc = "finish" /\ InAttempt(o)
  BY DEF Finish, At, InAttempt, Sending
<1>3. op[c].state = "possible_send" /\ lease[c].owner = op[c].fence /\ slot[c].id = NoId
  <2>1. op[c].state = "possible_send"
    BY <1>1, <1>2 DEF SendInv, CurrentSend
  <2>2. slot[c].id = NoId
    BY <1>1, <2>1, Rows DEF IInv, IdentityInv, BindingState, BindingRow
  <2> QED
    BY <1>1, <2>1, <2>2 DEF SendInv, ClaimOwnsLease
<1>4. /\ OnlyAt(c) /\ slot'[c] = slot[c] /\ op'[c].state = "unknown"
      /\ op'[c].fence = op[c].fence + 1 /\ clock' = clock
  BY <1>1, <1>3, FinishEffect DEF Finish, Outstanding, NewFence, Operation
<1>5. /\ \A q \in Openings : q # o => opening'[q] = opening[q]
      /\ MoveTo(o, opening'[o])
  BY <1>1, FinishMoves, MoveFacts
<1>6. opening'[o].pc \notin {"send", "await"}
  BY <1>2, <1>5 DEF MoveTo
<1>7. \A q \in Openings : /\ opening[q] \in Opening /\ opening'[q] \in Opening
                          /\ Owner[q] \in Customers /\ op[Owner[q]] \in Operation
                          /\ op'[Owner[q]] \in Operation
  BY OwnerAssumption DEF IInv, TypeOK
<1>8. OpeningsInv'
  <2>1. \A d \in Customers : op'[d].fence >= op[d].fence
    BY <1>1, <1>4, Rows DEF OnlyAt
  <2>2. op' \in [Customers -> Operation]
    BY DEF TypeOK
  <2> QED
    BY <1>1, <1>4, <2>1, <2>2, FinishMoves, MoveKeepsOpenings DEF OpeningsInv, SendInv
<1>9. \A q \in Openings : q # o /\ Owner[q] = c /\ InAttempt(q) => opening[q].fence # op[c].fence
  BY <1>1, <1>2 DEF SendInv, DistinctSends, InAttempt, Current
<1>10. \A q \in Openings : FencesBehind => opening[q].fence <= op[Owner[q]].fence
  BY DEF FencesBehind
<1>11. PostingOwnsLease'
  BY <1>1, <1>3, <1>4, <1>5, <1>6, <1>7, <1>9
  DEF SendInv, PostingOwnsLease, Posting, InAttempt, Sending, OnlyAt
<1>12. ClaimOwnsLease'
  BY <1>1, <1>4 DEF SendInv, ClaimOwnsLease, OnlyAt
<1>13. CurrentSend'
  BY <1>1, <1>4, <1>5, <1>7, <1>10
  DEF SendInv, CurrentSend, Current, InAttempt, OnlyAt, MoveTo, Opening, Operation
<1>14. PostingIsCurrent'
  BY <1>1, <1>3, <1>4, <1>5, <1>6, <1>7, <1>9
  DEF SendInv, PostingIsCurrent, Posting, InAttempt, Sending, Current, OnlyAt
<1> QED
  BY <1>8, <1>11, <1>12, <1>13, <1>14 DEF SendInv, OpeningsInv

\* A conflict or a proof settles the operation: no attempt is current any more.
LEMMA SettleSends ==
    ASSUME IInv, TypeOK', NEW o \in Openings, Conflict(o) \/ Proof(o)
    PROVE  SendInv' /\ CandidateInHand'
<1> DEFINE c == Owner[o]
           new == opening'[o]
<1>1. TypeOK /\ SendInv /\ CandidateInHand /\ c \in Customers /\ op[c] \in Operation
      /\ slot[c] \in Slot
  BY OwnerAssumption DEF IInv, IdentityInv, TypeOK
<1>2. /\ OnlyAt(c) /\ clock' = clock
      /\ op'[c].state \in {"bound", "manual_review"}
      /\ op'[c].fence > op[c].fence \/ (op'[c].fence = op[c].fence /\ op[c].state = "bound")
      /\ \/ slot'[c].id # NoId
         \/ slot'[c].id = slot[c].id /\ lease'[c] = lease[c]
  <2>1. CASE Conflict(o)
    <3>1. /\ OnlyAt(c) /\ lease'[c] = lease[c]
          /\ slot'[c] = [slot[c] EXCEPT !.binding = "conflict"]
          /\ op'[c] = [op[c] EXCEPT !.state = "manual_review", !.fence = NewFence(c)]
      BY <1>1, <2>1, ConflictEffect
    <3>2. op[c].fence \in Nat /\ NewFence(c) > op[c].fence
      BY <1>1, SameAt, Rows
    <3>3. clock' = clock
      BY <2>1 DEF Conflict
    <3>4. slot'[c].id = slot[c].id
      BY <1>1, <3>1 DEF Slot
    <3>5. op'[c].fence = NewFence(c) /\ op'[c].state = "manual_review"
      BY <1>1, <3>1 DEF Operation
    <3> QED
      BY <3>1, <3>2, <3>3, <3>4, <3>5
  <2>2. CASE Proof(o)
    <3>1. /\ op[c].fence \in Nat /\ NewFence(c) > op[c].fence
      BY <1>1, SameAt, Rows
    <3>2. /\ OnlyAt(c) /\ opening[o].id \in Ids
          /\ slot'[c] = [binding |-> "bound", id |-> opening[o].id]
          /\ op'[c] = [op[c] EXCEPT !.state = "bound", !.bound = opening[o].id,
                         !.fence = IF AlreadyBound(o) THEN op[c].fence ELSE NewFence(c)]
      BY <1>1, <2>2, ProofEffect
    <3>3. slot'[c].id # NoId
      BY <3>2, NullAssumption
    <3>4. clock' = clock
      BY <2>2 DEF Proof
    <3> QED
      BY <1>1, <3>1, <3>2, <3>3, <3>4 DEF AlreadyBound, Operation
  <2> QED
    BY <2>1, <2>2
<1>3. /\ \A q \in Openings : q # o => opening'[q] = opening[q]
      /\ new.pc \in Ended \cup {"client"}
      /\ new.pc = "client" => new.deadline = opening[o].deadline /\ opening[o].pc = "apply"
      /\ new.fence \in {0, op'[c].fence} /\ new.first \in {opening[o].first, -1}
  <2>1. CASE Conflict(o)
    BY <1>1, <2>1 DEF Conflict, End, NewOpening, Ended, TypeOK
  <2>2. CASE Proof(o)
    <3>1. opening[o] \in Opening
      BY <1>1 DEF TypeOK
    <3> DEFINE f == IF AlreadyBound(o) THEN op[c].fence ELSE NewFence(c)
    <3>2. op'[c].fence = f /\ f \in Nat
      BY <1>1, <2>2, ProofEffect DEF Operation
    <3>3. opening' = [opening EXCEPT ![o].pc = "client", ![o].fence = f,
                        ![o].saved = opening[o].id, ![o].id = NoId, ![o].key = NoKey]
      BY <2>2 DEF Proof, Bind
    <3> HIDE DEF f
    <3>4. /\ \A q \in Openings : q # o => opening'[q] = opening[q]
          /\ new = [opening[o] EXCEPT !.pc = "client", !.fence = f,
                      !.saved = opening[o].id, !.id = NoId, !.key = NoKey]
      BY <1>1, <3>1, <3>3 DEF TypeOK, Opening
    <3>5. /\ new.pc = "client" /\ new.fence = f /\ new.first = opening[o].first
          /\ new.deadline = opening[o].deadline
      BY <3>1, <3>4 DEF Opening
    <3> QED
      BY <2>2, <3>2, <3>4, <3>5 DEF Proof, At
  <2> QED
    BY <2>1, <2>2
<1>4. new.pc \notin Sending /\ new.pc \notin {"send", "await", "point", "apply", "receipt"}
  BY <1>3 DEF Ended, Sending
<1>5. \A q \in Openings : /\ opening[q] \in Opening /\ opening'[q] \in Opening
                          /\ Owner[q] \in Customers /\ op[Owner[q]] \in Operation
                          /\ op'[Owner[q]] \in Operation
  BY OwnerAssumption DEF IInv, TypeOK
<1>6. \A q \in Openings : /\ opening[q].fence <= op[Owner[q]].fence
                          /\ opening[q].first <= op[Owner[q]].fence
  BY <1>1 DEF SendInv, FencesBehind
<1>7. FencesBehind'
  BY <1>1, <1>2, <1>3, <1>5, <1>6 DEF FencesBehind, OnlyAt, Opening, Operation
<1>8. InTime'
  BY <1>1, <1>2, <1>3, <1>4, TimeAssumption
  DEF SendInv, InTime, At, Running, Remote, Local, Ended
<1>9. DistinctSends'
  BY <1>1, <1>3, <1>4 DEF SendInv, DistinctSends, InAttempt
<1>10. PostingOwnsLease'
  BY <1>1, <1>2, <1>3, <1>4, <1>5 DEF SendInv, PostingOwnsLease, Posting, OnlyAt
<1>11. OnePosting'
  BY <1>1, <1>2, <1>3, <1>4 DEF SendInv, OnePosting, Posting
<1>12. ClaimOwnsLease'
  BY <1>1, <1>2 DEF SendInv, ClaimOwnsLease, OnlyAt
<1>13. CurrentSend'
  <2>1. \A q \in Openings : InAttempt(q)' => q # o /\ InAttempt(q)
    BY <1>3, <1>4 DEF InAttempt
  <2>2. \A q \in Openings : InAttempt(q)' /\ Current(q)' => Owner[q] # c
    BY <1>1, <1>2, <1>3, <1>5, <1>6, <2>1
    DEF SendInv, CurrentSend, Current, Opening, Operation
  <2> QED
    BY <1>1, <1>2, <1>3, <1>5, <2>1, <2>2 DEF SendInv, CurrentSend, Current, OnlyAt
<1>14. PostingIsCurrent'
  BY <1>1, <1>2, <1>3, <1>4, <1>5 DEF SendInv, PostingIsCurrent, Posting, Current, OnlyAt
<1>15. CandidateInHand'
  BY <1>1, <1>3, <1>4 DEF CandidateInHand
<1> QED
  BY <1>7, <1>8, <1>9, <1>10, <1>11, <1>12, <1>13, <1>14, <1>15 DEF SendInv

\* No attempt in progress is overdue: its deadline is far ahead.
LEMMA EscalateSends ==
    ASSUME IInv, TypeOK', NEW c \in Customers, Escalate(c)
    PROVE  SendInv' /\ CandidateInHand'
<1>1. TypeOK /\ SendInv /\ CandidateInHand
  BY DEF IInv, IdentityInv
<1>2. /\ \A d \in Customers : d # c => op'[d] = op[d]
      /\ op'[c] = [op[c] EXCEPT !.state = "manual_review"]
      /\ op[c] \in Operation /\ op[c].deadline <= clock /\ clock \in Nat
      /\ UNCHANGED <<clock, slot, lease, opening>>
  BY <1>1 DEF Escalate, Overdue, TypeOK
<1>3. /\ op'[c].fence = op[c].fence /\ op'[c].deadline = op[c].deadline
      /\ op'[c].state = "manual_review"
  BY <1>2 DEF Operation
<1>4. \A q \in Openings : /\ opening[q] \in Opening /\ Owner[q] \in Customers
                          /\ op[Owner[q]] \in Operation
  BY <1>1, OwnerAssumption DEF TypeOK
<1>5. \A q \in Openings : InAttempt(q) /\ Current(q) => Owner[q] # c
  BY <1>1, <1>2, <1>4, TimeAssumption
  DEF SendInv, CurrentSend, InTime, InAttempt, Sending, Running, Remote, Local,
      Opening, Operation
<1>6. \A q \in Openings : op'[Owner[q]].fence = op[Owner[q]].fence
  BY <1>2, <1>3, <1>4
<1>7. FencesBehind' /\ InTime' /\ DistinctSends' /\ OnePosting' /\ CandidateInHand'
  BY <1>1, <1>2, <1>6
  DEF SendInv, FencesBehind, InTime, DistinctSends, OnePosting, CandidateInHand,
      InAttempt, Posting, At
<1>8. PostingOwnsLease'
  BY <1>1, <1>2 DEF SendInv, PostingOwnsLease, Posting
<1>9. ClaimOwnsLease'
  BY <1>1, <1>2, <1>3 DEF SendInv, ClaimOwnsLease
<1>10. CurrentSend'
  BY <1>1, <1>2, <1>4, <1>5, <1>6 DEF SendInv, CurrentSend, InAttempt, Current
<1>11. PostingIsCurrent'
  BY <1>1, <1>2, <1>3, <1>4, <1>6 DEF SendInv, PostingIsCurrent, Posting, Current
<1> QED
  BY <1>7, <1>8, <1>9, <1>10, <1>11 DEF SendInv

LEMMA TickSends ==
    ASSUME IInv, Tick
    PROVE  SendInv' /\ CandidateInHand'
<1>1. TypeOK /\ SendInv /\ CandidateInHand
  BY DEF IInv, IdentityInv
<1>2. /\ clock \in Nat /\ clock' = clock + 1 /\ UNCHANGED <<slot, op, lease, opening>>
      /\ \A o \in Openings :
            /\ opening[o].pc \in Remote => clock < opening[o].deadline
            /\ opening[o].pc \in Local => clock < opening[o].deadline + Slack
  BY <1>1 DEF Tick, InBudget, portal, TypeOK
<1>3. \A o \in Openings : opening[o] \in Opening
  BY <1>1 DEF TypeOK
<1>4. InTime'
  BY <1>1, <1>2, <1>3, TimeAssumption
  DEF SendInv, InTime, At, Running, Remote, Opening
<1>5. \A o \in Openings : Posting(o)' => Posting(o)
  BY <1>2, <1>3, TimeAssumption DEF Posting, Opening
<1>6. PostingOwnsLease' /\ OnePosting' /\ PostingIsCurrent'
  BY <1>1, <1>2, <1>5
  DEF SendInv, PostingOwnsLease, OnePosting, PostingIsCurrent, Current
<1>7. FencesBehind' /\ DistinctSends' /\ ClaimOwnsLease' /\ CurrentSend' /\ CandidateInHand'
  BY <1>1, <1>2
  DEF SendInv, FencesBehind, DistinctSends, ClaimOwnsLease, CurrentSend, InAttempt, Current,
      CandidateInHand
<1> QED
  BY <1>4, <1>6, <1>7 DEF SendInv

LEMMA SendStep ==
    ASSUME IInv, TypeOK', [Next]_vars
    PROVE  SendInv' /\ CandidateInHand'
<1>1. TypeOK /\ SendInv /\ CandidateInHand /\ op' \in [Customers -> Operation]
  BY DEF IInv, IdentityInv, TypeOK
<1>2. UNCHANGED portal =>
        \A c \in Customers :
           /\ op'[c].fence = op[c].fence /\ op'[c].deadline = op[c].deadline
           /\ op'[c].state = op[c].state
           /\ lease'[c] = lease[c] /\ slot'[c].id = slot[c].id
  BY DEF portal
<1>3. ASSUME NEW o \in Openings, Move(o), UNCHANGED <<clock, portal>>
      PROVE  SendInv' /\ CandidateInHand'
  BY <1>1, <1>2, <1>3, MoveKeepsSends
<1>4. ASSUME UNCHANGED <<clock, portal, opening>>
      PROVE  SendInv' /\ CandidateInHand'
  BY <1>1, <1>2, <1>4, StillKeepsSends
<1>5. CASE \E o \in Openings : Quiet(o) \/ Refusal(o) \/ Open(o) \/ Dispatch(o)
  BY <1>1, <1>3, <1>5, QuietMoves, RefusalMoves, OpenMoves, DispatchMoves
  DEF Refusal, Open, Dispatch
<1>6. CASE \E o \in Openings : Reserve(o)
  <2>1. PICK o \in Openings : Reserve(o)
    BY <1>6
  <2> DEFINE c == Owner[o]
  <2>2. c \in Customers /\ op[c] \in Operation /\ slot[c] \in Slot
    BY <1>1, OwnerAssumption DEF TypeOK
  <2>3. /\ OnlyAt(c) /\ slot'[c].id = slot[c].id /\ lease'[c] = lease[c]
        /\ op'[c].fence = op[c].fence /\ op'[c].deadline = op[c].deadline
        /\ op'[c].state = op[c].state \/ (op[c].state = "none" /\ op'[c].state = "pending")
    BY <1>1, <2>1, <2>2, ReserveEffect DEF Slot, Operation
  <2>4. \A d \in Customers :
          /\ op'[d].fence = op[d].fence /\ op'[d].deadline = op[d].deadline
          /\ op'[d].state = op[d].state \/ (op[d].state = "none" /\ op'[d].state = "pending")
          /\ lease'[d] = lease[d] /\ slot'[d].id = slot[d].id
    BY <2>3 DEF OnlyAt
  <2> QED
    BY <1>1, <2>1, <2>4, ReserveMoves, MoveKeepsSends DEF Reserve
<1>7. CASE \E o \in Openings : RecordReceipt(o)
  <2>1. PICK o \in Openings : RecordReceipt(o)
    BY <1>7
  <2>2. \A d \in Customers :
          /\ op'[d].fence = op[d].fence /\ op'[d].deadline = op[d].deadline
          /\ op'[d].state = op[d].state
          /\ lease'[d] = lease[d] /\ slot'[d].id = slot[d].id
    BY <1>1, <2>1, ReceiptEffect DEF OnlyAt
  <2> QED
    BY <1>1, <2>1, <2>2, RecordReceiptMoves, MoveKeepsSends DEF RecordReceipt
<1>8. CASE \E o \in Openings : Claim(o)
  <2>1. PICK o \in Openings : Claim(o)
    BY <1>8
  <2>2. CASE Admitted(Owner[o]) /\ MayClaim(o)
    BY <2>1, <2>2, ClaimSends
  <2>3. CASE ~(Admitted(Owner[o]) /\ MayClaim(o))
    <3>1. Move(o)
      BY <1>1, <2>1, <2>3, Started, WaitMoves, EndMoves
      DEF Claim, At, Running, Local, Ended
    <3> QED
      BY <1>3, <2>1, <2>3, <3>1, NoEffect DEF Claim
  <2> QED
    BY <2>2, <2>3
<1>9. CASE \E o \in Openings : Release(o)
  BY <1>1, <1>3, <1>9, ReleaseSends, ReleaseMoves, NoEffect DEF Release
<1>10. CASE \E o \in Openings : Finish(o)
  BY <1>1, <1>3, <1>10, FinishSends, FinishMoves, NoEffect DEF Finish
<1>11. CASE \E o \in Openings : Conflict(o) \/ Proof(o)
  BY <1>11, SettleSends
<1>12. CASE \E c \in Customers : Escalate(c)
  BY <1>12, EscalateSends
<1>13. CASE \E p \in posts : ProviderCreates(p) \/ ProviderRefuses(p)
  <2>1. UNCHANGED opening \/ \E o \in Openings : Move(o)
    BY <1>1, <1>13, AnswerMoves DEF ProviderCreates, ProviderRefuses, MaybeId
  <2>2. UNCHANGED <<clock, portal>>
    BY <1>13 DEF ProviderCreates, ProviderRefuses
  <2> QED
    BY <1>3, <1>4, <2>1, <2>2
<1>14. CASE \E i \in Ids : Rekey(i)
  BY <1>4, <1>14 DEF Rekey
<1>15. CASE Tick
  BY <1>15, TickSends
<1>16. CASE UNCHANGED vars
  BY <1>4, <1>16 DEF vars
<1> QED
  BY <1>5, <1>6, <1>7, <1>8, <1>9, <1>10, <1>11, <1>12, <1>13, <1>14, <1>15, <1>16,
     Cases

-----------------------------------------------------------------------------
(* Identity *)

\* No step but a proof enters the steps that rest on a proof.
NoNewProof ==
    \A q \in Openings :
        opening'[q].pc \in {"client", "recheck"} =>
            /\ opening[q].pc \in {"client", "recheck"}
            /\ opening'[q].fence = opening[q].fence
            /\ opening'[q].saved = opening[q].saved

\* A point read in hand after the step was in hand before, or was made by it.
NoOldRead ==
    \A q \in Openings :
        opening'[q].pc = "apply" =>
            \/ opening[q].pc = "apply" /\ opening'[q] = opening[q]
            \/ /\ users[opening'[q].id].live
               /\ users[opening'[q].id].key = opening'[q].key

LEMMA MoveKeepsProofs ==
    ASSUME TypeOK, (\E o \in Openings : Move(o)) \/ UNCHANGED opening
    PROVE  NoNewProof /\ NoOldRead
<1>1. CASE \E o \in Openings : Move(o)
  <2>1. PICK o \in Openings : Move(o)
    BY <1>1
  <2>2. /\ \A q \in Openings : q # o => opening'[q] = opening[q]
        /\ MoveTo(o, opening'[o])
    BY <2>1, MoveFacts
  <2> QED
    BY <2>2 DEF NoNewProof, NoOldRead, MoveTo
<1>2. CASE UNCHANGED opening
  BY <1>2 DEF NoNewProof, NoOldRead
<1> QED
  BY <1>1, <1>2

\* The operation moves, the binding does not.
BindingStays ==
    \A c \in Customers :
        /\ slot'[c].id = slot[c].id /\ reviews'[c] = reviews[c]
        /\ \/ slot'[c] = slot[c]
           \/ {slot[c].binding, slot'[c].binding} \subseteq {"absent", "unbound"}
        /\ op'[c].bound = op[c].bound /\ op'[c].fence >= op[c].fence
        /\ \/ op'[c].state = op[c].state
           \/ slot[c].binding \in {"absent", "unbound"} /\ op'[c].state # "bound"

LEMMA StaysKeepsIdentity ==
    ASSUME IInv, TypeOK', NoNewProof, BindingStays
    PROVE  BindingState' /\ ProofStands' /\ NoSharedIdentity'
<1>1. \A q \in Openings : /\ Owner[q] \in Customers
                          /\ opening[q].fence <= op[Owner[q]].fence
                          /\ opening[q] \in Opening
  BY OwnerAssumption DEF IInv, TypeOK, SendInv, FencesBehind
<1>2. \A c \in Customers : op[c].fence \in Nat /\ op'[c].fence \in Nat
  BY DEF IInv, TypeOK, Operation
<1>3. BindingState'
  BY DEF IInv, IdentityInv, BindingState, BindingRow, BindingStays
<1>4. ProofStands'
  <2> SUFFICES ASSUME NEW q \in Openings,
                      opening'[q].pc \in {"client", "recheck"}, Current(q)'
               PROVE  LET c == Owner[q] IN
                      /\ slot'[c] = [binding |-> "bound", id |-> opening'[q].saved]
                      /\ op'[c].state = "bound" /\ reviews'[c] = {}
    BY DEF ProofStands
  <2> DEFINE c == Owner[q]
  <2>1. /\ opening[q].pc \in {"client", "recheck"}
        /\ opening'[q].fence = opening[q].fence /\ opening'[q].saved = opening[q].saved
    BY DEF NoNewProof
  <2>2. Current(q)
    BY <1>1, <1>2, <2>1 DEF Current, BindingStays, Opening
  <2>3. /\ slot[c] = [binding |-> "bound", id |-> opening[q].saved]
        /\ op[c].state = "bound" /\ reviews[c] = {}
    BY <2>1, <2>2 DEF IInv, IdentityInv, ProofStands
  <2>4. slot[c].binding = "bound"
    BY <2>3
  <2> QED
    BY <1>1, <2>1, <2>3, <2>4 DEF BindingStays
<1>5. NoSharedIdentity'
  BY DEF IInv, IdentityInv, NoSharedIdentity, BindingStays
<1> QED
  BY <1>3, <1>4, <1>5

\* The provider only gains users, unless somebody edits one.
LEMMA StaysKeepsReads ==
    ASSUME IInv, TypeOK', CandidateInHand', NoOldRead,
           \A c \in Customers : slot'[c].id = slot[c].id,
           rekeys' = rekeys, \A i \in Ids : users[i].live => users'[i] = users[i]
    PROVE  ReadIsTrue'
<1>1. \A q \in Openings : opening'[q].pc = "apply" => opening'[q].id \in Ids
  BY DEF TypeOK, Opening, MaybeId, CandidateInHand
<1>2. \A c \in Customers : slot[c].id # NoId => slot[c].id \in Ids
  BY Rows DEF IInv, MaybeId
<1> QED
  BY <1>1, <1>2 DEF IInv, IdentityInv, ReadIsTrue, NoOldRead, At

LEMMA ConflictIdentity ==
    ASSUME IInv, TypeOK', NEW o \in Openings, Conflict(o)
    PROVE  BindingState' /\ ProofStands' /\ NoSharedIdentity'
<1> DEFINE c == Owner[o]
<1>1. TypeOK /\ c \in Customers /\ slot[c] \in Slot /\ op[c] \in Operation
  BY OwnerAssumption DEF IInv, TypeOK
<1>2. /\ OnlyAt(c) /\ slot'[c] = [slot[c] EXCEPT !.binding = "conflict"]
      /\ op'[c] = [op[c] EXCEPT !.state = "manual_review", !.fence = NewFence(c)]
  BY <1>1, ConflictEffect
<1>3. /\ slot'[c].id = slot[c].id /\ slot'[c].binding = "conflict"
      /\ op'[c].state = "manual_review" /\ op'[c].bound = op[c].bound
      /\ op'[c].fence = NewFence(c) /\ NewFence(c) > op[c].fence /\ NewFence(c) \in Nat
  BY <1>1, <1>2, SameAt DEF Slot, Operation
<1>4. Move(o)
  BY <1>1, RefusalMoves
<1>5. NoNewProof
  BY <1>1, <1>4, MoveKeepsProofs
<1> HIDE DEF c
<1>6. BindingState'
  <2> SUFFICES ASSUME NEW d \in Customers PROVE BindingRow(d)'
    BY DEF BindingState
  <2>1. CASE d = c
    BY <1>3, <2>1 DEF IInv, IdentityInv, BindingState, BindingRow
  <2>2. CASE d # c
    BY <1>2, <2>2 DEF IInv, IdentityInv, BindingState, BindingRow, OnlyAt
  <2> QED
    BY <2>1, <2>2
<1>7. \A q \in Openings : /\ Owner[q] \in Customers
                          /\ opening[q].fence <= op[Owner[q]].fence
                          /\ opening[q] \in Opening
  BY OwnerAssumption DEF IInv, TypeOK, SendInv, FencesBehind
<1>8. ProofStands'
  <2>1. \A q \in Openings :
          opening'[q].pc \in {"client", "recheck"} /\ Current(q)' => Owner[q] # c
    BY <1>1, <1>3, <1>5, <1>7, Rows DEF NoNewProof, Current, Opening
  <2> SUFFICES ASSUME NEW q \in Openings,
                      opening'[q].pc \in {"client", "recheck"}, Current(q)'
               PROVE  /\ slot'[Owner[q]] = [binding |-> "bound", id |-> opening'[q].saved]
                      /\ op'[Owner[q]].state = "bound" /\ reviews'[Owner[q]] = {}
    BY DEF ProofStands
  <2>2. /\ slot'[Owner[q]] = slot[Owner[q]] /\ op'[Owner[q]] = op[Owner[q]]
        /\ reviews'[Owner[q]] = reviews[Owner[q]]
    BY <1>2, <1>7, <2>1 DEF OnlyAt
  <2>3. opening[q].pc \in {"client", "recheck"} /\ opening'[q].saved = opening[q].saved
        /\ Current(q)
    BY <1>5, <2>2 DEF NoNewProof, Current
  <2> QED
    BY <2>2, <2>3 DEF IInv, IdentityInv, ProofStands
<1>9. NoSharedIdentity'
  <2> SUFFICES ASSUME NEW d \in Customers PROVE slot'[d].id = slot[d].id
    BY DEF IInv, IdentityInv, NoSharedIdentity
  <2> QED
    BY <1>2, <1>3 DEF OnlyAt
<1> QED
  BY <1>6, <1>8, <1>9

LEMMA ProofIdentity ==
    ASSUME IInv, TypeOK', CandidateInHand', NEW o \in Openings, Proof(o)
    PROVE  BindingState' /\ ProofStands' /\ NoSharedIdentity' /\ ReadIsTrue'
<1> DEFINE c == Owner[o]
           i == opening[o].id
           f == IF AlreadyBound(o) THEN op[c].fence ELSE NewFence(c)
<1>1. TypeOK /\ CandidateInHand /\ c \in Customers /\ op[c] \in Operation
      /\ opening[o] \in Opening
  BY OwnerAssumption DEF IInv, IdentityInv, TypeOK
<1>2. /\ OnlyAt(c) /\ i \in Ids /\ f \in Nat
      /\ slot'[c] = [binding |-> "bound", id |-> i]
      /\ op'[c] = [op[c] EXCEPT !.state = "bound", !.bound = i, !.fence = f]
      /\ reviews'[c] = {}
  BY <1>1, ProofEffect
<1>3. /\ op'[c].state = "bound" /\ op'[c].bound = i /\ op'[c].fence = f
      /\ slot'[c].id = i /\ slot'[c].binding = "bound" /\ i # NoId
  BY <1>1, <1>2, NullAssumption DEF Operation
<1>4. opening' = [opening EXCEPT ![o].pc = "client", ![o].fence = f,
                    ![o].saved = i, ![o].id = NoId, ![o].key = NoKey]
  BY DEF Proof, Bind
<1>5. AlreadyBound(o) => /\ slot[c] = [binding |-> "bound", id |-> i]
                         /\ f = op[c].fence
  BY DEF AlreadyBound
<1>6. ~AlreadyBound(o) => f > op[c].fence
  BY <1>1, SameAt
<1>7. /\ \A j \in Customers \ {c} : slot[j].id # i
      /\ slot[c].id \in {NoId, i} /\ opening[o].key = c /\ opening[o].pc = "apply"
      /\ UNCHANGED <<clock, remote>>
  BY DEF Proof, BoundElsewhere, Contradicts, At
<1> HIDE DEF f, i, c
<1>8. /\ \A q \in Openings : q # o => opening'[q] = opening[q]
      /\ opening'[o].pc = "client" /\ opening'[o].fence = f /\ opening'[o].saved = i
  BY <1>1, <1>4 DEF TypeOK, Opening
<1>9. BindingState'
  <2> SUFFICES ASSUME NEW d \in Customers PROVE BindingRow(d)'
    BY DEF BindingState
  <2>1. CASE d = c
    BY <1>2, <1>3, <2>1 DEF BindingRow
  <2>2. CASE d # c
    BY <1>2, <2>2 DEF IInv, IdentityInv, BindingState, BindingRow, OnlyAt
  <2> QED
    BY <2>1, <2>2
<1>10. NoSharedIdentity'
  BY <1>2, <1>3, <1>7 DEF IInv, IdentityInv, NoSharedIdentity, OnlyAt
<1>11. ProofStands'
  <2> SUFFICES ASSUME NEW q \in Openings,
                      opening'[q].pc \in {"client", "recheck"}, Current(q)'
               PROVE  /\ slot'[Owner[q]] = [binding |-> "bound", id |-> opening'[q].saved]
                      /\ op'[Owner[q]].state = "bound" /\ reviews'[Owner[q]] = {}
    BY DEF ProofStands
  <2>1. CASE q = o
    BY <1>2, <1>3, <1>8, <2>1 DEF c
  <2>2. CASE q # o /\ Owner[q] = c
    <3>1. opening'[q] = opening[q] /\ opening[q].fence = f
      BY <1>3, <1>8, <2>2 DEF Current
    <3>2. opening[q].fence <= op[c].fence /\ opening[q] \in Opening
      BY <1>1, <2>2 DEF IInv, SendInv, FencesBehind, TypeOK
    <3>3. AlreadyBound(o) /\ Current(q)
      BY <1>1, <1>2, <1>5, <1>6, <2>2, <3>1, <3>2, Rows DEF Current
    <3>4. slot[c] = [binding |-> "bound", id |-> opening[q].saved]
      BY <2>2, <3>1, <3>3 DEF IInv, IdentityInv, ProofStands
    <3> QED
      BY <1>2, <1>3, <1>5, <2>2, <3>1, <3>3, <3>4
  <2>3. CASE q # o /\ Owner[q] # c
    <3>1. opening'[q] = opening[q] /\ Owner[q] \in Customers
      BY <1>8, <2>3, OwnerAssumption
    <3> QED
      BY <1>2, <2>3, <3>1 DEF OnlyAt, Current, IInv, IdentityInv, ProofStands
  <2> QED
    BY <2>1, <2>2, <2>3
<1>12. ReadIsTrue'
  <2> SUFFICES ASSUME rekeys' = 0
               PROVE  /\ \A q \in Openings :
                            opening'[q].pc = "apply" =>
                               /\ users'[opening'[q].id].live
                               /\ users'[opening'[q].id].key = opening'[q].key
                      /\ \A d \in Customers :
                            slot'[d].id # NoId => /\ users'[slot'[d].id].live
                                                  /\ users'[slot'[d].id].key = d
    BY DEF ReadIsTrue, At
  <2>1. rekeys = 0 /\ users' = users
    BY <1>7 DEF remote
  <2>2. users[i].live /\ users[i].key = c
    BY <1>7, <2>1 DEF IInv, IdentityInv, ReadIsTrue, At, i
  <2> QED
    BY <1>2, <1>3, <1>8, <2>1, <2>2 DEF IInv, IdentityInv, ReadIsTrue, At, OnlyAt
<1> QED
  BY <1>9, <1>10, <1>11, <1>12

LEMMA EscalateIdentity ==
    ASSUME IInv, NEW c \in Customers, Escalate(c)
    PROVE  BindingState' /\ ProofStands' /\ NoSharedIdentity'
<1>1. /\ op' = [op EXCEPT ![c].state = "manual_review"]
      /\ reviews' = [reviews EXCEPT ![c] = @ \cup {"unknown"}]
      /\ UNCHANGED <<slot, opening>>
      /\ op[c].state \in {"possible_send", "unknown"} /\ op[c] \in Operation
  BY DEF Escalate, Overdue, IInv, TypeOK
<1>2. /\ op'[c] = [op[c] EXCEPT !.state = "manual_review"]
      /\ reviews'[c] = reviews[c] \cup {"unknown"}
      /\ \A d \in Customers : d # c => op'[d] = op[d] /\ reviews'[d] = reviews[d]
  BY <1>1 DEF IInv, TypeOK
<1>3. /\ op'[c].state = "manual_review" /\ op'[c].fence = op[c].fence
      /\ op'[c].bound = op[c].bound
  BY <1>1, <1>2 DEF Operation
<1>4. slot[c].binding \in {"absent", "unbound"}
  BY <1>1, Rows DEF IInv, IdentityInv, BindingState, BindingRow
<1>5. BindingState'
  BY <1>1, <1>2, <1>3, <1>4 DEF IInv, IdentityInv, BindingState, BindingRow
<1>6. ProofStands'
  <2> SUFFICES ASSUME NEW q \in Openings,
                      opening[q].pc \in {"client", "recheck"}, Current(q)'
               PROVE  /\ slot[Owner[q]] = [binding |-> "bound", id |-> opening[q].saved]
                      /\ op'[Owner[q]].state = "bound" /\ reviews'[Owner[q]] = {}
    BY <1>1 DEF ProofStands
  <2>1. Owner[q] \in Customers
    BY OwnerAssumption
  <2>2. Current(q)
    BY <1>1, <1>2, <1>3, <2>1 DEF Current
  <2>3. /\ slot[Owner[q]] = [binding |-> "bound", id |-> opening[q].saved]
        /\ op[Owner[q]].state = "bound" /\ reviews[Owner[q]] = {}
    BY <2>2 DEF IInv, IdentityInv, ProofStands
  <2> QED
    BY <1>1, <1>2, <2>1, <2>3
<1>7. NoSharedIdentity'
  BY <1>1 DEF IInv, IdentityInv, NoSharedIdentity
<1> QED
  BY <1>5, <1>6, <1>7

\* The operation's own steps: reserve, claim, receipt, release and finish.
Operates(o) ==
    Reserve(o) \/ Claim(o) \/ RecordReceipt(o) \/ Release(o) \/ Finish(o)

LEMMA OperatesStays ==
    ASSUME IInv, NEW o \in Openings, Operates(o)
    PROVE  BindingStays
<1> DEFINE c == Owner[o]
<1>1. /\ TypeOK /\ SendInv /\ CandidateInHand /\ c \in Customers
      /\ op[c] \in Operation /\ slot[c] \in Slot
      /\ \A d \in Customers : op[d].fence >= op[d].fence
  BY OwnerAssumption, Rows DEF IInv, IdentityInv, TypeOK
<1>2. BindingRow(c) /\ NewFence(c) >= op[c].fence /\ op[c].fence >= op[c].fence
  BY <1>1, SameAt, Rows DEF IInv, IdentityInv, BindingState
<1>3. UNCHANGED portal => BindingStays
  BY <1>1 DEF BindingStays, portal
<1>4. ASSUME OnlyAt(c), reviews'[c] = reviews[c], slot'[c].id = slot[c].id,
             \/ slot'[c] = slot[c]
             \/ {slot[c].binding, slot'[c].binding} \subseteq {"absent", "unbound"},
             op'[c].bound = op[c].bound, op'[c].fence >= op[c].fence,
             \/ op'[c].state = op[c].state
             \/ slot[c].binding \in {"absent", "unbound"} /\ op'[c].state # "bound"
      PROVE  BindingStays
  BY <1>1, <1>4 DEF BindingStays, OnlyAt
<1>5. CASE Reserve(o)
  <2>1. /\ OnlyAt(c) /\ reviews'[c] = reviews[c]
        /\ slot'[c] = IF slot[c].binding = "absent"
                      THEN [slot[c] EXCEPT !.binding = "unbound"] ELSE slot[c]
        /\ op'[c] = IF op[c].state = "none" THEN [op[c] EXCEPT !.state = "pending"]
                    ELSE op[c]
    BY <1>1, <1>5, ReserveEffect
  <2>2. /\ slot'[c].id = slot[c].id
        /\ slot'[c] = slot[c]
             \/ {slot[c].binding, slot'[c].binding} \subseteq {"absent", "unbound"}
    BY <1>1, <2>1 DEF Slot
  <2>3. /\ op'[c].bound = op[c].bound /\ op'[c].fence = op[c].fence
        /\ op'[c].state = op[c].state \/ (op[c].state = "none" /\ op'[c].state = "pending")
    BY <1>1, <2>1 DEF Operation
  <2>4. op[c].state = "none" => slot[c].binding \in {"absent", "unbound"}
    BY <1>1, <1>2, Rows DEF BindingRow
  <2> QED
    BY <1>1, <1>4, <2>1, <2>2, <2>3, <2>4
<1>6. CASE Claim(o) /\ Admitted(c) /\ MayClaim(o)
  <2>1. /\ OnlyAt(c) /\ reviews'[c] = reviews[c] /\ slot'[c] = slot[c]
        /\ op'[c] = [op[c] EXCEPT !.fence = NewFence(c), !.state = "possible_send",
                                  !.deadline = clock + Window]
    BY <1>1, <1>6, ClaimEffect
  <2>2. /\ op'[c].bound = op[c].bound /\ op'[c].fence = NewFence(c)
        /\ op'[c].state = "possible_send"
    BY <1>1, <2>1 DEF Operation
  <2>3. slot[c].binding \in {"absent", "unbound"}
    BY <1>1, <1>2, <1>6, Rows DEF BindingRow, Admitted, MayClaim, Saved
  <2> QED
    BY <1>2, <1>4, <2>1, <2>2, <2>3
<1>7. CASE RecordReceipt(o)
  <2>1. /\ OnlyAt(c) /\ reviews'[c] = reviews[c] /\ slot'[c] = slot[c]
        /\ op'[c].bound = op[c].bound /\ op'[c].fence = op[c].fence
        /\ op'[c].state = op[c].state
    BY <1>1, <1>7, ReceiptEffect
  <2> QED
    BY <1>2, <1>4, <2>1
<1>8. CASE Release(o) /\ ReleaseAccepted(o)
  <2>1. /\ OnlyAt(c) /\ reviews'[c] = reviews[c] /\ slot'[c] = slot[c]
        /\ op'[c] = [op[c] EXCEPT !.state = "pending", !.deadline = 0,
                                  !.fence = NewFence(c)]
    BY <1>1, <1>8, ReleaseEffect
  <2>2. /\ op'[c].bound = op[c].bound /\ op'[c].fence = NewFence(c)
        /\ op'[c].state = "pending"
    BY <1>1, <2>1 DEF Operation
  <2>3. slot[c].binding \in {"absent", "unbound"}
    BY <1>1, <1>2, <1>8, Rows DEF BindingRow, ReleaseAccepted
  <2> QED
    BY <1>2, <1>4, <2>1, <2>2, <2>3
<1>9. CASE Finish(o) /\ Current(o)
  <2>1. /\ OnlyAt(c) /\ reviews'[c] = reviews[c] /\ slot'[c] = slot[c]
        /\ op'[c] = IF Outstanding(c)
                    THEN [op[c] EXCEPT !.state = "unknown", !.fence = NewFence(c)]
                    ELSE op[c]
    BY <1>1, <1>9, FinishEffect
  <2>2. /\ op'[c].bound = op[c].bound
        /\ op'[c].fence = op[c].fence \/ op'[c].fence = NewFence(c)
        /\ op'[c].state = op[c].state
             \/ (op[c].state = "possible_send" /\ op'[c].state = "unknown")
    BY <1>1, <2>1 DEF Operation, Outstanding
  <2>3. op[c].state = "possible_send" => slot[c].binding \in {"absent", "unbound"}
    BY <1>1, <1>2, Rows DEF BindingRow
  <2> QED
    BY <1>2, <1>4, <2>1, <2>2, <2>3
<1> QED
  BY <1>3, <1>5, <1>6, <1>7, <1>8, <1>9, NoEffect DEF Operates

\* Where an opening of the operation's own steps goes.
LEMMA OperatesMoves ==
    ASSUME IInv, TypeOK', NEW o \in Openings, Operates(o)
    PROVE  NoNewProof /\ NoOldRead
<1>1. TypeOK /\ CandidateInHand
  BY DEF IInv, IdentityInv
<1>2. Claim(o) /\ Admitted(Owner[o]) /\ MayClaim(o) => NoNewProof /\ NoOldRead
  <2> SUFFICES ASSUME Claim(o), Admitted(Owner[o]), MayClaim(o)
               PROVE  NoNewProof /\ NoOldRead
    OBVIOUS
  <2>1. /\ \A q \in Openings : q # o => opening'[q] = opening[q]
        /\ opening'[o].pc = "send"
    BY <1>1 DEF Claim, TypeOK, Opening
  <2> QED
    BY <2>1 DEF NoNewProof, NoOldRead
<1>3. Claim(o) /\ ~(Admitted(Owner[o]) /\ MayClaim(o)) => Move(o)
  BY <1>1, Started, WaitMoves, EndMoves DEF Claim, At, Running, Local, Ended
<1> QED
  BY <1>1, <1>2, <1>3, MoveKeepsProofs, ReserveMoves, RecordReceiptMoves, ReleaseMoves,
     FinishMoves DEF Operates

LEMMA IdentityStep ==
    ASSUME IInv, TypeOK', CandidateInHand', [Next]_vars
    PROVE  BindingState' /\ ProofStands' /\ NoSharedIdentity' /\ ReadIsTrue'
<1>1. TypeOK /\ CandidateInHand
  BY DEF IInv, IdentityInv
<1>2. ASSUME NoNewProof, NoOldRead, BindingStays, UNCHANGED remote
      PROVE  BindingState' /\ ProofStands' /\ NoSharedIdentity' /\ ReadIsTrue'
  <2>1. \A c \in Customers : slot'[c].id = slot[c].id
    BY <1>2 DEF BindingStays
  <2> QED
    BY <1>2, <2>1, StaysKeepsIdentity, StaysKeepsReads DEF remote
<1>3. UNCHANGED portal => BindingStays
  BY <1>1, Rows DEF BindingStays, portal
<1>4. CASE \E o \in Openings : Quiet(o) \/ Refusal(o) \/ Open(o)
  BY <1>1, <1>2, <1>3, <1>4, QuietMoves, RefusalMoves, OpenMoves, MoveKeepsProofs
  DEF Refusal, Open, remote
<1>5. CASE \E o \in Openings : Dispatch(o)
  <2>1. NoNewProof /\ NoOldRead
    BY <1>1, <1>5, DispatchMoves, MoveKeepsProofs
  <2>2. BindingStays /\ users' = users /\ rekeys' = rekeys
    BY <1>3, <1>5 DEF Dispatch
  <2>3. \A c \in Customers : slot'[c].id = slot[c].id
    BY <2>2 DEF BindingStays
  <2> QED
    BY <2>1, <2>2, <2>3, StaysKeepsIdentity, StaysKeepsReads
<1>6. CASE \E o \in Openings : Operates(o)
  <2>1. PICK o \in Openings : Operates(o)
    BY <1>6
  <2>2. UNCHANGED remote
    BY <2>1 DEF Operates, Reserve, Claim, RecordReceipt, Release, Finish
  <2>3. BindingStays /\ NoNewProof /\ NoOldRead
    BY <2>1, OperatesStays, OperatesMoves
  <2> QED
    BY <1>2, <2>2, <2>3
<1>7. CASE \E o \in Openings : Conflict(o)
  <2>1. PICK o \in Openings : Conflict(o)
    BY <1>7
  <2>2. NoOldRead
    BY <1>1, <2>1, RefusalMoves, MoveKeepsProofs
  <2>3. \A d \in Customers : slot'[d].id = slot[d].id
    <3>1. slot[Owner[o]] \in Slot /\ Owner[o] \in Customers
      BY <1>1, OwnerAssumption DEF TypeOK
    <3>2. OnlyAt(Owner[o]) /\ slot'[Owner[o]] = [slot[Owner[o]] EXCEPT !.binding = "conflict"]
      BY <1>1, <2>1, ConflictEffect
    <3> QED
      BY <3>1, <3>2 DEF OnlyAt, Slot
  <2>4. UNCHANGED remote
    BY <2>1 DEF Conflict
  <2> QED
    BY <2>1, <2>2, <2>3, <2>4, ConflictIdentity, StaysKeepsReads DEF remote
<1>8. CASE \E o \in Openings : Proof(o)
  BY <1>8, ProofIdentity
<1>9. CASE \E c \in Customers : Escalate(c)
  <2>1. UNCHANGED <<slot, opening, remote>>
    BY <1>9 DEF Escalate
  <2>2. NoOldRead
    BY <1>1, <2>1, MoveKeepsProofs
  <2> QED
    BY <1>9, <2>1, <2>2, EscalateIdentity, StaysKeepsReads DEF remote
<1>10. CASE \E p \in posts : ProviderCreates(p) \/ ProviderRefuses(p)
  <2>1. UNCHANGED opening \/ \E o \in Openings : Move(o)
    BY <1>1, <1>10, AnswerMoves DEF ProviderCreates, ProviderRefuses, MaybeId
  <2>2. NoNewProof /\ NoOldRead
    BY <1>1, <2>1, MoveKeepsProofs
  <2>3. BindingStays /\ rekeys' = rekeys
    BY <1>3, <1>10 DEF ProviderCreates, ProviderRefuses
  <2>4. \A c \in Customers : slot'[c].id = slot[c].id
    BY <2>3 DEF BindingStays
  <2>5. \A i \in Ids : users[i].live => users'[i] = users[i]
    BY <1>1, <1>10 DEF ProviderCreates, ProviderRefuses, TypeOK
  <2> QED
    BY <2>2, <2>3, <2>4, <2>5, StaysKeepsIdentity, StaysKeepsReads
<1>11. CASE \E i \in Ids : Rekey(i)
  <2>1. NoNewProof /\ BindingStays
    BY <1>1, <1>3, <1>11, MoveKeepsProofs DEF Rekey
  <2>2. rekeys' # 0
    BY <1>1, <1>11, BoundAssumption DEF Rekey, TypeOK
  <2> QED
    BY <2>1, <2>2, StaysKeepsIdentity DEF ReadIsTrue
<1>12. CASE Tick \/ UNCHANGED vars
  <2>1. UNCHANGED <<portal, opening, remote>>
    BY <1>12 DEF Tick, vars
  <2> QED
    BY <1>1, <1>2, <1>3, <2>1, MoveKeepsProofs
<1> QED
  BY <1>4, <1>5, <1>6, <1>7, <1>8, <1>9, <1>10, <1>11, <1>12, Cases DEF Operates

-----------------------------------------------------------------------------
(* The inductive invariant *)

LEMMA InitInv ==
    Init => IInv
<1> SUFFICES ASSUME Init PROVE IInv
  OBVIOUS
<1> PICK own \in Retained :
        /\ slot = [c \in Customers |->
                      [binding |-> IF own[c] = NoId THEN "absent" ELSE "bound", id |-> own[c]]]
        /\ op = [c \in Customers |->
                    [state |-> IF own[c] = NoId THEN "none" ELSE "bound", fence |-> 0,
                     receipt |-> NoId, bound |-> own[c], deadline |-> 0]]
        /\ \E i \in Ids, c \in Customers, live \in BOOLEAN :
           \E k \in {NoKey, OtherKey} :
              /\ live => c \notin Earlier
              /\ users = [j \in Ids |->
                   IF \E d \in Customers : own[d] = j
                   THEN LET d == CHOOSE d \in Customers : own[d] = j
                        IN [live |-> TRUE, key |-> d, email |-> d]
                   ELSE [live |-> live /\ j = i, key |-> k, email |-> c]]
  BY DEF Init
<1> DEFINE Of(j) == CHOOSE d \in Customers : own[d] = j
<1>0. /\ own \in [Customers -> Ids \cup {NoId}]
      /\ \A c, d \in Customers : c # d /\ own[c] # NoId => own[c] # own[d]
  BY DEF Retained
<1>1. \A c \in Customers :
        /\ slot[c].binding = IF own[c] = NoId THEN "absent" ELSE "bound"
        /\ slot[c].id = own[c] /\ op[c].bound = own[c]
        /\ op[c].state = IF own[c] = NoId THEN "none" ELSE "bound"
        /\ op[c].fence = 0
        /\ lease[c].owner = 0 /\ lease[c].expires = 0 /\ reviews[c] = {}
  BY DEF Init, NoLease
<1>2. \A o \in Openings : /\ opening[o].pc = "idle" /\ opening[o].fence = 0
                          /\ opening[o].first = -1
                          /\ Owner[o] \in Customers
  BY OwnerAssumption DEF Init, NewOpening
<1>3. TypeOK
  <2>1. NewOpening \in Opening
    BY DEF NewOpening, Opening, MaybeId, Keys
  <2>2. opening \in [Openings -> Opening] /\ reviews \in [Customers -> SUBSET Reviews]
    BY <2>1 DEF Init
  <2>3. slot \in [Customers -> Slot]
    BY <1>0 DEF Slot, MaybeId
  <2>4. op \in [Customers -> Operation]
    BY <1>0 DEF Operation, MaybeId
  <2>5. lease \in [Customers -> Lease]
    BY DEF Init, NoLease, Lease
  <2>6. users \in [Ids -> [live : BOOLEAN, key : Keys, email : Customers]]
    <3>1. ASSUME NEW j \in Ids, NEW d \in Customers, own[d] = j PROVE Of(j) \in Customers
      BY <3>1
    <3> HIDE DEF Of
    <3>2. \A j \in Ids : (\E d \in Customers : own[d] = j) => Of(j) \in Customers
      BY <3>1
    <3>3. PICK i \in Ids, c \in Customers, live \in BOOLEAN, k \in {NoKey, OtherKey} :
             users = [j \in Ids |->
                   IF \E d \in Customers : own[d] = j
                   THEN [live |-> TRUE, key |-> Of(j), email |-> Of(j)]
                   ELSE [live |-> live /\ j = i, key |-> k, email |-> c]]
      BY DEF Of
    <3> QED
      BY <3>2, <3>3 DEF Keys
  <2> QED
    <3>1. clock \in 0..MaxTime /\ posts = {} /\ rekeys \in 0..MaxRekeys
      BY TimeAssumption, BoundAssumption DEF Init
    <3> QED
      BY <1>1, <1>2, <2>2, <2>3, <2>4, <2>5, <2>6, <3>1 DEF TypeOK
<1>4. SendInv
  BY <1>1, <1>2
  DEF SendInv, FencesBehind, InTime, DistinctSends, PostingOwnsLease, OnePosting,
      ClaimOwnsLease, CurrentSend, PostingIsCurrent, InAttempt, Posting, At, Sending,
      Running, Remote, Local
<1>5. IdentityInv
  <2>1. ASSUME NEW c \in Customers, own[c] # NoId PROVE users[own[c]].live /\ users[own[c]].key = c
    <3>1. own[c] \in Ids /\ \A d \in Customers : own[d] = own[c] => d = c
      BY <1>0, <2>1
    <3>2. Of(own[c]) = c
      BY <3>1
    <3> QED
      BY <3>1, <3>2
  <2>2. ReadIsTrue
    BY <1>1, <1>2, <2>1 DEF ReadIsTrue, At
  <2>3. NoSharedIdentity
    BY <1>0, <1>1 DEF NoSharedIdentity
  <2> QED
    BY <1>1, <1>2, <2>2, <2>3
    DEF IdentityInv, CandidateInHand, BindingState, BindingRow, ProofStands, At
<1> QED
  BY <1>3, <1>4, <1>5 DEF IInv

LEMMA InvStep ==
    IInv /\ [Next]_vars => IInv'
<1> SUFFICES ASSUME IInv, [Next]_vars PROVE IInv'
  OBVIOUS
<1>1. TypeOK'
  BY TypeStep DEF IInv, IdentityInv
<1>2. SendInv' /\ CandidateInHand'
  BY <1>1, SendStep
<1>3. BindingState' /\ ProofStands' /\ NoSharedIdentity' /\ ReadIsTrue'
  BY <1>1, <1>2, IdentityStep
<1> QED
  BY <1>1, <1>2, <1>3 DEF IInv, IdentityInv

LEMMA Invariant ==
    Spec => []IInv
BY InitInv, InvStep, PTL DEF Spec

-----------------------------------------------------------------------------
(* Theorems *)

\* The tables, the openings and the provider keep their types, a lease has an
\* expiry exactly while it has an owner, and every opening that has read the
\* operation remembers the fence it saw first.
THEOREM TypeCorrect ==
    Spec => []TypeOK
<1>1. IInv => TypeOK
  BY DEF IInv
<1> QED
  BY <1>1, Invariant, PTL

\* Whoever awaits a POST is within its budget, so it is posting in the sense of
\* the inductive invariant, and two openings never are: no interleaving of
\* claims, timeouts, releases and finishes awaits two POSTs of one customer.
THEOREM OneSend ==
    Spec => []OneLiveSend
<1>1. IInv => OneLiveSend
  <2> SUFFICES ASSUME IInv,
                      NEW o \in Openings, NEW p \in Openings, o # p, Owner[o] = Owner[p],
                      At(o, "await"), At(p, "await")
               PROVE  FALSE
    BY DEF OneLiveSend
  <2>1. \A q \in {o, p} : Posting(q)
    BY TimeAssumption DEF IInv, TypeOK, SendInv, InTime, Posting, At, Opening
  <2> QED
    BY <2>1 DEF IInv, SendInv, OnePosting
<1> QED
  BY <1>1, Invariant, PTL

\* At every moment of an awaited POST the database holds what recovery needs:
\* the claim of this very send under its fence and a deadline still ahead, or
\* the proof or conflict that settled the operation meanwhile.
THEOREM SendRecorded ==
    Spec => []SendIsRecorded
<1>1. IInv => SendIsRecorded
  <2> SUFFICES ASSUME IInv, NEW o \in Openings, At(o, "await"),
                      op[Owner[o]].state \notin {"bound", "manual_review"}
               PROVE  /\ op[Owner[o]].state = "possible_send" /\ Current(o)
                      /\ lease[Owner[o]].owner = opening[o].fence
                      /\ op[Owner[o]].deadline > clock
    BY DEF SendIsRecorded
  <2> DEFINE c == Owner[o]
  <2>1. /\ c \in Customers /\ opening[o].deadline \in Nat /\ clock \in Nat
        /\ op[c].deadline \in Nat
    BY OwnerAssumption, Rows DEF IInv, TypeOK, Opening
  <2>2. clock <= opening[o].deadline
    BY DEF IInv, SendInv, InTime
  <2>3. Posting(o) /\ InAttempt(o)
    BY <2>1, <2>2, TimeAssumption DEF Posting, InAttempt, Sending, At
  <2>4. Current(o)
    BY <2>3 DEF IInv, SendInv, PostingIsCurrent
  <2>5. /\ op[c].state = "possible_send"
        /\ opening[o].deadline + Window <= op[c].deadline + Total
    BY <2>3, <2>4 DEF IInv, SendInv, CurrentSend
  <2>6. lease[c].owner = opening[o].fence
    BY <2>1, <2>4, <2>5 DEF IInv, SendInv, ClaimOwnsLease, Current
  <2> QED
    BY <2>1, <2>2, <2>4, <2>5, <2>6, TimeAssumption
<1> QED
  BY <1>1, Invariant, PTL

\* No step gives up a lease and leaves an unproven customer's fence as it was:
\* a discovery made while the send was active can never authorize another.
THEOREM LeaseEnds ==
    Spec => LeaseEndsWithFence
<1> DEFINE A == \A c \in Customers :
                   /\ lease[c].owner # 0
                   /\ lease'[c].owner # lease[c].owner
                   /\ slot'[c].id = NoId
                   => op'[c].fence # op[c].fence
<1>1. IInv /\ [Next]_vars => [A]_vars
  <2> SUFFICES ASSUME IInv, Next PROVE A
    OBVIOUS
  <2>1. TypeOK /\ CandidateInHand
    BY DEF IInv, IdentityInv
  <2>2. \A c \in Customers : NewFence(c) > op[c].fence /\ op[c].fence \in Nat
                             /\ NewFence(c) \in Nat
    BY <2>1, SameAt, Rows
  <2>3. UNCHANGED lease => A
    OBVIOUS
  <2>4. ASSUME NEW o \in Openings, OnlyAt(Owner[o]),
               \/ op'[Owner[o]].fence = NewFence(Owner[o])
               \/ slot'[Owner[o]].id # NoId
               \/ lease'[Owner[o]] = lease[Owner[o]]
        PROVE  A
    <3>1. Owner[o] \in Customers
      BY OwnerAssumption
    <3> QED
      BY <2>2, <2>4, <3>1 DEF OnlyAt
  <2>5. ASSUME NEW o \in Openings, Claim(o), Admitted(Owner[o]), MayClaim(o)
        PROVE  A
    <3>1. op[Owner[o]] \in Operation
      BY <2>1, OwnerAssumption DEF TypeOK
    <3>2. /\ OnlyAt(Owner[o])
          /\ op'[Owner[o]] = [op[Owner[o]] EXCEPT !.fence = NewFence(Owner[o]),
                                !.state = "possible_send", !.deadline = clock + Window]
      BY <2>1, <2>5, ClaimEffect
    <3> QED
      BY <2>4, <3>1, <3>2 DEF Operation
  <2>6. ASSUME NEW o \in Openings, Release(o), ReleaseAccepted(o)
        PROVE  A
    <3>1. op[Owner[o]] \in Operation
      BY <2>1, OwnerAssumption DEF TypeOK
    <3>2. /\ OnlyAt(Owner[o])
          /\ op'[Owner[o]] = [op[Owner[o]] EXCEPT !.state = "pending", !.deadline = 0,
                                !.fence = NewFence(Owner[o])]
      BY <2>1, <2>6, ReleaseEffect
    <3> QED
      BY <2>4, <3>1, <3>2 DEF Operation
  <2>7. ASSUME NEW o \in Openings, Finish(o), Current(o)
        PROVE  A
    <3> DEFINE c == Owner[o]
    <3>1. c \in Customers /\ op[c] \in Operation
      BY <2>1, OwnerAssumption DEF TypeOK
    <3>2. op[c].state = "possible_send"
      BY <2>7 DEF IInv, SendInv, CurrentSend, InAttempt, Sending, Finish, At
    <3>3. slot[c].id = NoId
      BY <2>1, <3>1, <3>2, Rows DEF IInv, IdentityInv, BindingState, BindingRow
    <3>4. /\ OnlyAt(c)
          /\ op'[c] = [op[c] EXCEPT !.state = "unknown", !.fence = NewFence(c)]
      BY <2>1, <2>7, <3>2, <3>3, FinishEffect DEF Outstanding
    <3> QED
      BY <2>4, <3>1, <3>4 DEF Operation
  <2>8. ASSUME NEW o \in Openings, Proof(o)
        PROVE  A
    <3>1. /\ OnlyAt(Owner[o]) /\ opening[o].id \in Ids
          /\ slot'[Owner[o]] = [binding |-> "bound", id |-> opening[o].id]
      BY <2>1, <2>8, ProofEffect
    <3>2. slot'[Owner[o]].id # NoId
      BY <3>1, NullAssumption
    <3> QED
      BY <2>4, <3>1, <3>2
  <2>9. ASSUME NEW o \in Openings,
               Quiet(o) \/ Open(o) \/ Reserve(o) \/ Dispatch(o) \/ RecordReceipt(o)
                 \/ Conflict(o) \/ Refusal(o)
        PROVE  UNCHANGED lease
    BY <2>1, <2>9, QuietMoves
    DEF portal, Open, Reserve, Dispatch, RecordReceipt, Conflict, RecordConflict, Refusal
  <2>10. ASSUME NEW o \in Openings, Claim(o) \/ Release(o) \/ Finish(o)
         PROVE  A
    BY <2>3, <2>5, <2>6, <2>7, <2>10, NoEffect DEF portal
  <2>11. (\E c \in Customers : Escalate(c)) \/ (\E i \in Ids : Rekey(i)) \/ Tick
           \/ (\E p \in posts : ProviderCreates(p) \/ ProviderRefuses(p))
         => UNCHANGED lease
    BY DEF Escalate, Rekey, Tick, ProviderCreates, ProviderRefuses, portal
  <2> HIDE DEF A
  <2> QED
    BY <2>3, <2>8, <2>9, <2>10, <2>11, Cases
<1>2. [][A]_vars => LeaseEndsWithFence
  BY DEF LeaseEndsWithFence
<1> HIDE DEF A
<1> QED
  BY <1>1, <1>2, Invariant, PTL DEF Spec

\* As long as nobody edits the provider's records, a bound provider user carries
\* its customer's own key: neither a list, a receipt nor an old read ever binds.
THEOREM BoundOurs ==
    Spec => []BoundIsOurs
<1>1. IInv => BoundIsOurs
  BY DEF IInv, IdentityInv, ReadIsTrue, BoundIsOurs
<1> QED
  BY <1>1, Invariant, PTL

\* While a proof's fence is current the binding it made stands unreviewed, so
\* the last check before a credential is issued cannot be fooled.
THEOREM ProofsStand ==
    Spec => []ProofStands
<1>1. IInv => ProofStands
  BY DEF IInv, IdentityInv
<1> QED
  BY <1>1, Invariant, PTL

\* No provider user is ever bound to two customers of the account.
THEOREM NoSharing ==
    Spec => []NoSharedIdentity
<1>1. IInv => NoSharedIdentity
  BY DEF IInv, IdentityInv
<1> QED
  BY <1>1, Invariant, PTL

\* Both at once: sends do not overlap, and a crash during one is recoverable.
THEOREM SafeSends ==
    Spec => []SendsAreSafe
<1>1. OneLiveSend /\ SendIsRecorded => SendsAreSafe
  BY DEF SendsAreSafe
<1> QED
  BY <1>1, OneSend, SendRecorded, PTL

\* Both at once: a bound customer is one provider user, its own.
THEOREM IdentityIsOne ==
    Spec => []OneIdentity
<1>1. BoundIsOurs /\ NoSharedIdentity => OneIdentity
  BY DEF OneIdentity
<1> QED
  BY <1>1, BoundOurs, NoSharing, PTL

-----------------------------------------------------------------------------
(* Refinement of CustomerBinding *)

\* A step that leaves the binding alone is a stutter of the abstract lifecycle.
LEMMA StutterStep ==
    ASSUME TypeOK,
           \A c \in Customers : Status(c)' = Status(c) /\ slot'[c].id = slot[c].id
    PROVE  UNCHANGED Binding!vars
BY DEF Binding!vars

LEMMA StaysStutters ==
    ASSUME IInv, BindingStays
    PROVE  UNCHANGED Binding!vars
<1>1. ASSUME NEW c \in Customers
      PROVE  Status(c)' = Status(c)
  <2>1. BindingRow(c) /\ slot[c].binding \in {"absent", "unbound", "bound", "conflict"}
    BY Rows DEF IInv, IdentityInv, BindingState
  <2>2. /\ slot'[c].id = slot[c].id /\ reviews'[c] = reviews[c]
        /\ \/ slot'[c] = slot[c]
           \/ {slot[c].binding, slot'[c].binding} \subseteq {"absent", "unbound"}
        /\ op'[c].bound = op[c].bound
        /\ \/ op'[c].state = op[c].state
           \/ slot[c].binding \in {"absent", "unbound"} /\ op'[c].state # "bound"
    BY DEF BindingStays
  <2>3. CASE slot[c].binding \in {"absent", "unbound"}
    BY <2>2, <2>3 DEF Status
  <2>4. CASE slot[c].binding \notin {"absent", "unbound"}
    <3>1. slot'[c] = slot[c] /\ op'[c].state = op[c].state
      BY <2>2, <2>4
    <3> QED
      BY <2>2, <3>1 DEF Status, KeyRecovery, Recoverable, Admitted
  <2> QED
    BY <2>3, <2>4
<1> QED
  BY <1>1, StutterStep DEF IInv, BindingStays

\* A step that settles one customer.
LEMMA SettleStep ==
    ASSUME NEW c \in Customers, OnlyAt(c), NEW s, Status(c)' = s
    PROVE  /\ [d \in Customers |-> Status(d)]' =
                [[d \in Customers |-> Status(d)] EXCEPT ![c] = s]
           /\ [d \in Customers |-> slot[d].id]' =
                [[d \in Customers |-> slot[d].id] EXCEPT ![c] = slot'[c].id]
<1>1. \A d \in Customers : d # c => Status(d)' = Status(d)
  BY DEF OnlyAt, Status, KeyRecovery, Recoverable, Admitted
<1> QED
  BY <1>1 DEF OnlyAt

LEMMA ConflictRefines ==
    ASSUME IInv, NEW o \in Openings, Conflict(o)
    PROVE  [Binding!Next]_(Binding!vars)
<1> DEFINE c == Owner[o]
<1>1. TypeOK /\ c \in Customers /\ slot[c] \in Slot /\ op[c] \in Operation /\ BindingRow(c)
  BY OwnerAssumption DEF IInv, TypeOK, IdentityInv, BindingState
<1>2. /\ OnlyAt(c) /\ slot'[c] = [slot[c] EXCEPT !.binding = "conflict"]
      /\ op'[c] = [op[c] EXCEPT !.state = "manual_review", !.fence = NewFence(c)]
  BY <1>1, ConflictEffect
<1>3. PICK review \in Reviews \ {"unknown"} :
        /\ reviews'[c] = reviews[c] \cup {review}
        /\ review = "key" => OriginalId(o) /\ Recoverable(c)
  BY <1>1, ConflictEffect
<1>4. /\ slot'[c].id = slot[c].id /\ slot'[c].binding = "conflict"
      /\ op'[c].state = "manual_review" /\ op'[c].bound = op[c].bound
  BY <1>1, <1>2 DEF Slot, Operation
<1>5. Status(c)' \in {"lost", "barred"}
  BY <1>4 DEF Status
<1> DEFINE S == [d \in Customers |-> Status(d)]
           I == [d \in Customers |-> slot[d].id]
<1>6. I' = I
  <2>1. \A d \in Customers : slot'[d].id = slot[d].id
    BY <1>2, <1>4 DEF OnlyAt
  <2> QED
    BY <2>1
<1>7. S' = [S EXCEPT ![c] = Status(c)']
  BY <1>1, <1>2, SettleStep
<1>8. CASE Status(c)' = "barred"
  BY <1>1, <1>6, <1>7, <1>8 DEF Binding!Next, Binding!Bar
<1>9. CASE Status(c)' = "lost"
  <2>1. KeyRecovery(c)' /\ reviews'[c] \subseteq {"unknown", "key"}
    BY <1>4, <1>9 DEF Status, Recoverable
  <2>2. slot[c].id # NoId /\ Recoverable(c)
    BY <1>3, <1>4, <2>1 DEF KeyRecovery, Reviews
  <2>3. slot[c].binding \in {"bound", "conflict"}
    BY <1>1, <2>2, Rows DEF BindingRow
  <2>4. CASE slot[c].binding = "bound"
    <3>1. S[c] = "bound"
      BY <1>1, <2>4 DEF Status
    <3> QED
      BY <1>1, <1>6, <1>7, <1>9, <3>1 DEF Binding!Next, Binding!LoseKey
  <2>5. CASE slot[c].binding = "conflict"
    <3>1. KeyRecovery(c)
      BY <2>2, <2>5 DEF Recoverable, Admitted
    <3>2. S[c] = "lost"
      BY <1>1, <2>2, <2>5, <3>1 DEF Status
    <3>3. S' = S
      BY <1>1, <1>7, <1>9, <3>2
    <3> QED
      BY <1>6, <3>3 DEF Binding!vars
  <2> QED
    BY <2>3, <2>4, <2>5
<1> QED
  BY <1>5, <1>8, <1>9

LEMMA ProofRefines ==
    ASSUME IInv, NEW o \in Openings, Proof(o)
    PROVE  [Binding!Next]_(Binding!vars)
<1> DEFINE c == Owner[o]
           i == opening[o].id
<1>1. TypeOK /\ CandidateInHand /\ c \in Customers /\ BindingRow(c)
      /\ slot[c].binding \in {"absent", "unbound", "bound", "conflict"}
  BY OwnerAssumption, Rows DEF IInv, IdentityInv, BindingState
<1>2. OnlyAt(c) /\ i \in Ids /\ slot'[c] = [binding |-> "bound", id |-> i]
  BY <1>1, ProofEffect
<1>3. /\ \A d \in Customers \ {c} : slot[d].id # i
      /\ slot[c].id \in {NoId, i} /\ Recoverable(c)
  BY DEF Proof, BoundElsewhere, Contradicts
<1>4. Status(c)' = "bound" /\ slot'[c].id = i
  BY <1>2 DEF Status
<1> HIDE DEF i
<1> DEFINE S == [d \in Customers |-> Status(d)]
           I == [d \in Customers |-> slot[d].id]
<1>5. S' = [S EXCEPT ![c] = "bound"] /\ I' = [I EXCEPT ![c] = i]
  BY <1>1, <1>2, <1>4, SettleStep
<1>6. CASE slot[c].binding \in {"absent", "unbound"}
  <2>1. S[c] = "open" /\ \A d \in Customers \ {c} : I[d] # i
    BY <1>1, <1>3, <1>6 DEF Status
  <2> QED
    BY <1>1, <1>2, <1>5, <2>1 DEF Binding!Next, Binding!Prove
<1>7. CASE slot[c].binding \in {"bound", "conflict"}
  <2>1. slot[c].id = i
    <3>1. CASE slot[c].binding = "bound"
      BY <1>1, <1>3, <3>1 DEF BindingRow
    <3>2. CASE slot[c].binding = "conflict"
      BY <1>3, <3>2 DEF Recoverable, Admitted, KeyRecovery
    <3> QED
      BY <1>7, <3>1, <3>2
  <2>2. I' = I
    BY <1>1, <1>5, <2>1
  <2>3. CASE slot[c].binding = "bound"
    <3>1. S[c] = "bound"
      BY <1>1, <2>3 DEF Status
    <3>2. S' = S
      BY <1>1, <1>5, <3>1
    <3> QED
      BY <2>2, <3>2 DEF Binding!vars
  <2>4. CASE slot[c].binding = "conflict"
    <3>1. S[c] = "lost"
      BY <1>1, <1>3, <2>4 DEF Status, Recoverable, Admitted
    <3> QED
      BY <1>1, <1>5, <2>2, <3>1 DEF Binding!Next, Binding!Restore
  <2> QED
    BY <1>7, <2>3, <2>4
<1> QED
  BY <1>1, <1>6, <1>7

LEMMA EscalateRefines ==
    ASSUME IInv, NEW c \in Customers, Escalate(c)
    PROVE  UNCHANGED Binding!vars
<1>1. /\ op[c].state \in {"possible_send", "unknown"} /\ UNCHANGED slot
      /\ \A d \in Customers : d # c => op'[d] = op[d] /\ reviews'[d] = reviews[d]
  BY DEF Escalate, Overdue, IInv, TypeOK
<1>2. slot[c].binding \in {"absent", "unbound"}
  BY <1>1, Rows DEF IInv, IdentityInv, BindingState, BindingRow
<1>3. \A d \in Customers : Status(d)' = Status(d)
  BY <1>1, <1>2 DEF Status, KeyRecovery, Recoverable, Admitted
<1> QED
  BY <1>1, <1>3, StutterStep DEF IInv

LEMMA RefinementStep ==
    ASSUME IInv, [Next]_vars
    PROVE  [Binding!Next]_(Binding!vars)
<1>1. TypeOK /\ CandidateInHand
  BY DEF IInv, IdentityInv
<1>2. UNCHANGED portal => UNCHANGED Binding!vars
  <2>1. UNCHANGED portal => BindingStays
    BY <1>1, Rows DEF BindingStays, portal
  <2> QED
    BY <2>1, StaysStutters
<1>3. CASE \E o \in Openings : Quiet(o) \/ Refusal(o) \/ Open(o) \/ Dispatch(o)
  BY <1>1, <1>2, <1>3, QuietMoves DEF Refusal, Open, Dispatch
<1>4. CASE \E o \in Openings : Operates(o)
  BY <1>4, OperatesStays, StaysStutters
<1>5. CASE \E o \in Openings : Conflict(o) \/ Proof(o)
  BY <1>5, ConflictRefines, ProofRefines
<1>6. CASE \E c \in Customers : Escalate(c)
  BY <1>6, EscalateRefines
<1>7. CASE \/ \E p \in posts : ProviderCreates(p) \/ ProviderRefuses(p)
           \/ \E i \in Ids : Rekey(i)
           \/ Tick \/ UNCHANGED vars
  BY <1>2, <1>7 DEF ProviderCreates, ProviderRefuses, Rekey, Tick, vars
<1> QED
  BY <1>3, <1>4, <1>5, <1>6, <1>7, Cases DEF Operates

\* Every behaviour of the customer operation is a behaviour of the abstract
\* binding lifecycle: an id proven once is the customer's for good, a lost key
\* is only restored by the same id, and every other contradiction bars.
THEOREM RefinesBinding ==
    Spec => BindingLifecycle
<1>1. Init => Binding!Init
  <2> SUFFICES ASSUME Init PROVE Binding!Init
    OBVIOUS
  <2>1. PICK own \in Retained :
           slot = [c \in Customers |->
                     [binding |-> IF own[c] = NoId THEN "absent" ELSE "bound", id |-> own[c]]]
    BY DEF Init
  <2>2. \A c \in Customers : /\ slot[c].id = own[c]
                             /\ Status(c) = IF own[c] = NoId THEN "open" ELSE "bound"
    BY <2>1 DEF Status
  <2>3. [c \in Customers |-> slot[c].id] \in [Customers -> Ids \cup {NoId}]
    BY <2>2 DEF Retained
  <2> QED
    BY <2>2, <2>3 DEF Binding!Init, Retained
<1>2. IInv /\ [Next]_vars => [Binding!Next]_(Binding!vars)
  BY RefinementStep
<1> QED
  BY <1>1, <1>2, Invariant, PTL DEF Spec, BindingLifecycle, Binding!Spec
=============================================================================
