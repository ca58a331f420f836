------------------------- MODULE PasswordResetProofs -------------------------
(***************************************************************************)
(* Proofs about PasswordReset.  Nothing locks the user, so confirmations   *)
(* exclude each other only through token rows: each holds its own token,   *)
(* which is still outstanding for everybody else, and of two that have     *)
(* begun to consume the other tokens at least one has the other's token    *)
(* still to visit, because the later one to claim began after the earlier. *)
(***************************************************************************)
EXTENDS PasswordReset, TLAPS

Reached(r) == worker[r].pc \in {"begin", "others", "commit"}
Sweeping(r) == worker[r].pc \in {"others", "commit"}

VisitsOnlyInBulk ==
    \A w \in Workers : worker[w].pc \notin {"others", "prune"} => worker[w].todo = {}

OwnIsLocked ==
    \A r \in Confirms :
        Reached(r) => /\ worker[r].own \in Tokens \ decoys
                      /\ holder[worker[r].own] = r
                      /\ token[worker[r].own] = "outstanding"

ClaimNamesToken == \A r \in Confirms : At(r, "claim") => worker[r].own \in Tokens

OneMeetsTheOther ==
    \A q, r \in Confirms :
        q # r /\ Sweeping(q) /\ Sweeping(r) =>
            worker[q].own \in worker[r].todo \/ worker[r].own \in worker[q].todo

OldTokensAreMet ==
    \A r \in Confirms : \A t \in worker[r].oldTokens :
        /\ token[t] # "unissued" /\ t \notin decoys
        /\ Sweeping(r) /\ token[t] = "outstanding" =>
              t = worker[r].own \/ t \in worker[r].todo \/ holder[t] = r

OldSessionsAreFound ==
    \A r \in Confirms : \A s \in worker[r].oldSessions :
        /\ session[s] # "none"
        /\ At(r, "commit") /\ session[s] = "active" => s \in worker[r].found

LoginOpensOnce ==
    \A l \in Logins : login[l] # "done" => session[l] = "none" /\ l \notin leaving

SetterIsDone == \A r \in Confirms : password = r => At(r, "reset")

IInv == /\ TypeOK /\ VisitsOnlyInBulk /\ ClaimNamesToken /\ OwnIsLocked /\ OneMeetsTheOther
        /\ OldTokensAreMet /\ OldSessionsAreFound /\ LoginOpensOnce /\ SetterIsDone

-----------------------------------------------------------------------------
(* Records and locks *)

LEMMA NewWorkerFacts ==
    ASSUME NEW pc \in {"idle"} \cup Ended
    PROVE  LET n == [NewWorker EXCEPT !.pc = pc] IN
           /\ n \in Worker
           /\ n.pc = pc /\ n.own = NoToken /\ n.todo = {} /\ n.row = NoToken
           /\ n.found = {} /\ n.oldTokens = {} /\ n.oldSessions = {}
  BY DEF NewWorker, Worker, Ended

\* An ended transaction keeps nothing and leaves the locks of the others alone.
LEMMA EndFacts ==
    ASSUME TypeOK, NEW w \in Workers, NEW pc \in Ended, EndWorker(w, pc)
    PROVE  /\ worker' \in [Workers -> Worker]
           /\ \A v \in Workers : v # w => worker'[v] = worker[v]
           /\ worker'[w].pc = pc /\ worker'[w].todo = {} /\ worker'[w].row = NoToken
           /\ worker'[w].oldTokens = {} /\ worker'[w].oldSessions = {}
           /\ holder' \in [Tokens -> Workers \cup {Nobody}]
           /\ \A t \in Tokens, v \in Workers : v # w /\ holder[t] = v => holder'[t] = v
<1> DEFINE n == [NewWorker EXCEPT !.pc = pc]
<1>1. /\ n \in Worker
      /\ n.pc = pc /\ n.todo = {} /\ n.row = NoToken
      /\ n.oldTokens = {} /\ n.oldSessions = {}
  BY NewWorkerFacts
<1>2. worker' = [worker EXCEPT ![w] = n] /\ holder' = Unlocked(w)
  BY DEF EndWorker
<1>3. worker \in [Workers -> Worker] /\ holder \in [Tokens -> Workers \cup {Nobody}]
  BY DEF TypeOK
<1> HIDE DEF n
<1>4. /\ holder' \in [Tokens -> Workers \cup {Nobody}]
      /\ \A t \in Tokens, v \in Workers : v # w /\ holder[t] = v => holder'[t] = v
  BY <1>2, <1>3 DEF Unlocked
<1> QED
  BY <1>1, <1>2, <1>3, <1>4

\* A statement changes the place of one transaction only.
LEMMA VisitFacts ==
    ASSUME TypeOK, NEW w \in Workers, NEW pc \in {"others", "prune"} \cup {worker[w].pc},
           NEW todo \in SUBSET Tokens, Visit(w, pc, todo)
    PROVE  /\ worker' \in [Workers -> Worker]
           /\ \A v \in Workers : v # w => worker'[v] = worker[v]
           /\ worker'[w].pc = pc /\ worker'[w].todo = todo
           /\ worker'[w].row \in todo \cup {NoToken}
           /\ worker'[w].own = worker[w].own /\ worker'[w].found = worker[w].found
           /\ worker'[w].oldTokens = worker[w].oldTokens
           /\ worker'[w].oldSessions = worker[w].oldSessions
<1>1. PICK t \in todo \cup {NoToken} :
         worker' = [worker EXCEPT ![w].pc = pc, ![w].todo = todo, ![w].row = t]
  BY DEF Visit
<1>2. worker \in [Workers -> Worker] /\ worker[w] \in Worker
  BY DEF TypeOK
<1> QED
  BY <1>1, <1>2 DEF Worker

-----------------------------------------------------------------------------
(* The invariant *)

LEMMA InitInvariant == Init => IInv
<1> SUFFICES ASSUME Init PROVE IInv
  OBVIOUS
<1>1. /\ NewWorker \in Worker /\ NewWorker.pc = "idle" /\ NewWorker.todo = {}
      /\ NewWorker.row = NoToken /\ NewWorker.oldTokens = {} /\ NewWorker.oldSessions = {}
  BY DEF NewWorker, Worker
<1>2. \A w \in Workers : worker[w] = NewWorker
  BY DEF Init
<1> HIDE DEF NewWorker
<1>3. TypeOK
  <2>1. \A k \in Keys : Limit(k) \in Nat
    BY LimitAssumption DEF Limit
  <2> QED
    BY <1>1, <1>2, <2>1 DEF Init, TypeOK
<1>4. Confirms \subseteq Workers
  BY DEF Workers
<1> QED
  BY <1>1, <1>2, <1>3, <1>4, NullAssumption
  DEF Init, IInv, VisitsOnlyInBulk, ClaimNamesToken, OwnIsLocked, OneMeetsTheOther, OldTokensAreMet,
      OldSessionsAreFound, LoginOpensOnce, SetterIsDone, Reached, Sweeping, At

USE DEF Workers

\* A transaction that ends without a commit.
LEMMA EndInvariant ==
    ASSUME IInv, NEW w \in Workers, NEW pc \in Ended \ {"reset"}, EndWorker(w, pc),
           worker[w].pc # "reset",
           UNCHANGED <<password, token, expired, decoys, session, login, leaving>>,
           attempts' \in [Keys -> Nat], \A k \in Keys : attempts'[k] <= Limit(k)
    PROVE  IInv'
<1>1. /\ worker' \in [Workers -> Worker]
      /\ \A v \in Workers : v # w => worker'[v] = worker[v]
      /\ worker'[w].pc = pc /\ worker'[w].todo = {} /\ worker'[w].row = NoToken
      /\ worker'[w].oldTokens = {} /\ worker'[w].oldSessions = {}
      /\ holder' \in [Tokens -> Workers \cup {Nobody}]
      /\ \A t \in Tokens, v \in Workers : v # w /\ holder[t] = v => holder'[t] = v
  BY EndFacts DEF IInv
<1>2. TypeOK'
  BY <1>1 DEF IInv, TypeOK
<1>3. VisitsOnlyInBulk'
  BY <1>1 DEF IInv, VisitsOnlyInBulk
<1>4. pc \notin {"begin", "others", "commit"}
  BY DEF Ended
<1>5. OwnIsLocked' /\ ClaimNamesToken'
  <2>1. OwnIsLocked'
    BY <1>1, <1>4 DEF IInv, OwnIsLocked, Reached, TypeOK
  <2>2. ClaimNamesToken'
    BY <1>1 DEF IInv, ClaimNamesToken, At, Ended
  <2> QED
    BY <2>1, <2>2
<1>6. OneMeetsTheOther'
  BY <1>1, <1>4 DEF IInv, OneMeetsTheOther, Sweeping
<1>7. OldTokensAreMet'
  BY <1>1, <1>4 DEF IInv, OldTokensAreMet, Sweeping, TypeOK, Worker
<1>8. OldSessionsAreFound' /\ LoginOpensOnce'
  BY <1>1, <1>4 DEF IInv, OldSessionsAreFound, LoginOpensOnce, At
<1>9. SetterIsDone'
  BY <1>1 DEF IInv, SetterIsDone, At
<1> QED
  BY <1>2, <1>3, <1>5, <1>6, <1>7, <1>8, <1>9 DEF IInv

LEMMA ConfirmInvariant ==
    ASSUME IInv, NEW r \in Confirms, Confirm(r)
    PROVE  IInv'
<1>1. PICK t \in Tokens :
        IF t \in expired THEN EndWorker(r, "invalid")
        ELSE worker' = [worker EXCEPT ![r].pc = "claim", ![r].own = t] /\ UNCHANGED holder
  BY DEF Confirm
<1>2. /\ worker \in [Workers -> Worker] /\ worker[r] \in Worker
      /\ worker[r].pc = "idle" /\ worker[r].todo = {}
  BY DEF IInv, TypeOK, Confirm, At, VisitsOnlyInBulk
<1>3. UNCHANGED <<password, token, expired, decoys, session, attempts, login, leaving>>
  BY DEF Confirm
<1>4. CASE t \in expired
  <2>1. EndWorker(r, "invalid") /\ "invalid" \in Ended \ {"reset"}
    BY <1>1, <1>4 DEF Ended
  <2> QED
    BY <1>2, <1>3, <2>1, EndInvariant DEF IInv, TypeOK
<1>5. CASE t \notin expired
  <2>1. /\ worker' \in [Workers -> Worker] /\ UNCHANGED holder
        /\ \A v \in Workers : v # r => worker'[v] = worker[v]
        /\ worker'[r].pc = "claim" /\ worker'[r].todo = {} /\ worker'[r].own = t
        /\ worker'[r].row = worker[r].row
        /\ worker'[r].oldTokens = worker[r].oldTokens
        /\ worker'[r].oldSessions = worker[r].oldSessions
    BY <1>1, <1>2, <1>5 DEF Worker
  <2> QED
    BY <1>2, <1>3, <2>1
    DEF IInv, TypeOK, VisitsOnlyInBulk, ClaimNamesToken, OwnIsLocked, OneMeetsTheOther,
        OldTokensAreMet, OldSessionsAreFound, LoginOpensOnce, SetterIsDone, Reached, Sweeping, At
<1> QED
  BY <1>4, <1>5

LEMMA ClaimInvariant ==
    ASSUME IInv, NEW r \in Confirms, Claim(r)
    PROVE  IInv'
<1> DEFINE t == worker[r].own
<1>1. CASE ~(Valid(t) /\ t \notin decoys)
  <2>1. EndWorker(r, "invalid")
        /\ UNCHANGED <<password, token, expired, decoys, session, attempts, login, leaving>>
    BY <1>1 DEF Claim
  <2>2. "invalid" \in Ended \ {"reset"} /\ worker[r].pc # "reset"
    BY DEF Ended, Claim, At
  <2> QED
    BY <2>1, <2>2, EndInvariant DEF IInv, TypeOK
<1>2. CASE Valid(t) /\ t \notin decoys
  <2>1. /\ holder' = [holder EXCEPT ![t] = r]
        /\ worker' = [worker EXCEPT ![r].pc = "begin",
                         ![r].oldTokens = Outstanding \ decoys, ![r].oldSessions = Active]
        /\ UNCHANGED <<password, token, expired, decoys, session, attempts, login, leaving>>
        /\ worker[r].pc = "claim" /\ holder[t] \in {Nobody, r}
        /\ worker[r].todo = {}
    BY <1>2 DEF Claim, At, Free, IInv, VisitsOnlyInBulk
  <2>2. /\ worker \in [Workers -> Worker] /\ worker[r] \in Worker
        /\ holder \in [Tokens -> Workers \cup {Nobody}]
        /\ t \in Tokens \cup {NoToken}
    BY DEF IInv, TypeOK, Worker
  <2>3. t \in Tokens /\ token[t] = "outstanding"
    BY <1>2, <2>1 DEF IInv, ClaimNamesToken, At, Valid
  <2>4. /\ worker' \in [Workers -> Worker]
        /\ \A v \in Workers : v # r => worker'[v] = worker[v]
        /\ worker'[r].pc = "begin" /\ worker'[r].todo = {} /\ worker'[r].own = t
        /\ worker'[r].row = worker[r].row
        /\ worker'[r].oldTokens = Outstanding \ decoys
        /\ worker'[r].oldSessions = Active
    BY <2>1, <2>2 DEF Worker, Outstanding, Active
  <2>5. /\ holder' \in [Tokens -> Workers \cup {Nobody}] /\ holder'[t] = r
        /\ \A u \in Tokens, v \in Workers : v # r /\ holder[u] = v => holder'[u] = v
    BY <2>1, <2>2, <2>3, NullAssumption
  <2> HIDE DEF t
  <2>6. TypeOK'
    BY <2>1, <2>4, <2>5 DEF IInv, TypeOK
  <2>7. VisitsOnlyInBulk' /\ ClaimNamesToken'
    BY <2>4 DEF IInv, VisitsOnlyInBulk, ClaimNamesToken, At
  <2>8. OwnIsLocked'
    BY <1>2, <2>1, <2>3, <2>4, <2>5 DEF IInv, OwnIsLocked, Reached
  <2>9. OneMeetsTheOther'
    BY <2>4 DEF IInv, OneMeetsTheOther, Sweeping
  <2>10. OldTokensAreMet'
    <3>1. \A u \in worker'[r].oldTokens : token'[u] # "unissued" /\ u \notin decoys'
      BY <2>1, <2>4 DEF Outstanding
    <3>2. \A q \in Confirms : worker[q].oldTokens \subseteq Tokens
      BY DEF IInv, TypeOK, Worker
    <3> QED
      BY <2>1, <2>4, <2>5, <3>1, <3>2 DEF IInv, OldTokensAreMet, Sweeping
  <2>11. OldSessionsAreFound' /\ LoginOpensOnce'
    BY <2>1, <2>4 DEF IInv, OldSessionsAreFound, LoginOpensOnce, At, Active
  <2>12. SetterIsDone'
    BY <2>1, <2>4 DEF IInv, SetterIsDone, At
  <2> QED
    BY <2>6, <2>7, <2>8, <2>9, <2>10, <2>11, <2>12 DEF IInv
<1> QED
  BY <1>1, <1>2

LEMMA BeginInvariant ==
    ASSUME IInv, NEW r \in Confirms, BeginOthers(r)
    PROVE  IInv'
<1> DEFINE others == OthersOf(r)
<1>1. others \in SUBSET Tokens
  BY DEF OthersOf, Outstanding
<1>2. /\ worker' \in [Workers -> Worker]
      /\ \A v \in Workers : v # r => worker'[v] = worker[v]
      /\ worker'[r].pc = "others" /\ worker'[r].todo = others
      /\ worker'[r].row \in others \cup {NoToken}
      /\ worker'[r].own = worker[r].own
      /\ worker'[r].oldTokens = worker[r].oldTokens
      /\ worker'[r].oldSessions = worker[r].oldSessions
  <2>1. TypeOK /\ Visit(r, "others", others) /\ r \in Workers
    BY DEF BeginOthers, IInv, Workers
  <2> HIDE DEF others
  <2> QED
    BY <1>1, <2>1, VisitFacts
<1>3. /\ UNCHANGED <<password, token, expired, decoys, holder, session, attempts, login, leaving>>
      /\ worker[r].pc = "begin"
  BY DEF BeginOthers, rows, At
<1>4. others = {t \in Tokens : token[t] = "outstanding"} \ (decoys \cup {worker[r].own})
  BY DEF OthersOf, Outstanding
<1> HIDE DEF others
<1>5. TypeOK'
  BY <1>2, <1>3 DEF IInv, TypeOK
<1>6. VisitsOnlyInBulk' /\ ClaimNamesToken' /\ OwnIsLocked'
  BY <1>2, <1>3 DEF IInv, VisitsOnlyInBulk, ClaimNamesToken, OwnIsLocked, Reached, At
<1>7. OneMeetsTheOther'
  <2>1. \A q \in Confirms : q # r /\ Sweeping(q) => worker[q].own \in others
    BY <1>3, <1>4 DEF IInv, OwnIsLocked, Reached, Sweeping
  <2> QED
    BY <1>2, <2>1 DEF IInv, OneMeetsTheOther, Sweeping
<1>8. OldTokensAreMet'
  BY <1>2, <1>3, <1>4 DEF IInv, OldTokensAreMet, Sweeping, TypeOK, Worker
<1>9. OldSessionsAreFound' /\ LoginOpensOnce' /\ SetterIsDone'
  BY <1>2, <1>3 DEF IInv, OldSessionsAreFound, LoginOpensOnce, SetterIsDone, At
<1> QED
  BY <1>5, <1>6, <1>7, <1>8, <1>9 DEF IInv

LEMMA TakeRowInvariant ==
    ASSUME IInv, NEW w \in Workers, TakeRow(w)
    PROVE  IInv'
<1> DEFINE t == worker[w].row
           todo == worker[w].todo \ {t}
<1>1. /\ worker[w] \in Worker /\ t \in worker[w].todo /\ t \in Tokens
      /\ todo \in SUBSET Tokens
      /\ worker[w].pc \in {"others", "prune"}
  BY DEF IInv, TypeOK, TakeRow, Worker, VisitsOnlyInBulk
<1>2. /\ worker' \in [Workers -> Worker]
      /\ \A v \in Workers : v # w => worker'[v] = worker[v]
      /\ worker'[w].pc = worker[w].pc /\ worker'[w].todo = todo
      /\ worker'[w].row \in todo \cup {NoToken}
      /\ worker'[w].own = worker[w].own /\ worker'[w].found = worker[w].found
      /\ worker'[w].oldTokens = worker[w].oldTokens
      /\ worker'[w].oldSessions = worker[w].oldSessions
  <2>1. TypeOK /\ Visit(w, worker[w].pc, todo)
    BY DEF TakeRow, IInv
  <2> HIDE DEF todo
  <2> QED
    BY <1>1, <2>1, VisitFacts
<1>3. /\ UNCHANGED <<password, token, expired, decoys, session, attempts, login, leaving>>
      /\ holder[t] \in {Nobody, w}
      /\ holder \in [Tokens -> Workers \cup {Nobody}]
  BY DEF TakeRow, Free, IInv, TypeOK
<1>4. /\ holder' \in [Tokens -> Workers \cup {Nobody}]
      /\ \A u \in Tokens, v \in Workers : holder[u] = v => holder'[u] = v
      /\ token[t] = "outstanding" => holder'[t] = w
  BY <1>1, <1>3, NullAssumption DEF TakeRow
<1> HIDE DEF t
<1>5. TypeOK'
  BY <1>2, <1>3, <1>4 DEF IInv, TypeOK
<1>6. VisitsOnlyInBulk' /\ ClaimNamesToken' /\ OwnIsLocked'
  BY <1>1, <1>2, <1>3, <1>4
  DEF IInv, VisitsOnlyInBulk, ClaimNamesToken, OwnIsLocked, Reached, At
<1>7. OneMeetsTheOther'
  <2>1. \A q \in Confirms : q # w /\ Sweeping(q) => worker[q].own # t
    BY <1>3, NullAssumption DEF IInv, OwnIsLocked, Reached, Sweeping
  <2> QED
    BY <1>2, <2>1 DEF IInv, OneMeetsTheOther, Sweeping
<1>8. OldTokensAreMet'
  BY <1>1, <1>2, <1>3, <1>4 DEF IInv, OldTokensAreMet, Sweeping, TypeOK, Worker
<1>9. OldSessionsAreFound' /\ LoginOpensOnce' /\ SetterIsDone'
  BY <1>2, <1>3 DEF IInv, OldSessionsAreFound, LoginOpensOnce, SetterIsDone, At
<1> QED
  BY <1>5, <1>6, <1>7, <1>8, <1>9 DEF IInv

LEMMA RevokeInvariant ==
    ASSUME IInv, NEW r \in Confirms, Revoke(r)
    PROVE  IInv'
<1>1. /\ worker \in [Workers -> Worker] /\ worker[r] \in Worker
      /\ worker' = [worker EXCEPT ![r].pc = "commit", ![r].found = Active]
      /\ worker[r].pc = "others" /\ worker[r].todo = {}
      /\ UNCHANGED <<password, token, expired, decoys, holder, session, attempts, login, leaving>>
  BY DEF Revoke, IInv, TypeOK, At, rows, SessionsOf
<1>2. /\ worker' \in [Workers -> Worker]
      /\ \A v \in Workers : v # r => worker'[v] = worker[v]
      /\ worker'[r].pc = "commit" /\ worker'[r].todo = {}
      /\ worker'[r].row = worker[r].row /\ worker'[r].own = worker[r].own
      /\ worker'[r].found = Active
      /\ worker'[r].oldTokens = worker[r].oldTokens
      /\ worker'[r].oldSessions = worker[r].oldSessions
  BY <1>1 DEF Worker, Active
<1>3. TypeOK'
  BY <1>1, <1>2 DEF IInv, TypeOK
<1>4. VisitsOnlyInBulk' /\ ClaimNamesToken' /\ OwnIsLocked'
  BY <1>1, <1>2 DEF IInv, VisitsOnlyInBulk, ClaimNamesToken, OwnIsLocked, Reached, At
<1>5. OneMeetsTheOther'
  BY <1>1, <1>2 DEF IInv, OneMeetsTheOther, Sweeping
<1>6. OldTokensAreMet'
  BY <1>1, <1>2 DEF IInv, OldTokensAreMet, Sweeping
<1>7. OldSessionsAreFound' /\ LoginOpensOnce' /\ SetterIsDone'
  <2>1. worker[r].oldSessions \subseteq Logins
    BY <1>1 DEF Worker
  <2>2. OldSessionsAreFound'
    BY <1>1, <1>2, <2>1 DEF IInv, OldSessionsAreFound, At, Active
  <2> QED
    BY <1>1, <1>2, <2>2 DEF IInv, LoginOpensOnce, SetterIsDone, At
<1> QED
  BY <1>3, <1>4, <1>5, <1>6, <1>7 DEF IInv

\* Of two confirmations about to commit one would have the other's token to visit.
LEMMA OneCommits ==
    ASSUME IInv, NEW q \in Confirms, NEW r \in Confirms, q # r,
           At(q, "commit"), At(r, "commit")
    PROVE  FALSE
<1>1. worker[q].todo = {} /\ worker[r].todo = {}
  BY DEF IInv, VisitsOnlyInBulk, At
<1> QED
  BY <1>1 DEF IInv, OneMeetsTheOther, Sweeping, At

LEMMA CommitInvariant ==
    ASSUME IInv, NEW r \in Confirms, Commit(r)
    PROVE  IInv'
<1>1. /\ worker' \in [Workers -> Worker]
      /\ \A v \in Workers : v # r => worker'[v] = worker[v]
      /\ worker'[r].pc = "reset" /\ worker'[r].todo = {} /\ worker'[r].row = NoToken
      /\ worker'[r].oldTokens = {} /\ worker'[r].oldSessions = {}
      /\ holder' \in [Tokens -> Workers \cup {Nobody}]
      /\ \A t \in Tokens, v \in Workers : v # r /\ holder[t] = v => holder'[t] = v
  BY EndFacts DEF Commit, IInv, Ended
<1>2. /\ password' = r
      /\ token' = [t \in Tokens |-> IF holder[t] = r THEN "used" ELSE token[t]]
      /\ session' = [s \in Logins |-> IF s \in worker[r].found /\ session[s] = "active"
                                      THEN "revoked" ELSE session[s]]
      /\ UNCHANGED <<expired, decoys, attempts, login, leaving>>
      /\ worker[r].pc = "commit"
  BY DEF Commit, Held, At
<1>3. TypeOK'
  BY <1>1, <1>2 DEF IInv, TypeOK
<1>4. VisitsOnlyInBulk' /\ ClaimNamesToken'
  BY <1>1, <1>2 DEF IInv, VisitsOnlyInBulk, ClaimNamesToken, At
<1>5. OwnIsLocked'
  BY <1>1, <1>2 DEF IInv, OwnIsLocked, Reached
<1>6. OneMeetsTheOther'
  BY <1>1, <1>2 DEF IInv, OneMeetsTheOther, Sweeping
<1>7. OldTokensAreMet'
  BY <1>1, <1>2 DEF IInv, OldTokensAreMet, Sweeping, TypeOK, Worker
<1>8. OldSessionsAreFound' /\ LoginOpensOnce'
  <2>1. LoginOpensOnce'
    BY <1>2 DEF IInv, LoginOpensOnce
  <2>2. OldSessionsAreFound'
    BY <1>1, <1>2 DEF IInv, OldSessionsAreFound, At, TypeOK, Worker
  <2> QED
    BY <2>1, <2>2
<1>9. SetterIsDone'
  BY <1>1, <1>2 DEF SetterIsDone, At
<1> QED
  BY <1>3, <1>4, <1>5, <1>6, <1>7, <1>8, <1>9 DEF IInv

-----------------------------------------------------------------------------
(* Requests, sessions and time *)

LEMMA RequestInvariant ==
    ASSUME IInv, NEW i \in Requests, Request(i)
    PROVE  IInv'
<1>1. PICK key \in {"account", "unknown"} :
         worker' = [worker EXCEPT ![i].pc = "start", ![i].key = key]
  BY DEF Request
<1>2. /\ worker \in [Workers -> Worker] /\ worker[i] \in Worker
      /\ worker[i].pc = "idle" /\ worker[i].todo = {}
      /\ UNCHANGED <<password, token, expired, decoys, holder, session, attempts, login, leaving>>
  BY DEF IInv, TypeOK, Request, At, VisitsOnlyInBulk, rows
<1>3. /\ worker' \in [Workers -> Worker]
      /\ \A v \in Workers : v # i => worker'[v] = worker[v]
      /\ worker'[i].pc = "start" /\ worker'[i].todo = {}
      /\ worker'[i].row = worker[i].row
  BY <1>1, <1>2 DEF Worker
<1>4. i \notin Confirms
  BY NullAssumption
<1> QED
  BY <1>2, <1>3, <1>4
  DEF IInv, TypeOK, VisitsOnlyInBulk, ClaimNamesToken, OwnIsLocked, OneMeetsTheOther,
      OldTokensAreMet, OldSessionsAreFound, LoginOpensOnce, SetterIsDone, Reached, Sweeping, At

LEMMA BeginPruneInvariant ==
    ASSUME IInv, NEW i \in Requests, BeginPrune(i)
    PROVE  IInv'
<1> DEFINE todo == {t \in expired : Stored(t)}
<1>1. /\ todo \in SUBSET Tokens /\ worker[i].pc = "start"
      /\ UNCHANGED <<password, token, expired, decoys, holder, session, attempts, login, leaving>>
  BY DEF IInv, TypeOK, BeginPrune, At, rows
<1>2. /\ worker' \in [Workers -> Worker]
      /\ \A v \in Workers : v # i => worker'[v] = worker[v]
      /\ worker'[i].pc = "prune" /\ worker'[i].row \in worker'[i].todo \cup {NoToken}
  <2>1. TypeOK /\ Visit(i, "prune", todo) /\ i \in Workers
    BY DEF BeginPrune, IInv, Workers
  <2> HIDE DEF todo
  <2> QED
    BY <1>1, <2>1, VisitFacts
<1>3. i \notin Confirms
  BY NullAssumption
<1> HIDE DEF todo
<1> QED
  BY <1>1, <1>2, <1>3
  DEF IInv, TypeOK, VisitsOnlyInBulk, ClaimNamesToken, OwnIsLocked, OneMeetsTheOther,
      OldTokensAreMet, OldSessionsAreFound, LoginOpensOnce, SetterIsDone, Reached, Sweeping, At

LEMMA PrunedInvariant ==
    ASSUME IInv, NEW i \in Requests, Pruned(i)
    PROVE  IInv'
<1>1. /\ worker' = [worker EXCEPT ![i].pc = "ip"]
      /\ token' = [t \in Tokens |-> IF holder[t] = i THEN "pruned" ELSE token[t]]
      /\ holder' = [t \in Tokens |-> IF holder[t] = i THEN Nobody ELSE holder[t]]
      /\ UNCHANGED <<password, expired, decoys, session, attempts, login, leaving>>
      /\ worker[i].pc = "prune" /\ worker[i].todo = {}
      /\ worker \in [Workers -> Worker] /\ worker[i] \in Worker
      /\ holder \in [Tokens -> Workers \cup {Nobody}]
  BY DEF Pruned, Held, Unlocked, IInv, TypeOK, At
<1>2. /\ worker' \in [Workers -> Worker]
      /\ \A v \in Workers : v # i => worker'[v] = worker[v]
      /\ worker'[i].pc = "ip" /\ worker'[i].todo = {} /\ worker'[i].row = worker[i].row
  BY <1>1 DEF Worker
<1>3. i \notin Confirms
  BY NullAssumption
<1>4. TypeOK'
  BY <1>1, <1>2 DEF IInv, TypeOK
<1>5. VisitsOnlyInBulk' /\ ClaimNamesToken'
  BY <1>1, <1>2, <1>3 DEF IInv, VisitsOnlyInBulk, ClaimNamesToken, At
<1>6. OwnIsLocked' /\ OneMeetsTheOther'
  BY <1>1, <1>2, <1>3 DEF IInv, OwnIsLocked, OneMeetsTheOther, Reached, Sweeping
<1>7. OldTokensAreMet'
  BY <1>1, <1>2, <1>3 DEF IInv, OldTokensAreMet, Sweeping, TypeOK, Worker
<1>8. OldSessionsAreFound' /\ LoginOpensOnce' /\ SetterIsDone'
  BY <1>1, <1>2, <1>3 DEF IInv, OldSessionsAreFound, LoginOpensOnce, SetterIsDone, At
<1> QED
  BY <1>4, <1>5, <1>6, <1>7, <1>8 DEF IInv

LEMMA CountInvariant ==
    ASSUME IInv, NEW i \in Requests, NEW pc \in {"ip", "account"}, NEW k \in Keys,
           NEW next \in {"account", "insert"}, CountAttempt(i, pc, k, next)
    PROVE  IInv'
<1>1. attempts' \in [Keys -> Nat] /\ \A j \in Keys : attempts'[j] <= Limit(j)
  <2>1. attempts \in [Keys -> Nat] /\ \A j \in Keys : attempts[j] <= Limit(j)
    BY DEF IInv, TypeOK
  <2>2. attempts' = IF attempts[k] < Limit(k) THEN [attempts EXCEPT ![k] = @ + 1] ELSE attempts
    BY DEF CountAttempt, Counted
  <2>3. \A j \in Keys : Limit(j) \in Nat
    BY LimitAssumption DEF Limit
  <2> QED
    BY <2>1, <2>2, <2>3
<1>2. /\ worker[i].pc \in {"ip", "account"}
      /\ UNCHANGED <<password, token, expired, decoys, session, login, leaving>>
  BY DEF CountAttempt, At
<1>3. CASE attempts[k] < Limit(k)
  <2>1. worker' = [worker EXCEPT ![i].pc = next] /\ holder' = holder
    BY <1>3 DEF CountAttempt
  <2>2. /\ worker' \in [Workers -> Worker]
        /\ \A v \in Workers : v # i => worker'[v] = worker[v]
        /\ worker'[i].todo = {} /\ worker'[i].row = worker[i].row
    BY <1>2, <2>1 DEF IInv, TypeOK, VisitsOnlyInBulk, Worker
  <2>3. i \notin Confirms
    BY NullAssumption
  <2>4. TypeOK'
    BY <1>1, <1>2, <2>1, <2>2, VisitFacts DEF IInv, TypeOK, VisitsOnlyInBulk
  <2> QED
    BY <1>2, <2>1, <2>2, <2>3, <2>4
    DEF IInv, VisitsOnlyInBulk, ClaimNamesToken, OwnIsLocked, OneMeetsTheOther,
        OldTokensAreMet, OldSessionsAreFound, LoginOpensOnce, SetterIsDone, Reached,
        Sweeping, At
<1>4. CASE ~(attempts[k] < Limit(k))
  <2>1. EndWorker(i, "limited") /\ "limited" \in Ended \ {"reset"} /\ worker[i].pc # "reset"
    BY <1>2, <1>4 DEF CountAttempt, Ended
  <2> QED
    BY <1>1, <1>2, <2>1, EndInvariant
<1> QED
  BY <1>3, <1>4

LEMMA InsertInvariant ==
    ASSUME IInv, NEW i \in Requests, Insert(i)
    PROVE  IInv'
<1>1. PICK t \in Tokens :
         /\ token[t] = "unissued"
         /\ token' = [token EXCEPT ![t] = "outstanding"]
         /\ decoys' \in {decoys, decoys \cup {t}}
  BY DEF Insert
<1>2. /\ worker' \in [Workers -> Worker]
      /\ \A v \in Workers : v # i => worker'[v] = worker[v]
      /\ worker'[i].pc = "issued" /\ worker'[i].todo = {} /\ worker'[i].row = NoToken
      /\ holder' \in [Tokens -> Workers \cup {Nobody}]
      /\ \A u \in Tokens, v \in Workers : v # i /\ holder[u] = v => holder'[u] = v
  BY EndFacts DEF Insert, IInv, Ended
<1>3. i \notin Confirms
  BY NullAssumption
<1>4. /\ UNCHANGED <<password, expired, session, attempts, login, leaving>>
      /\ token \in [Tokens -> {"unissued", "outstanding", "used", "pruned"}]
  BY DEF Insert, IInv, TypeOK
<1>5. TypeOK'
  BY <1>1, <1>2, <1>4 DEF IInv, TypeOK
<1>6. VisitsOnlyInBulk' /\ ClaimNamesToken'
  BY <1>2, <1>3 DEF IInv, VisitsOnlyInBulk, ClaimNamesToken, At
<1>7. OwnIsLocked' /\ OneMeetsTheOther'
  BY <1>1, <1>2, <1>3, <1>4 DEF IInv, OwnIsLocked, OneMeetsTheOther, Reached, Sweeping
<1>8. OldTokensAreMet'
  BY <1>1, <1>2, <1>3, <1>4 DEF IInv, OldTokensAreMet, Sweeping, TypeOK, Worker
<1>9. OldSessionsAreFound' /\ LoginOpensOnce' /\ SetterIsDone'
  BY <1>2, <1>3, <1>4 DEF IInv, OldSessionsAreFound, LoginOpensOnce, SetterIsDone, At
<1> QED
  BY <1>5, <1>6, <1>7, <1>8, <1>9 DEF IInv

\* Logins, logouts and the passing of time touch no transaction.
LEMMA OtherInvariant ==
    ASSUME IInv,
           \/ \E l \in Logins : Login(l) \/ OpenSession(l) \/ Authenticate(l) \/ Logout(l)
           \/ \E t \in Tokens : Expire(t)
           \/ \E k \in Keys : WindowEnds(k)
           \/ UNCHANGED vars
    PROVE  IInv'
<1>1. UNCHANGED <<password, token, decoys, holder, worker>>
  BY DEF Login, OpenSession, Authenticate, Logout, Expire, WindowEnds, vars, rows
<1>2. /\ TypeOK' /\ LoginOpensOnce'
      /\ \A s \in Logins : session[s] # "none" => session'[s] # "none"
      /\ \A s \in Logins : session[s] # "none" /\ session'[s] = "active" => session[s] = "active"
  <2>1. CASE \E l \in Logins : Login(l) \/ Authenticate(l)
    BY <2>1 DEF IInv, TypeOK, LoginOpensOnce, Login, Authenticate, rows
  <2>2. CASE \E l \in Logins : OpenSession(l)
    BY <2>2 DEF IInv, TypeOK, LoginOpensOnce, OpenSession, rows
  <2>3. CASE \E l \in Logins : Logout(l)
    <3>1. PICK l \in Logins : Logout(l)
      BY <2>3
    <3>2. TypeOK'
      BY <3>1 DEF IInv, TypeOK, Logout, rows
    <3> QED
      BY <3>1, <3>2 DEF IInv, TypeOK, LoginOpensOnce, Logout, rows
  <2>4. CASE \E t \in Tokens : Expire(t)
    BY <2>4 DEF IInv, TypeOK, LoginOpensOnce, Expire
  <2>5. CASE \E k \in Keys : WindowEnds(k)
    <3>1. \A k \in Keys : Limit(k) \in Nat
      BY LimitAssumption DEF Limit
    <3> QED
      BY <2>5, <3>1 DEF IInv, TypeOK, LoginOpensOnce, WindowEnds, rows
  <2>6. CASE UNCHANGED vars
    BY <2>6 DEF IInv, TypeOK, LoginOpensOnce, vars, rows
  <2> QED
    BY <2>1, <2>2, <2>3, <2>4, <2>5, <2>6
<1>3. \A r \in Confirms : worker[r].oldSessions \subseteq Logins
  BY DEF IInv, TypeOK, Worker
<1>4. OldSessionsAreFound'
  BY <1>1, <1>2, <1>3 DEF IInv, OldSessionsAreFound, At
<1> QED
  BY <1>1, <1>2, <1>4
  DEF IInv, VisitsOnlyInBulk, ClaimNamesToken, OwnIsLocked, OneMeetsTheOther,
      OldTokensAreMet, SetterIsDone, Reached, Sweeping, At

-----------------------------------------------------------------------------
(* Theorems *)

LEMMA NextInvariant == IInv /\ [Next]_vars => IInv'
<1> SUFFICES ASSUME IInv, [Next]_vars PROVE IInv'
  OBVIOUS
<1>1. CASE \E r \in Confirms : Confirm(r) \/ ConfirmStep(r)
  BY <1>1, ConfirmInvariant, ClaimInvariant, BeginInvariant, TakeRowInvariant,
     RevokeInvariant, CommitInvariant DEF ConfirmStep
<1>2. CASE \E i \in Requests : Request(i) \/ RequestStep(i)
  <2>1. PICK i \in Requests : Request(i) \/ RequestStep(i)
    BY <1>2
  <2>2. worker[i].key \in Keys /\ "ip" \in Keys
    BY DEF IInv, TypeOK, Worker, Keys
  <2>3. CASE CountAttempt(i, "ip", "ip", "account")
    BY <2>2, <2>3, CountInvariant
  <2>4. CASE CountAttempt(i, "account", worker[i].key, "insert")
    BY <2>2, <2>4, CountInvariant
  <2> QED
    BY <2>1, <2>3, <2>4, RequestInvariant, BeginPruneInvariant, TakeRowInvariant,
       PrunedInvariant, InsertInvariant DEF RequestStep
<1>3. CASE \E w \in Workers : DeadlockVictim(w) \/ Fail(w)
  <2>1. PICK w \in Workers : DeadlockVictim(w) \/ Fail(w)
    BY <1>3
  <2>2. /\ EndWorker(w, "failed") /\ "failed" \in Ended \ {"reset"}
        /\ UNCHANGED <<password, token, expired, decoys, session, attempts, login, leaving>>
    BY <2>1 DEF DeadlockVictim, Fail, Ended
  <2>3. worker[w].pc # "reset"
    <3>1. CASE Fail(w)
      BY <3>1 DEF Fail, Ended
    <3>2. CASE DeadlockVictim(w)
      <4>1. Blocked(w)
        BY <3>2 DEF DeadlockVictim, Deadlock, Closed
      <4>2. At(w, "claim") \/ worker[w].row \in Tokens
        BY <4>1 DEF Blocked, Wanted
      <4>3. worker[w].row \in Tokens => worker[w].pc \in {"others", "prune"}
        BY NullAssumption DEF IInv, TypeOK, VisitsOnlyInBulk
      <4> QED
        BY <4>2, <4>3 DEF At
    <3> QED
      BY <2>1, <3>1, <3>2
  <2> QED
    BY <2>2, <2>3, EndInvariant DEF IInv, TypeOK
<1>4. CASE \/ \E l \in Logins : Login(l) \/ OpenSession(l) \/ Authenticate(l) \/ Logout(l)
           \/ \E t \in Tokens : Expire(t)
           \/ \E k \in Keys : WindowEnds(k)
           \/ UNCHANGED vars
  BY <1>4, OtherInvariant
<1> QED
  BY <1>1, <1>2, <1>3, <1>4 DEF Next

LEMMA Invariant == Spec => []IInv
  BY InitInvariant, NextInvariant, PTL DEF Spec

\* Tokens, locks, sessions and counters keep their types, and no attempt over a
\* rate limit is ever kept (password_reset.py:84).
THEOREM TypeCorrect == Spec => []TypeOK
<1>1. IInv => TypeOK
  BY DEF IInv
<1> QED
  BY <1>1, Invariant, PTL

\* However many confirmations, requests and tokens there are, one confirmation
\* at most is past the user's other tokens.
THEOREM MutualExclusion == Spec => []OneAtATime
<1>1. IInv => OneAtATime
  BY OneCommits DEF OneAtATime, At
<1> QED
  BY <1>1, Invariant, PTL

\* Only a commit changes the password, and then its own token is consumed.
LEMMA PasswordChange ==
    ASSUME IInv, Next
    PROVE  \/ UNCHANGED password /\ \A t \in Tokens :
                 ~(token[t] = "outstanding" /\ token'[t] = "used")
           \/ \E r \in Confirms : Commit(r)
<1>1. CASE \E i \in Requests : Pruned(i)
  BY <1>1 DEF Pruned
<1>2. CASE \E i \in Requests : Insert(i)
  BY <1>2 DEF Insert, IInv, TypeOK
<1>3. CASE \E i \in Requests : \/ CountAttempt(i, "ip", "ip", "account")
                               \/ CountAttempt(i, "account", worker[i].key, "insert")
  BY <1>3 DEF CountAttempt
<1>4. CASE \E w \in Workers : TakeRow(w) \/ DeadlockVictim(w) \/ Fail(w)
  BY <1>4 DEF TakeRow, DeadlockVictim, Fail
<1>5. CASE \/ \E l \in Logins : Login(l) \/ OpenSession(l) \/ Authenticate(l) \/ Logout(l)
           \/ \E t \in Tokens : Expire(t)
           \/ \E k \in Keys : WindowEnds(k)
  BY <1>5 DEF Login, OpenSession, Authenticate, Logout, Expire, WindowEnds, rows
<1>6. CASE \E r \in Confirms : Confirm(r) \/ Claim(r) \/ BeginOthers(r) \/ Revoke(r)
  BY <1>6 DEF Confirm, Claim, BeginOthers, Revoke, rows
<1>7. CASE \E i \in Requests : Request(i) \/ BeginPrune(i)
  BY <1>7 DEF Request, BeginPrune, rows
<1> QED
  BY <1>1, <1>2, <1>3, <1>4, <1>5, <1>6, <1>7 DEF Next, ConfirmStep, RequestStep

\* A commit sets a new password, consumes its own token, and leaves nothing of
\* what its confirmation found.
LEMMA CommitFacts ==
    ASSUME IInv, NEW r \in Confirms, Commit(r)
    PROVE  /\ password' = r /\ password # r
           /\ \E t \in Tokens : token[t] = "outstanding" /\ token'[t] = "used"
           /\ \A t \in worker[r].oldTokens : token'[t] # "outstanding"
           /\ \A s \in worker[r].oldSessions : session'[s] # "active"
<1>1. /\ password' = r /\ worker[r].pc = "commit" /\ worker[r].todo = {}
      /\ token' = [t \in Tokens |-> IF holder[t] = r THEN "used" ELSE token[t]]
      /\ session' = [s \in Logins |-> IF s \in worker[r].found /\ session[s] = "active"
                                      THEN "revoked" ELSE session[s]]
  BY DEF Commit, Held, At, IInv, VisitsOnlyInBulk
<1>2. /\ worker[r].own \in Tokens /\ holder[worker[r].own] = r
      /\ token[worker[r].own] = "outstanding"
  BY <1>1 DEF IInv, OwnIsLocked, Reached
<1>3. worker[r].oldTokens \subseteq Tokens /\ worker[r].oldSessions \subseteq Logins
  BY DEF IInv, TypeOK, Worker
<1>4. \A t \in worker[r].oldTokens : token'[t] # "outstanding"
  BY <1>1, <1>2, <1>3 DEF IInv, OldTokensAreMet, Sweeping
<1>5. \A s \in worker[r].oldSessions : session'[s] # "active"
  BY <1>1, <1>3 DEF IInv, OldSessionsAreFound, At
<1>6. password # r
  BY <1>1 DEF IInv, SetterIsDone, At
<1> QED
  BY <1>1, <1>2, <1>4, <1>5, <1>6

\* A password is set exactly when an outstanding token is consumed.
THEOREM ResetsAreAtomic == Spec => ResetIsAtomic
<1>1. IInv /\ [Next]_vars =>
        [password' # password
           <=> \E t \in Tokens : token[t] = "outstanding" /\ token'[t] = "used"]_vars
  BY PasswordChange, CommitFacts
<1> QED
  BY <1>1, Invariant, PTL DEF Spec, ResetIsAtomic

\* What a confirmation found outstanding or signed in is gone at its commit.
THEOREM ResetsSweep == Spec => ResetSweeps
<1>1. IInv /\ [Next]_vars =>
        [\A r \in Confirms :
           password' = r /\ password # r =>
             /\ \A t \in worker[r].oldTokens : token'[t] # "outstanding"
             /\ \A s \in worker[r].oldSessions : session'[s] # "active"]_vars
  BY PasswordChange, CommitFacts
<1> QED
  BY <1>1, Invariant, PTL DEF Spec, ResetSweeps

\* A token that sets the password takes everything with it that was found.
THEOREM ResetsAreWhole == Spec => ResetIsWhole
  BY ResetsAreAtomic, ResetsSweep DEF ResetIsWhole
=============================================================================
