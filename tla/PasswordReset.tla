---------------------------- MODULE PasswordReset ----------------------------
(***************************************************************************)
(* Password reset and login of one portal user:                            *)
(* identity/services/password_reset.py and auth.py over                    *)
(* persistence/password_reset.py.                                          *)
(*                                                                         *)
(* A reset request prunes expired tokens, counts against two rate limits   *)
(* and stores a token, each in a transaction of its own.  A confirmation   *)
(* is one READ COMMITTED transaction of three bulk updates: it claims its  *)
(* token, then consumes the user's other tokens, then revokes the user's   *)
(* sessions; the new password is flushed only by the commit.  A bulk       *)
(* update or delete sees the rows that match when the statement begins,    *)
(* locks them one after the other in no particular order, waits for rows   *)
(* another transaction has locked and then looks at them again.            *)
(***************************************************************************)
EXTENDS Integers, FiniteSets

CONSTANTS
    Confirms,       \* POST /password-reset/confirm
    Requests,       \* POST /password-reset/request
    Logins,         \* POST /login; also the session a login opens
    Tokens,         \* reset tokens that may be issued
    Nobody, NoToken,
    Original,       \* the password before any reset
    IpMax,          \* PASSWORD_RESET_IP_RATE_LIMIT_MAX
    AccountMax      \* PASSWORD_RESET_ACCOUNT_RATE_LIMIT_MAX

Workers == Confirms \cup Requests

ASSUME NullAssumption == /\ Nobody \notin Workers /\ NoToken \notin Tokens
                         /\ Original \notin Confirms /\ Confirms \cap Requests = {}
ASSUME LimitAssumption == IpMax \in Nat /\ AccountMax \in Nat

VARIABLES
    password,   \* who set users.password_hash last
    token,      \* magic_link_tokens with purpose PASSWORD_RESET, committed
    expired,    \* tokens whose 30 minutes have passed
    decoys,     \* tokens of an unknown email: user_id is NULL
    holder,     \* row lock on a token
    session,    \* auth_sessions, committed
    attempts,   \* password_reset_rate_limits: count in the current window
    worker,     \* transaction of a confirmation or a request
    login,      \* program counter of a login
    leaving     \* sessions an authenticated logout is about to delete

rows == <<token, expired, decoys, holder>>
vars == <<password, rows, session, attempts, worker, login, leaving>>

-----------------------------------------------------------------------------
\* The client's address, the user's email, and an email nobody has.
Keys == {"ip", "account", "unknown"}
Limit(k) == IF k = "ip" THEN IpMax ELSE AccountMax

Ended == {"reset", "invalid", "failed", "issued", "limited"}

Worker == [pc : {"idle", "claim", "begin", "others", "commit",
                 "start", "prune", "ip", "account", "insert"} \cup Ended,
           own : Tokens \cup {NoToken},      \* the token presented
           todo : SUBSET Tokens,             \* rows the statement has yet to visit
           row : Tokens \cup {NoToken},      \* the row it is at
           found : SUBSET Logins,            \* sessions it has revoked
           key : {"account", "unknown"},     \* whose limit a request counts against
           \* history: what was there when the token was claimed
           oldTokens : SUBSET Tokens, oldSessions : SUBSET Logins]

NewWorker == [pc |-> "idle", own |-> NoToken, todo |-> {}, row |-> NoToken,
              found |-> {}, key |-> "account", oldTokens |-> {}, oldSessions |-> {}]

TypeOK ==
    /\ password \in Confirms \cup {Original}
    /\ token \in [Tokens -> {"unissued", "outstanding", "used", "pruned"}]
    /\ expired \in SUBSET Tokens /\ decoys \in SUBSET Tokens
    /\ holder \in [Tokens -> Workers \cup {Nobody}]
    /\ session \in [Logins -> {"none", "active", "revoked", "deleted"}]
    /\ attempts \in [Keys -> Nat]
    /\ \A k \in Keys : attempts[k] <= Limit(k)
    /\ worker \in [Workers -> Worker]
    /\ \A w \in Workers : worker[w].row \in worker[w].todo \cup {NoToken}
    /\ login \in [Logins -> {"idle", "verified", "done"}]
    /\ leaving \in SUBSET Logins

Init ==
    /\ password = Original
    /\ token = [t \in Tokens |-> "unissued"]
    /\ expired = {} /\ decoys = {}
    /\ holder = [t \in Tokens |-> Nobody]
    /\ session = [s \in Logins |-> "none"]
    /\ attempts = [k \in Keys |-> 0]
    /\ worker = [w \in Workers |-> NewWorker]
    /\ login = [l \in Logins |-> "idle"]
    /\ leaving = {}

-----------------------------------------------------------------------------
(* Transactions *)

At(w, pc) == worker[w].pc = pc
Stored(t) == token[t] \in {"outstanding", "used"}
Free(w, t) == holder[t] \in {Nobody, w}
Active == {s \in Logins : session[s] = "active"}
Outstanding == {t \in Tokens : token[t] = "outstanding"}

Held(w) == {t \in Tokens : holder[t] = w}

\* Mutation: a failed bulk update is answered without a rollback.
Unlocked_KeptOnFailure(w) ==
    [t \in Tokens |-> IF holder[t] = w /\ ~At(w, "others") THEN Nobody ELSE holder[t]]

\* Commit and rollback release every row lock.
Unlocked(w) == [t \in Tokens |-> IF holder[t] = w THEN Nobody ELSE holder[t]]

EndWorker(w, pc) ==
    /\ worker' = [worker EXCEPT ![w] = [NewWorker EXCEPT !.pc = pc]]
    /\ holder' = Unlocked(w)

\* A statement over the given rows begins; it is at one of them.
Visit(w, pc, todo) ==
    \E t \in IF todo = {} THEN {NoToken} ELSE todo :
        worker' = [worker EXCEPT ![w].pc = pc, ![w].todo = todo, ![w].row = t]

\* The row the transaction wants, and whether another one keeps it waiting.
Wanted(w) == IF At(w, "claim") THEN worker[w].own ELSE worker[w].row
Blocked(w) == Wanted(w) \in Tokens /\ ~Free(w, Wanted(w))

Closed(c) == c # {} /\ \A w \in c : Blocked(w) /\ holder[Wanted(w)] \in c
Deadlock(c) == Closed(c) /\ \A d \in SUBSET c : Closed(d) => d = c

-----------------------------------------------------------------------------
(* confirm_password_reset *)

\* The lifetime is compared with the time of the start: a token that has
\* expired by then matches nothing, one that expires while its row is waited
\* for is claimed all the same.
Confirm(r) ==
    /\ At(r, "idle")
    /\ \E t \in Tokens :
          /\ Stored(t)
          /\ IF t \in expired
             THEN EndWorker(r, "invalid")
             ELSE /\ worker' = [worker EXCEPT ![r].pc = "claim", ![r].own = t]
                  /\ UNCHANGED holder
    /\ UNCHANGED <<password, token, expired, decoys, session, attempts, login, leaving>>

\* Mutation: the row is not looked at again after waiting for its lock.
Valid_AsFirstSeen(t) == Stored(t)

Valid(t) == token[t] = "outstanding"

\* claim_valid_password_reset_token, the reads of the token and of its user.
Claim(r) ==
    LET t == worker[r].own IN
    /\ At(r, "claim") /\ Free(r, t)
    /\ IF Valid(t) /\ t \notin decoys
       THEN /\ holder' = [holder EXCEPT ![t] = r]
            /\ worker' = [worker EXCEPT ![r].pc = "begin",
                            ![r].oldTokens = Outstanding \ decoys,
                            ![r].oldSessions = Active]
       ELSE EndWorker(r, "invalid")
    /\ UNCHANGED <<password, token, expired, decoys, session, attempts, login, leaving>>

\* Its own token is already used in its own view.
OthersOf(r) == Outstanding \ (decoys \cup {worker[r].own})

\* invalidate_outstanding_password_reset_tokens: the statement begins.
BeginOthers(r) ==
    /\ At(r, "begin")
    /\ Visit(r, "others", OthersOf(r))
    /\ UNCHANGED <<password, rows, session, attempts, login, leaving>>

\* A row is locked, looked at again, and consumed or left alone.
TakeRow(w) ==
    LET t == worker[w].row IN
    /\ worker[w].row # NoToken /\ Free(w, t)
    /\ holder' = IF token[t] = "outstanding" \/ (At(w, "prune") /\ Stored(t))
                 THEN [holder EXCEPT ![t] = w] ELSE holder
    /\ Visit(w, worker[w].pc, worker[w].todo \ {t})
    /\ UNCHANGED <<password, token, expired, decoys, session, attempts, login, leaving>>

SessionsOf(r) == Active

\* revoke_active_auth_sessions.  No other confirmation has session rows locked:
\* it still waits for this one's own token, or this one for its.
Revoke(r) ==
    /\ At(r, "others") /\ worker[r].todo = {}
    /\ worker' = [worker EXCEPT ![r].pc = "commit", ![r].found = SessionsOf(r)]
    /\ UNCHANGED <<password, rows, session, attempts, login, leaving>>

\* The password is flushed and everything becomes visible.
Commit(r) ==
    /\ At(r, "commit")
    /\ password' = r
    /\ token' = [t \in Tokens |-> IF t \in Held(r) THEN "used" ELSE token[t]]
    /\ session' = [s \in Logins |->
                     IF s \in worker[r].found /\ session[s] = "active"
                     THEN "revoked" ELSE session[s]]
    /\ EndWorker(r, "reset")
    /\ UNCHANGED <<expired, decoys, attempts, login, leaving>>

-----------------------------------------------------------------------------
(* prepare_password_reset *)

Request(i) ==
    /\ At(i, "idle")
    /\ \E key \in {"account", "unknown"} : worker' = [worker EXCEPT ![i].pc = "start", ![i].key = key]
    /\ UNCHANGED <<password, rows, session, attempts, login, leaving>>

BeginPrune(i) ==
    /\ At(i, "start")
    /\ Visit(i, "prune", {t \in expired : Stored(t)})
    /\ UNCHANGED <<password, rows, session, attempts, login, leaving>>

\* prune_expired_password_reset_tokens commits on its own.
Pruned(i) ==
    /\ At(i, "prune") /\ worker[i].todo = {}
    /\ token' = [t \in Tokens |-> IF t \in Held(i) THEN "pruned" ELSE token[t]]
    /\ holder' = Unlocked(i)
    /\ worker' = [worker EXCEPT ![i].pc = "ip"]
    /\ UNCHANGED <<password, expired, decoys, session, attempts, login, leaving>>

\* An attempt over the limit is rolled back.
Counted(k) == IF attempts[k] < Limit(k) THEN [attempts EXCEPT ![k] = @ + 1] ELSE attempts

\* enforce_password_reset_rate_limit.
CountAttempt(i, pc, k, next) ==
    /\ At(i, pc)
    /\ attempts' = Counted(k)
    /\ IF attempts[k] < Limit(k)
       THEN worker' = [worker EXCEPT ![i].pc = next] /\ UNCHANGED holder
       ELSE EndWorker(i, "limited")
    /\ UNCHANGED <<password, token, expired, decoys, session, login, leaving>>

\* The token of the user, or a decoy when nobody has the email.
Insert(i) ==
    /\ At(i, "insert")
    /\ \E t \in Tokens :
          /\ token[t] = "unissued"
          /\ token' = [token EXCEPT ![t] = "outstanding"]
          /\ decoys' = IF worker[i].key = "unknown" THEN decoys \cup {t} ELSE decoys
    /\ EndWorker(i, "issued")
    /\ UNCHANGED <<password, expired, session, attempts, login, leaving>>

-----------------------------------------------------------------------------
(* Sessions, failures and time *)

\* login_user verifies the password it has read ...
Login(l) ==
    /\ login[l] = "idle"
    /\ login' = [login EXCEPT ![l] = "verified"]
    /\ UNCHANGED <<password, rows, session, attempts, worker, leaving>>

\* ... and commits the new session later.
OpenSession(l) ==
    /\ login[l] = "verified"
    /\ login' = [login EXCEPT ![l] = "done"]
    /\ session' = [session EXCEPT ![l] = "active"]
    /\ UNCHANGED <<password, rows, attempts, worker, leaving>>

\* authenticate_session of a logout.
Authenticate(s) ==
    /\ session[s] = "active" /\ s \notin leaving
    /\ leaving' = leaving \cup {s}
    /\ UNCHANGED <<password, rows, session, attempts, worker, login>>

\* logout_session waits for a confirmation that has revoked the row.
Logout(s) ==
    /\ s \in leaving
    /\ \A r \in Confirms : s \notin worker[r].found
    /\ leaving' = leaving \ {s}
    /\ session' = [session EXCEPT ![s] = "deleted"]
    /\ UNCHANGED <<password, rows, attempts, worker, login>>

\* The database ends a deadlock by failing one of its transactions.
DeadlockVictim(w) ==
    /\ \E c \in SUBSET Workers : w \in c /\ Deadlock(c)
    /\ EndWorker(w, "failed")
    /\ UNCHANGED <<password, token, expired, decoys, session, attempts, login, leaving>>

\* A statement fails or the process dies: the transaction is rolled back.
Fail(w) ==
    /\ worker[w].pc \notin Ended \cup {"idle"}
    /\ EndWorker(w, "failed")
    /\ UNCHANGED <<password, token, expired, decoys, session, attempts, login, leaving>>

Expire(t) ==
    /\ Stored(t) /\ t \notin expired
    /\ expired' = expired \cup {t}
    /\ UNCHANGED <<password, token, decoys, holder, session, attempts, worker, login, leaving>>

\* A window of 15 minutes ends: the next attempt counts as its first.
WindowEnds(k) ==
    /\ attempts[k] > 0
    /\ attempts' = [attempts EXCEPT ![k] = 0]
    /\ UNCHANGED <<password, rows, session, worker, login, leaving>>

ConfirmStep(r) == Claim(r) \/ BeginOthers(r) \/ TakeRow(r) \/ Revoke(r) \/ Commit(r)

RequestStep(i) ==
    \/ BeginPrune(i) \/ TakeRow(i) \/ Pruned(i)
    \/ CountAttempt(i, "ip", "ip", "account")
    \/ CountAttempt(i, "account", worker[i].key, "insert")
    \/ Insert(i)

Next ==
    \/ \E r \in Confirms : Confirm(r) \/ ConfirmStep(r)
    \/ \E i \in Requests : Request(i) \/ RequestStep(i)
    \/ \E w \in Workers : DeadlockVictim(w) \/ Fail(w)
    \/ \E l \in Logins : Login(l) \/ OpenSession(l) \/ Authenticate(l) \/ Logout(l)
    \/ \E t \in Tokens : Expire(t)
    \/ \E k \in Keys : WindowEnds(k)

Spec == Init /\ [][Next]_vars

\* Started transactions go on, and the database breaks deadlocks; nothing has
\* to fail for another reason.
Fairness ==
    /\ \A r \in Confirms : WF_vars(ConfirmStep(r))
    /\ \A i \in Requests : WF_vars(RequestStep(i))
    /\ WF_vars(\E w \in Workers : DeadlockVictim(w))

FairSpec == Spec /\ Fairness

-----------------------------------------------------------------------------
(* Properties *)

\* Confirmations of one user's tokens exclude each other although nothing locks
\* the user: only one of them gets past the other tokens (persistence/
\* password_reset.py:92), because each has locked a token the other must take.
OneAtATime ==
    \A q, r \in Confirms :
        worker[q].pc = "commit" /\ worker[r].pc = "commit" => q = r

\* The password changes exactly when an outstanding token is consumed: a token
\* sets one password at most, and is not lost without setting one, whichever
\* confirmations, failures and deadlocks lie in between (password_reset.py:188).
ResetIsAtomic ==
    [][password' # password
         <=> \E t \in Tokens : token[t] = "outstanding" /\ token'[t] = "used"]_vars

\* Whatever was outstanding or signed in when a confirmation claimed its token
\* is gone when that confirmation has set the password (password_reset.py:225-238).
ResetSweeps ==
    [][\A r \in Confirms :
          password' = r /\ password # r =>
            /\ \A t \in worker[r].oldTokens : token'[t] # "outstanding"
            /\ \A s \in worker[r].oldSessions : session'[s] # "active"]_vars

\* A reset is whole: its token buys the password and the end of all it found.
ResetIsWhole == ResetIsAtomic /\ ResetSweeps

\* A confirmation that has started is answered, also when its bulk updates and
\* those of others wait for each other.
ConfirmEnds ==
    \A r \in Confirms : At(r, "claim") ~> worker[r].pc \in Ended

\* docs/architecture/portal-identity-session-legal-baseline.md:81, read at its
\* word: setting the password revokes every session that is active then.
ResetRevokesEverySession ==
    [][password' # password =>
         \A s \in Logins : session[s] = "active" => session'[s] # "active"]_vars
=============================================================================
