-------------------------------- MODULE LbxClient --------------------------------
(***************************************************************************)
(* The client of the billing system: integrations/lbx/client.py with the   *)
(* requests of _transport.py, run by PreflightBudget.run and closed by     *)
(* composition/sources.py.                                                 *)
(*                                                                         *)
(* One session is shared by all calls.  A call is a source task and the    *)
(* caller that awaits it; the caller may give up while the task goes on.   *)
(* Everything runs on one event loop, a step lasts from one await to the   *)
(* next.  Each call has a budget of its own; calls made one after the      *)
(* other under one budget behave as calls whose budgets expire together.   *)
(***************************************************************************)
EXTENDS LbxWire

CONSTANTS
    Reads,          \* logical GETs
    Prepares,       \* prepare_customer_create: a session and nothing else
    Creates,        \* POSTs
    Billing,        \* the calls admitted by the billing admission
    Casts,          \* bound: the sets of calls that are made in one behaviour
    Limit,          \* lbx_max_get_attempts
    Lifetimes,      \* what LBX may say of the life of a session
    MaxTime,        \* bound: the clock
    MaxSessions     \* bound: sessions LBX opens

Calls  == Reads \cup Prepares \cup Creates
None   == 0         \* no session
Nobody == "nobody"  \* the lock is free

ASSUME CallsAssumption ==
    /\ IsFiniteSet(Calls) /\ Nobody \notin Calls
    /\ Billing \subseteq Calls /\ Casts \subseteq SUBSET Calls
    /\ Reads \cap Prepares = {} /\ Creates \cap (Reads \cup Prepares) = {}
ASSUME BoundsAssumption ==
    Limit \in Nat \ {0} /\ Lifetimes \subseteq Nat \ {0} /\ MaxTime \in Nat /\ MaxSessions \in Nat

VARIABLES
    now,        \* the monotonic clock
    opened,     \* the sessions LBX opened: until when the portal and LBX keep them
    session,    \* _session: the cached session
    lock,       \* who holds _session_lock
    call,       \* the source task of each call
    told,       \* what the caller of each create was told
    expired,    \* calls whose budget is over
    shutdown,   \* how far source_resources has closed
    left,       \* how often the request of a create left the process
    carried     \* with how many sessions in turn each read has sent a request


vars == <<now, opened, session, lock, call, told, expired, shutdown, left, carried>>

Sessions == 1..MaxSessions

\* pc: where the task is; used: requests taken from its attempts; prev, reauth:
\* the session it last used, and whether it changed; since: when it asked for a
\* session; out: what the task ended with.
Task == [pc : {"new", "scheduled", "lock", "auth", "get", "wait", "queued", "wire", "done"},
         used : 0..Limit, prev : 0..MaxSessions, reauth : BOOLEAN, since : 0..MaxTime,
         cancelled : BOOLEAN, out : {"none", "ok", "failed", "unknown", "notSent", "cancelled"}]

NewTask == [pc |-> "new", used |-> 0, prev |-> None, reauth |-> FALSE, since |-> 0,
            cancelled |-> FALSE, out |-> "none"]

Answers == {"ok", "failed", "unknown", "notSent", "cancelled"}

TypeOK ==
    /\ now \in 0..MaxTime
    /\ opened \in Seq([expires : Nat, ends : Nat]) /\ Len(opened) <= MaxSessions
    /\ session \in 0..Len(opened)
    /\ lock \in Calls \cup {Nobody}
    /\ call \in [Calls -> Task]
    /\ told \in [Creates -> Answers \cup {"none", "asked", "draining", "leaving"}]
    /\ expired \in SUBSET Calls
    /\ shutdown \in {"no", "billing", "billingPending", "offers", "offersPending", "closed"}
    /\ left \in [Creates -> 0..1]
    /\ carried \in [Reads -> Nat]

Init ==
    /\ now = 0 /\ opened = <<>> /\ session = None /\ lock = Nobody
    /\ \E cast \in Casts :
        call = [c \in Calls |-> IF c \in cast THEN NewTask ELSE [NewTask EXCEPT !.pc = "done"]]
    /\ told = [c \in Creates |-> "none"]
    /\ expired = {} /\ shutdown = "no"
    /\ left = [c \in Creates |-> 0]
    /\ carried = [c \in Reads |-> 0]

Live(c) == call[c].pc \notin {"new", "done"}

\* budget.check: the deadline, and the admission the call belongs to.
AdmissionOpen(c) ==
    IF c \in Billing THEN shutdown = "no" ELSE shutdown \notin {"offers", "offersPending", "closed"}

Check(c) == c \notin expired /\ AdmissionOpen(c)

-----------------------------------------------------------------------------
(* Steps of a source task.  Each operator says what becomes of call, lock,  *)
(* session and carried when task c, in state t, goes on with s cached.      *)

Unlocked(c) == IF lock = c THEN Nobody ELSE lock

Goes(c, t) == call' = [call EXCEPT ![c] = t]

\* Of the locals only "dispatched" outlives the task.
Ends(c, t, out) ==
    /\ Goes(c, [NewTask EXCEPT !.pc = "done", !.out = out,
                               !.used = IF c \in Creates THEN t.used ELSE 0])
    /\ lock' = Unlocked(c)
    /\ UNCHANGED carried

Valid(s) == s # None /\ now < opened[s].expires

\* Mutation: a third session is used by a read that has already changed its own.
Worn_Ever(t, s) == t.used >= Limit

\* A read has no request left, or would change its session a second time.
Worn(t, s) == t.used >= Limit \/ (t.reauth /\ s # t.prev)

\* The session at hand: a read sends its request with it, a prepare is done.
Uses(c, t, s) ==
    IF c \in Prepares THEN Ends(c, t, "ok")
    ELSE IF Worn(t, s) THEN Ends(c, t, "failed")
    ELSE /\ Goes(c, [t EXCEPT !.pc = "get", !.used = @ + 1, !.prev = s, !.since = 0,
                              !.reauth = @ \/ t.prev \notin {None, s}])
         /\ lock' = Unlocked(c)
         /\ carried' = [carried EXCEPT ![c] = IF s = t.prev THEN @ ELSE @ + 1]

\* Under the lock, with no session that lives: ask LBX for one.
Refreshes(c, t, s) ==
    IF t.reauth THEN Ends(c, t, "failed") /\ session' = s
    ELSE /\ session' = None
         /\ IF t.used >= Limit THEN Ends(c, t, "failed")
            ELSE /\ Goes(c, [t EXCEPT !.pc = "auth", !.used = @ + 1, !.since = now])
                 /\ lock' = c
                 /\ UNCHANGED carried

LockFree(c) == lock \in {Nobody, c} /\ \A d \in Calls : call[d].pc = "lock" => d = c

\* The head of the loop: budget, session, then the request.
Loops(c, t, s) ==
    IF ~Check(c) THEN Ends(c, t, "failed") /\ session' = s
    ELSE IF Valid(s) THEN Uses(c, t, s) /\ session' = s
    ELSE IF LockFree(c) THEN Refreshes(c, t, s)
    ELSE Goes(c, [t EXCEPT !.pc = "lock"]) /\ session' = s /\ UNCHANGED <<lock, carried>>

\* _wait_retry: no sleep when no attempt is left.
BacksOff(c, t) ==
    IF t.used >= Limit THEN Ends(c, t, "failed")
    ELSE Goes(c, [t EXCEPT !.pc = "wait", !.since = 0]) /\ lock' = Unlocked(c) /\ UNCHANGED carried

Elsewhere == UNCHANGED <<now, told, expired, shutdown, left>>
Untouched == UNCHANGED <<now, opened, expired, shutdown, left, carried>>

-----------------------------------------------------------------------------
(* Reads and prepares *)

Begin(c) ==
    /\ c \notin Creates /\ call[c].pc = "scheduled" /\ ~call[c].cancelled
    /\ Loops(c, call[c], session)
    /\ UNCHANGED opened /\ Elsewhere

\* Mutation: what others did while this task waited is not looked at.
Recheck_Skipped(s) == FALSE

Recheck(s) == Valid(s)

\* Waiting for the lock is over; the cached session is looked at again.
LockGranted(c) ==
    /\ call[c].pc = "lock" /\ lock = Nobody
    /\ IF ~Check(c) THEN Ends(c, call[c], "failed") /\ UNCHANGED session
       ELSE IF Recheck(session) THEN Uses(c, call[c], session) /\ UNCHANGED session
       ELSE Refreshes(c, call[c], session)
    /\ UNCHANGED opened /\ Elsewhere

\* Mutation: the life of a session is counted from its arrival.
Expiry_FromArrival(t, life) == now + life

Expiry(t, life) == t.since + life

\* LBX counts the life of a session from when it was asked, at the earliest.
AuthOpens(c) ==
    /\ call[c].pc = "auth" /\ Len(opened) < MaxSessions
    /\ \E life \in Lifetimes :
        /\ opened' = Append(opened, [expires |-> Expiry(call[c], life), ends |-> call[c].since + life])
        /\ LET s == Len(opened) + 1 IN
           IF ~Check(c) \/ now >= Expiry(call[c], life)
           THEN Ends(c, call[c], "failed") /\ UNCHANGED session
           ELSE session' = s /\ Uses(c, call[c], s)
    /\ Elsewhere

AuthFails(c) ==
    /\ call[c].pc = "auth"
    /\ \E meaning \in Meanings["read"] \ {"ok"} :
        IF meaning = "retry" THEN BacksOff(c, call[c]) ELSE Ends(c, call[c], "failed")
    /\ UNCHANGED <<opened, session>> /\ Elsewhere

WaitEnds(c) ==
    /\ call[c].pc = "wait"
    /\ Loops(c, call[c], session)
    /\ UNCHANGED opened /\ Elsewhere

ReadAnswered(c) ==
    /\ call[c].pc = "get"
    /\ \E meaning \in Meanings["read"] \ {"denied"} :
        CASE meaning = "ok"     -> Ends(c, call[c], IF Check(c) THEN "ok" ELSE "failed")
          [] meaning = "retry"  -> BacksOff(c, call[c])
          [] meaning = "failed" -> Ends(c, call[c], "failed")
    /\ UNCHANGED <<opened, session>> /\ Elsewhere

\* Mutation: any 401 throws the cached session away.
Dropped_Any(s) == None

\* Only the session that was refused is thrown away.
Dropped(s) == IF session = s THEN None ELSE session

ReadDenied(c) ==
    /\ call[c].pc = "get" /\ "denied" \in Meanings["read"]
    /\ LET s == Dropped(call[c].prev) IN
       IF call[c].reauth THEN Ends(c, call[c], "failed") /\ session' = s
       ELSE Loops(c, call[c], s)
    /\ UNCHANGED opened /\ Elsewhere

-----------------------------------------------------------------------------
(* Creates *)

\* on_dispatch has been called: the request may leave from now on.
Dispatched(c) == call[c].used > 0

PostBegins(c) ==
    /\ c \in Creates /\ call[c].pc = "scheduled" /\ ~call[c].cancelled
    /\ IF Valid(session) /\ Check(c)
       THEN /\ Goes(c, [call[c] EXCEPT !.pc = "queued", !.used = 1, !.prev = session])
            /\ UNCHANGED <<lock, carried>>
       ELSE Ends(c, call[c], "notSent")
    /\ UNCHANGED <<opened, session>> /\ Elsewhere

\* A connection is there and the request is written to it.
PostLeaves(c) ==
    /\ c \in Creates /\ call[c].pc = "queued"
    /\ Goes(c, [call[c] EXCEPT !.pc = "wire"])
    /\ left' = [left EXCEPT ![c] = @ + 1]
    /\ UNCHANGED <<now, opened, session, lock, told, expired, shutdown, carried>>

\* Mutation: a failure to read the answer counts as a failure to connect.
TransportFailure_AnyTimeout(pc) == {"notSent", "unknown"}

\* No connection came about (request_once: PoolTimeout, ConnectTimeout,
\* ConnectError), or any other failure of the transport.
TransportFailure(pc) == IF pc = "queued" THEN {"notSent", "unknown"} ELSE {"unknown"}

PostFails(c) ==
    /\ c \in Creates /\ call[c].pc \in {"queued", "wire"}
    /\ \E out \in TransportFailure(call[c].pc) : Ends(c, call[c], out)
    /\ UNCHANGED <<opened, session>> /\ Elsewhere

\* Whatever LBX answers is final: no retry and no new session.
PostAnswered(c) ==
    /\ c \in Creates /\ call[c].pc = "wire"
    /\ \E meaning \in Meanings["created"] :
        Ends(c, call[c], IF meaning = "ok" /\ Check(c) THEN "ok" ELSE "unknown")
    /\ UNCHANGED <<opened, session>> /\ Elsewhere

-----------------------------------------------------------------------------
(* Callers *)

Tells(c, answer) == told' = [told EXCEPT ![c] = answer]

\* _create, on an error of run: only a task that is done, or was never made,
\* cannot send any more.
ProvedUnsent(c) == ~Dispatched(c) /\ call[c].pc \in {"new", "done"}

\* What the caller is told when run raises an error of its own.
Refusal(c) == IF ProvedUnsent(c) THEN "notSent" ELSE "unknown"

\* run() makes the task, if the budget allows one.
Ask(c) ==
    /\ call[c].pc = "new" /\ Check(c)
    /\ Goes(c, [NewTask EXCEPT !.pc = "scheduled"])
    /\ IF c \in Creates THEN told[c] = "none" /\ Tells(c, "asked")
       ELSE (c \in Reads => shutdown # "closed") /\ UNCHANGED told
    /\ UNCHANGED <<session, lock>> /\ Untouched

\* run() is refused: the budget is over, or a task it could not stop still runs.
Refused(c) ==
    /\ c \in Creates /\ told[c] = "none" /\ call[c].pc = "new"
    /\ Tells(c, Refusal(c))
    /\ UNCHANGED <<session, lock, call>> /\ Untouched

\* The waiter sees the task done.
Answered(c) ==
    /\ c \in Creates /\ told[c] = "asked" /\ call[c].pc = "done"
    /\ Tells(c, IF call[c].out = "ok" /\ ~Check(c) THEN Refusal(c) ELSE call[c].out)
    /\ UNCHANGED <<session, lock, call>> /\ Untouched

\* The deadline ends the wait, or the caller itself is cancelled ("leaving");
\* the task is cancelled either way.
Interrupted(c) ==
    /\ Live(c) /\ ~call[c].cancelled
    /\ Goes(c, [call[c] EXCEPT !.cancelled = TRUE])
    /\ IF c \in Creates
       THEN /\ told[c] = "asked"
            /\ Tells(c, "leaving") \/ (c \in expired /\ Tells(c, "draining"))
       ELSE UNCHANGED told
    /\ UNCHANGED <<session, lock>> /\ Untouched

\* _cancel_and_drain is over: the task has stopped, or the wait for it has.
Drained(c) ==
    /\ c \in Creates /\ told[c] \in {"draining", "leaving"}
    /\ Tells(c, IF told[c] = "leaving" THEN "cancelled" ELSE Refusal(c))
    /\ UNCHANGED <<session, lock, call>> /\ Untouched

\* A cancelled task never begins, or stops at its await, unless the transport
\* ignores the cancellation.
TaskStops(c) ==
    /\ Live(c) /\ call[c].cancelled
    /\ Ends(c, call[c], "cancelled")
    /\ UNCHANGED <<opened, session>> /\ Elsewhere

\* (A budget nobody uses any more has no effect when it expires.)
Expire(c) ==
    /\ c \notin expired
    /\ call[c].pc # "done" \/ (c \in Creates /\ told[c] \notin Answers \cup {"none"})
    /\ expired' = expired \cup {c}
    /\ UNCHANGED <<now, opened, session, lock, call, told, shutdown, left, carried>>

Tick ==
    /\ now < MaxTime
    /\ now' = now + 1
    /\ UNCHANGED <<opened, session, lock, call, told, expired, shutdown, left, carried>>

-----------------------------------------------------------------------------
(* Shutdown: source_resources closes the two admissions, then the client *)

\* PreflightAdmission.aclose refuses new work and cancels the tasks of its own.
CancelTasks(S) ==
    call' = [c \in Calls |-> IF c \in S /\ Live(c) THEN [call[c] EXCEPT !.cancelled = TRUE] ELSE call[c]]

Reaches(stage) ==
    /\ shutdown' = stage
    /\ UNCHANGED <<now, opened, lock, told, expired, left, carried>>

CloseBilling == shutdown = "no" /\ Reaches("billing") /\ CancelTasks(Billing) /\ UNCHANGED session

Stopped(S) == \A c \in S : ~Live(c)

CloseOffers ==
    /\ shutdown = "billing" /\ Stopped(Billing)
    /\ Reaches("offers") /\ CancelTasks(Calls \ Billing) /\ UNCHANGED session

CloseClient ==
    /\ shutdown = "offers" /\ Stopped(Calls \ Billing)
    /\ Reaches("closed") /\ session' = None /\ UNCHANGED call

\* PreflightCleanupPending: nothing further is closed.
CleanupPending ==
    /\ UNCHANGED <<call, session>>
    /\ \/ shutdown = "billing" /\ ~Stopped(Billing) /\ Reaches("billingPending")
       \/ shutdown = "offers" /\ ~Stopped(Calls \ Billing) /\ Reaches("offersPending")

-----------------------------------------------------------------------------
TaskNext(c) ==
    \/ Begin(c) \/ LockGranted(c) \/ AuthOpens(c) \/ AuthFails(c) \/ WaitEnds(c)
    \/ ReadAnswered(c) \/ ReadDenied(c)
    \/ PostBegins(c) \/ PostLeaves(c) \/ PostFails(c) \/ PostAnswered(c)
    \/ TaskStops(c)

CallerNext(c) == Ask(c) \/ Refused(c) \/ Answered(c) \/ Interrupted(c) \/ Drained(c)

Next ==
    \/ \E c \in Calls : TaskNext(c) \/ CallerNext(c) \/ Expire(c)
    \/ Tick \/ CloseBilling \/ CloseOffers \/ CloseClient \/ CleanupPending

Spec == Init /\ [][Next]_vars

-----------------------------------------------------------------------------
(* Properties *)

\* At most one request for a session is under way, and none while a session
\* that others use lives: a flood of reads costs LBX one /auth (_ensure_session).
OneAuthentication ==
    \A c \in Calls : call[c].pc = "auth" => lock = c /\ session = None

\* A session that lives is thrown away only by a read LBX has just answered
\* about that very session, or when the client closes: a late 401 of an old
\* session, or a reader that waited for the lock, never costs the others the
\* session just opened.
SessionLostForCause ==
    [][\A s \in Sessions : session = s /\ session' # s /\ now < opened[s].expires =>
           \/ shutdown' = "closed"
           \/ \E c \in Reads : call[c].pc = "get" /\ call[c].prev = s /\ call'[c] # call[c]]_vars

\* A read is sent with at most two sessions, whatever the others do to the
\* cache: it cannot be made to go round with LBX for ever.
TwoSessionsAtMost == \A c \in Reads : carried[c] <= 2

\* What the cache is for, however calls overlap: few requests for sessions.
SessionsAreShared == OneAuthentication /\ TwoSessionsAtMost

\* No request of a read is sent with a session that LBX has let lapse, however
\* late the answer that brought it.
SentWhileItLives ==
    [][\A c \in Reads : call'[c].pc = "get" /\ call'[c] # call[c] /\ ~call'[c].cancelled =>
           now < opened'[call'[c].prev].ends]_vars

\* A session serves while it lives, and no longer.
SessionsLiveOut == SessionLostForCause /\ SentWhileItLives

\* What is said of a create is true for good: "not sent" of a request that
\* never left and never will, "ok" of one that did, and it left once.
Promise == INSTANCE CreatePromise
    WITH Outcomes <- Answers,
         told <- [c \in Creates |-> IF told[c] \in Answers THEN told[c] ELSE "none"]

CreatePromiseKept == Promise!Spec
==================================================================================
