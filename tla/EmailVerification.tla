-------------------------- MODULE EmailVerification --------------------------
(***************************************************************************)
(* Verification of one registered user's email:                            *)
(* identity/services/email_verification.py over persistence/ and           *)
(* queries/email_verification.py.                                          *)
(*                                                                         *)
(* A confirmation reads its token once, then waits for the lock on the     *)
(* user's row and decides on what it reads again.  A resend takes the same *)
(* lock.  What either does under the lock is one atomic step; the time it  *)
(* waited has passed before it.  Timestamps taken under the lock differ.   *)
(***************************************************************************)
EXTENDS Integers

CONSTANTS
    Confirms,       \* POST /email-verification/confirm
    Resends,        \* POST /email-verification/request
    Tokens,
    First,          \* the token registration stored
    TTL,            \* EMAIL_VERIFICATION_TTL_HOURS
    Cooldown,       \* EMAIL_VERIFICATION_RESEND_COOLDOWN_SECONDS
    MaxTime         \* bound: the clock stops here

ASSUME FirstAssumption == First \in Tokens
ASSUME TimeAssumption  == /\ TTL \in Nat \ {0} /\ Cooldown \in Nat \ {0} /\ MaxTime \in Nat
                          /\ Cooldown < TTL
ASSUME KindAssumption  == Confirms \cap Resends = {}

VARIABLES
    clock,
    verified,   \* users.email_verified_at, 0 while NULL
    token,      \* magic_link_tokens with purpose EMAIL_VERIFICATION
    request     \* program counters and locals

vars == <<clock, verified, token, request>>

-----------------------------------------------------------------------------
Reqs == Confirms \cup Resends

Token == [state : {"unissued", "stored", "deleted"},
          used : Nat,               \* used_at, 0 while NULL
          created : Nat,            \* created_at: when its transaction began
          expires : Nat]

Request == [pc : {"idle", "waiting", "verified", "refused", "sent", "quiet"},
            token : Tokens,
            seen : Nat,             \* used_at of the first read
            begun : Nat]            \* when its transaction began

TypeOK ==
    /\ clock \in Nat /\ verified \in 0..clock
    /\ token \in [Tokens -> Token]
    /\ \A t \in Tokens :
          /\ token[t].used <= clock /\ token[t].created <= clock
          /\ token[t].state # "unissued" => token[t].created < token[t].expires
    /\ request \in [Reqs -> Request]

Init ==
    /\ clock = 0 /\ verified = 0
    /\ token = [t \in Tokens |-> [state |-> IF t = First THEN "stored" ELSE "unissued",
                                  used |-> 0, created |-> 0,
                                  expires |-> IF t = First THEN TTL ELSE 0]]
    /\ request = [r \in Reqs |-> [pc |-> "idle", token |-> First, seen |-> 0, begun |-> 0]]

-----------------------------------------------------------------------------
Stored(t) == token[t].state = "stored"
Outstanding == {t \in Tokens : Stored(t) /\ token[t].used = 0}

\* The confirmed token is already what verified the email.
Proof(t) == verified # 0 /\ Stored(t) /\ token[t].used = verified

Answer(r, pc) == request' = [request EXCEPT ![r].pc = pc]

\* A request arrives: a confirmation reads the token it was given.
ConfirmBegin(r) ==
    /\ request[r].pc = "idle"
    /\ \E t \in Tokens :
          /\ token[t].state # "unissued"
          /\ request' = [request EXCEPT ![r] =
                           [pc |-> IF Stored(t) THEN "waiting" ELSE "refused",
                            token |-> t, seen |-> token[t].used, begun |-> clock]]
    /\ UNCHANGED <<clock, verified, token>>

ResendBegin(r) ==
    /\ request[r].pc = "idle"
    /\ request' = [request EXCEPT ![r].pc = "waiting", ![r].begun = clock]
    /\ UNCHANGED <<clock, verified, token>>

Now == clock + 1

\* Mutation: the token is not read again under the lock.
UsedAt_FirstRead(r) == request[r].seen

UsedAt(r) == token[request[r].token].used

\* Mutation: the expiry is compared with the time of arrival.
Expired_AtArrival(r) == token[request[r].token].expires <= request[r].begun

Expired(r) == token[request[r].token].expires <= Now

\* confirm_email_verification under the lock: claim_valid_email_verification_token
\* and delete_other_outstanding_email_verification_tokens.
ConfirmDecide(r) ==
    LET t == request[r].token IN
    /\ request[r].pc = "waiting" /\ Now <= MaxTime
    /\ clock' = Now
    /\ CASE Stored(t) /\ verified # 0 /\ UsedAt(r) = verified ->
              Answer(r, "verified") /\ UNCHANGED <<verified, token>>
         [] Stored(t) /\ UsedAt(r) = 0 /\ ~Expired(r) /\ verified = 0 ->
              /\ verified' = Now
              /\ token' = [u \in Tokens |->
                             IF u = t THEN [token[u] EXCEPT !.used = Now]
                             ELSE IF u \in Outstanding
                                  THEN [token[u] EXCEPT !.state = "deleted"]
                                  ELSE token[u]]
              /\ Answer(r, "verified")
         [] OTHER -> Answer(r, "refused") /\ UNCHANGED <<verified, token>>

\* get_newest_outstanding_email_verification_token and the cooldown.
CoolingDown == \E t \in Outstanding : /\ token[t].expires > Now
                                      /\ Now - token[t].created < Cooldown

\* invalidate_outstanding_email_verification_tokens.
Rotated == Outstanding

\* make_email_verification_token.
ExpiresAt == Now + TTL

\* prepare_email_verification_resend under the lock.
ResendDecide(r) ==
    /\ request[r].pc = "waiting" /\ Now <= MaxTime
    /\ clock' = Now
    /\ IF verified # 0 \/ CoolingDown
       THEN Answer(r, "quiet") /\ UNCHANGED token
       ELSE /\ \E n \in Tokens :
                 /\ token[n].state = "unissued"
                 /\ token' = [t \in Tokens |->
                                IF t = n THEN [state |-> "stored", used |-> 0,
                                               created |-> request[r].begun,
                                               expires |-> ExpiresAt]
                                ELSE IF t \in Rotated THEN [token[t] EXCEPT !.used = Now]
                                ELSE token[t]]
            /\ Answer(r, "sent")
    /\ UNCHANGED verified

\* The request fails before its commit.
Fail(r) ==
    /\ request[r].pc = "waiting"
    /\ Answer(r, "idle")
    /\ UNCHANGED <<clock, verified, token>>

Tick ==
    /\ clock < MaxTime
    /\ clock' = clock + 1
    /\ UNCHANGED <<verified, token, request>>

Next ==
    \/ \E r \in Confirms : ConfirmBegin(r) \/ ConfirmDecide(r)
    \/ \E r \in Resends : ResendBegin(r) \/ ResendDecide(r)
    \/ \E r \in Reqs : Fail(r)
    \/ Tick

Spec == Init /\ [][Next]_vars

-----------------------------------------------------------------------------
(* Properties *)

\* At most one link in the user's mailbox still works, and none once the email
\* is verified (email_verification.py:175,222).
OneLink ==
    /\ \A t, u \in Outstanding : t = u
    /\ verified # 0 => Outstanding = {}

\* Following the link that verified the email again is never answered as an
\* invalid link, also when both requests were under way together: a refused
\* token did not verify the email and never will (email_verification.py:143).
RefusedIsNoProof ==
    \A r \in Confirms : request[r].pc = "refused" => ~Proof(request[r].token)

\* A link works until it is used or replaced, and only then: there is one, and
\* the one that verified is never refused.
LinksAreSound == OneLink /\ RefusedIsNoProof

\* The email is verified once, by a token that is unexpired at that moment and
\* not only when its request arrived (email_verification.py:152).
VerifiedInTime ==
    [][verified' # verified =>
         /\ verified = 0
         /\ \E t \in Outstanding : token'[t].used = verified' /\ verified' < token[t].expires]_vars
=============================================================================
