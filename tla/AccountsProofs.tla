------------------------------ MODULE AccountsProofs ------------------------------
(***************************************************************************)
(* Proofs about accounts.  Of verification, that a refused token never     *)
(* comes back to life; of registration, that one insertion is undecided    *)
(* at a time and what was read stood; of purchases, that nothing a         *)
(* confirmation compared changes before it commits.                        *)
(***************************************************************************)
EXTENDS Accounts, TLAPS

\* Why a token will never verify the email again.
Dead(t) ==
    /\ token[t].state # "unissued"
    /\ \/ token[t].state = "deleted"
       \/ token[t].used # 0 /\ token[t].used # verified
       \/ token[t].used = 0 /\ (token[t].expires <= clock \/ verified # 0)

RefusedIsDead ==
    \A r \in Confirms : request[r].pc = "refused" => Dead(request[r].token)

WaitingIsIssued ==
    \A r \in Confirms : request[r].pc = "waiting" => token[request[r].token].state # "unissued"

BegunInThePast == \A r \in Reqs : request[r].begun <= clock

VerificationInv == TypeOK /\ OneLink /\ RefusedIsDead /\ WaitingIsIssued /\ BegunInThePast

USE DEF Reqs

LEMMA InitInvariant == Init => VerificationInv
  BY FirstAssumption, TimeAssumption
  DEF Init, VerificationInv, TypeOK, Token, Request, OneLink, Outstanding, Stored, RefusedIsDead,
      WaitingIsIssued, BegunInThePast

\* What TypeOK says of single tokens and requests.
LEMMA Types ==
    ASSUME TypeOK
    PROVE  /\ clock \in Nat /\ verified \in Nat /\ verified <= clock
           /\ \A t \in Tokens :
                 /\ token[t] \in Token
                 /\ token[t].state \in {"unissued", "stored", "deleted"}
                 /\ token[t].used \in Nat /\ token[t].created \in Nat
                 /\ token[t].expires \in Nat
                 /\ token[t].used <= clock /\ token[t].created <= clock
                 /\ token[t].state # "unissued" => token[t].created < token[t].expires
           /\ \A r \in Reqs : /\ request[r] \in Request
                              /\ request[r].token \in Tokens /\ request[r].begun \in Nat
  BY DEF TypeOK, Token, Request

LEMMA BeginInvariant ==
    ASSUME VerificationInv, NEW r \in Reqs,
           (r \in Confirms /\ ConfirmBegin(r)) \/ (r \in Resends /\ ResendBegin(r)) \/ Fail(r)
    PROVE  VerificationInv'
<1>0. TypeOK /\ clock \in Nat
  BY DEF VerificationInv, TypeOK
<1>1. UNCHANGED <<clock, verified, token>>
  BY DEF ConfirmBegin, ResendBegin, Fail
<1>2. /\ request' \in [Reqs -> Request]
      /\ \A q \in Reqs : q # r => request'[q] = request[q]
      /\ request'[r].begun <= clock
      /\ r \in Confirms /\ request'[r].pc \in {"waiting", "refused"} =>
            /\ token[request'[r].token].state # "unissued"
            /\ request'[r].pc = "refused" => token[request'[r].token].state # "stored"
  <2>1. CASE r \in Confirms /\ ConfirmBegin(r)
    <3>1. PICK t \in Tokens :
             /\ token[t].state # "unissued"
             /\ request' = [request EXCEPT ![r] =
                              [pc |-> IF Stored(t) THEN "waiting" ELSE "refused",
                               token |-> t, seen |-> token[t].used, begun |-> clock]]
      BY <2>1 DEF ConfirmBegin
    <3>2. request'[r] = [pc |-> IF Stored(t) THEN "waiting" ELSE "refused",
                         token |-> t, seen |-> token[t].used, begun |-> clock]
      BY <1>0, <3>1 DEF TypeOK
    <3>3. request'[r] \in Request
      BY <1>0, <3>2, Types DEF Request
    <3> QED
      BY <1>0, <3>1, <3>2, <3>3 DEF TypeOK, Stored
  <2>2. CASE r \in Resends /\ ResendBegin(r)
    <3>1. /\ r \notin Confirms /\ request \in [Reqs -> Request]
          /\ request' = [request EXCEPT ![r] = [request[r] EXCEPT !.pc = "waiting", !.begun = clock]]
      BY <2>2, KindAssumption DEF VerificationInv, TypeOK, ResendBegin
    <3>2. [request[r] EXCEPT !.pc = "waiting", !.begun = clock] \in Request
      BY <1>0, <3>1 DEF Request
    <3>3. request'[r] = [request[r] EXCEPT !.pc = "waiting", !.begun = clock]
      BY <3>1
    <3>4. request'[r].begun = clock
      BY <3>1, <3>3 DEF Request
    <3> QED
      BY <1>0, <3>1, <3>2, <3>3, <3>4
  <2>3. CASE Fail(r)
    BY <1>0, <2>3 DEF VerificationInv, TypeOK, Fail, Answer, Request, BegunInThePast
  <2> QED
    BY <2>1, <2>2, <2>3
<1>3. TypeOK' /\ OneLink'
  BY <1>1, <1>2 DEF VerificationInv, TypeOK, OneLink, Outstanding, Stored
<1>4. RefusedIsDead'
  <2> SUFFICES ASSUME NEW q \in Confirms, request'[q].pc = "refused"
               PROVE  Dead(request[q].token)'
    BY DEF RefusedIsDead
  <2>1. CASE q = r
    <3>1. PICK t \in Tokens : t = request'[r].token
      BY <1>2 DEF Request
    <3>2. token[t].state = "deleted"
      BY <1>0, <1>2, <2>1, <3>1, Types
    <3> QED
      BY <1>1, <2>1, <3>1, <3>2 DEF Dead
  <2>2. CASE q # r
    BY <1>1, <1>2, <2>2 DEF VerificationInv, RefusedIsDead, Dead
  <2> QED
    BY <2>1, <2>2
<1>5. WaitingIsIssued' /\ BegunInThePast'
  BY <1>1, <1>2 DEF VerificationInv, WaitingIsIssued, BegunInThePast
<1> QED
  BY <1>3, <1>4, <1>5 DEF VerificationInv

\* Time passes, and a token that is dead remains so.
LEMMA DeadStaysDead ==
    ASSUME TypeOK, NEW t \in Tokens, Dead(t),
           clock' = clock + 1,
           verified' = verified \/ (verified = 0 /\ verified' = clock + 1),
           \/ token'[t] = token[t]
           \/ token[t].used = 0 /\ token'[t] = [token[t] EXCEPT !.state = "deleted"]
           \/ /\ verified' = 0 /\ token[t].used = 0
              /\ token'[t] = [token[t] EXCEPT !.used = clock + 1]
    PROVE  Dead(t)'
<1>1. /\ token[t] \in Token /\ token[t].used \in Nat /\ token[t].expires \in Nat
      /\ token[t].used <= clock /\ clock \in Nat /\ verified \in Nat
  BY Types
<1>2. CASE token'[t] = token[t]
  BY <1>1, <1>2 DEF Dead
<1>3. CASE token'[t] = [token[t] EXCEPT !.state = "deleted"]
  <2>1. token'[t].state = "deleted"
    BY <1>1, <1>3 DEF Token
  <2> QED
    BY <2>1 DEF Dead
<1>4. CASE verified' = 0 /\ token'[t] = [token[t] EXCEPT !.used = clock + 1]
  <2>1. token'[t].used = clock + 1 /\ token'[t].state = token[t].state
    BY <1>1, <1>4 DEF Token
  <2> QED
    BY <1>1, <1>4, <2>1 DEF Dead
<1> QED
  BY <1>2, <1>3, <1>4

\* What a decision of r must do to the tokens, and to r, so that the refused
\* stay dead and the waiting have a token.
LEMMA RestFollows ==
    ASSUME TypeOK, RefusedIsDead, WaitingIsIssued, BegunInThePast,
           NEW r \in Reqs, clock' = clock + 1,
           verified' = verified \/ (verified = 0 /\ verified' = clock + 1),
           \A t \in Tokens : token[t].state # "unissued" =>
              \/ token'[t] = token[t]
              \/ token[t].used = 0 /\ token'[t] = [token[t] EXCEPT !.state = "deleted"]
              \/ token[t].used = 0 /\ token'[t] = [token[t] EXCEPT !.used = clock + 1]
                   /\ (verified' = 0 \/ ~Dead(t)),
           \A q \in Reqs : q # r => request'[q] = request[q],
           request'[r].begun = request[r].begun,
           r \in Confirms /\ request'[r].pc = "refused" => Dead(request[r].token)',
           r \in Confirms => request'[r].pc # "waiting"
    PROVE  RefusedIsDead' /\ WaitingIsIssued' /\ BegunInThePast'
<1>0. clock \in Nat /\ \A q \in Reqs : request[q].token \in Tokens /\ request[q].begun \in Nat
  BY Types
<1>1. RefusedIsDead'
  <2> SUFFICES ASSUME NEW q \in Confirms, request'[q].pc = "refused", q # r
               PROVE  Dead(request[q].token)'
    BY DEF RefusedIsDead
  <2>1. PICK t \in Tokens : t = request[q].token
    BY <1>0
  <2>2. request'[q] = request[q] /\ Dead(t)
    BY <2>1 DEF RefusedIsDead
  <2>3. token[t].state # "unissued"
    BY <2>2 DEF Dead
  <2>4. Dead(t)'
    BY <2>2, <2>3, DeadStaysDead
  <2> QED
    BY <2>1, <2>2, <2>4 DEF Dead
<1>2. WaitingIsIssued'
  <2> SUFFICES ASSUME NEW q \in Confirms, request'[q].pc = "waiting"
               PROVE  token'[request'[q].token].state # "unissued"
    BY DEF WaitingIsIssued
  <2> DEFINE t == request[q].token
  <2>1. request'[q] = request[q] /\ t \in Tokens /\ token[t].state # "unissued"
    BY <1>0 DEF WaitingIsIssued
  <2>2. token[t] \in Token
    BY <2>1, Types
  <2> HIDE DEF t
  <2>3. token'[t].state # "unissued"
    BY <2>1, <2>2 DEF Token
  <2> QED
    BY <2>1, <2>3 DEF t
<1>3. BegunInThePast'
  <2> SUFFICES ASSUME NEW q \in Reqs PROVE request'[q].begun <= clock'
    BY DEF BegunInThePast
  <2>1. request'[q].begun = request[q].begun /\ request[q].begun \in Nat /\ request[q].begun <= clock
    BY <1>0 DEF BegunInThePast
  <2> QED
    BY <1>0, <2>1
<1> QED
  BY <1>1, <1>2, <1>3

\* A decision that changes neither the user nor the tokens.
LEMMA QuietInvariant ==
    ASSUME VerificationInv, UNCHANGED <<verified, token>>, clock' = clock + 1,
           request' \in [Reqs -> Request]
    PROVE  TypeOK' /\ OneLink'
<1>1. TypeOK /\ clock \in Nat
  BY DEF VerificationInv, TypeOK
<1>2. \A t \in Tokens : token[t].used <= clock + 1 /\ token[t].created <= clock + 1
  BY <1>1, Types
<1>3. verified \in 0..(clock + 1)
  BY <1>1, Types
<1>4. TypeOK'
  BY <1>1, <1>2, <1>3 DEF TypeOK
<1> QED
  BY <1>4 DEF VerificationInv, OneLink, Outstanding, Stored

LEMMA ConfirmDecideInvariant ==
    ASSUME VerificationInv, NEW r \in Confirms, ConfirmDecide(r)
    PROVE  VerificationInv'
<1>8. PICK t \in Tokens : t = request[r].token
  BY Types DEF VerificationInv
<1> DEFINE won ==
            /\ verified = 0 /\ verified' = clock + 1
            /\ token[t].used = 0 /\ clock + 1 < token[t].expires
            /\ token[t].state = "stored"
            /\ token' = [u \in Tokens |->
                  IF u = t THEN [token[u] EXCEPT !.used = clock + 1]
                  ELSE IF u \in Outstanding THEN [token[u] EXCEPT !.state = "deleted"]
                  ELSE token[u]]
<1>0. TypeOK /\ RefusedIsDead /\ WaitingIsIssued /\ BegunInThePast /\ r \in Reqs
  BY DEF VerificationInv
<1>1. /\ clock' = clock + 1 /\ clock \in Nat /\ verified \in Nat /\ t \in Tokens
      /\ token[t] \in Token /\ token[t].used \in Nat /\ token[t].expires \in Nat
      /\ token[t].state \in {"stored", "deleted"}
  BY <1>0, <1>8, Types DEF ConfirmDecide, Now, WaitingIsIssued
<1>2. \/ Answer(r, "verified") /\ UNCHANGED <<verified, token>>
      \/ Answer(r, "verified") /\ won
      \/ Answer(r, "refused") /\ UNCHANGED <<verified, token>>
           /\ ~(Stored(t) /\ verified # 0 /\ token[t].used = verified)
           /\ ~(Stored(t) /\ token[t].used = 0 /\ ~(token[t].expires <= clock + 1)
                  /\ verified = 0)
  <2>1. CASE Stored(t) /\ verified # 0 /\ token[t].used = verified
    BY <1>8, <1>1, <2>1 DEF ConfirmDecide, UsedAt, Expired, Now
  <2>2. CASE Stored(t) /\ token[t].used = 0 /\ ~(token[t].expires <= clock + 1) /\ verified = 0
    BY <1>8, <1>1, <2>2 DEF ConfirmDecide, UsedAt, Expired, Now, Stored
  <2>3. CASE /\ ~(Stored(t) /\ verified # 0 /\ token[t].used = verified)
             /\ ~(Stored(t) /\ token[t].used = 0 /\ ~(token[t].expires <= clock + 1)
                    /\ verified = 0)
    BY <1>8, <1>1, <2>3 DEF ConfirmDecide, UsedAt, Expired, Now
  <2> QED
    BY <2>1, <2>2, <2>3
<1>3. /\ request' \in [Reqs -> Request]
      /\ \A q \in Reqs : q # r => request'[q] = request[q]
      /\ request'[r].token = t /\ request'[r].begun = request[r].begun
      /\ request'[r].pc \in {"verified", "refused"}
      /\ request'[r].pc = "refused" =>
            /\ UNCHANGED <<verified, token>>
            /\ ~(Stored(t) /\ verified # 0 /\ token[t].used = verified)
            /\ ~(Stored(t) /\ token[t].used = 0 /\ ~(token[t].expires <= clock + 1)
                   /\ verified = 0)
  <2> HIDE DEF won
  <2>1. \A pc \in {"verified", "refused"} : Answer(r, pc) =>
          /\ request' \in [Reqs -> Request]
          /\ \A q \in Reqs : q # r => request'[q] = request[q]
          /\ request'[r].token = t /\ request'[r].begun = request[r].begun
          /\ request'[r].pc = pc
    BY <1>0, <1>8 DEF Answer, TypeOK, Request
  <2> QED
    BY <1>2, <2>1
<1>4. request'[r].pc = "refused" => Dead(request[r].token)'
  <2> SUFFICES ASSUME request'[r].pc = "refused" PROVE Dead(t)'
    BY <1>3 DEF Dead
  <2>1. /\ token'[t] = token[t] /\ verified' = verified
        /\ ~(Stored(t) /\ verified # 0 /\ token[t].used = verified)
        /\ ~(Stored(t) /\ token[t].used = 0 /\ ~(token[t].expires <= clock + 1)
               /\ verified = 0)
    BY <1>3
  <2> QED
    BY <1>1, <2>1 DEF Dead, Stored
<1>5. UNCHANGED <<verified, token>> \/ won
  BY <1>2
<1> HIDE DEF won
<1>6. CASE UNCHANGED <<verified, token>>
  <2>1. TypeOK' /\ OneLink'
    BY <1>1, <1>3, <1>6, QuietInvariant
  <2>2. RefusedIsDead' /\ WaitingIsIssued' /\ BegunInThePast'
    BY <1>0, <1>1, <1>3, <1>4, <1>6, RestFollows
  <2> QED
    BY <2>1, <2>2 DEF VerificationInv
<1>7. CASE won
  <2>1. \A u \in Tokens :
          \/ u = t /\ token'[u] = [token[u] EXCEPT !.used = clock + 1]
          \/ /\ u # t /\ u \in Outstanding
             /\ token'[u] = [token[u] EXCEPT !.state = "deleted"]
          \/ u # t /\ u \notin Outstanding /\ token'[u] = token[u]
    BY <1>7 DEF won
  <2>2. \A u \in Tokens :
          /\ token'[u] \in Token
          /\ token'[u].used <= clock + 1 /\ token'[u].created <= clock + 1
          /\ token'[u].state # "unissued" => token'[u].created < token'[u].expires
    <3> TAKE u \in Tokens
    <3>1. /\ token[u] \in Token /\ token[u].used \in Nat /\ token[u].created \in Nat
          /\ token[u].used <= clock /\ token[u].created <= clock
          /\ token[u].state # "unissued" => token[u].created < token[u].expires
      BY <1>0, Types
    <3>2. u \in Outstanding => token[u].state = "stored"
      BY DEF Outstanding, Stored
    <3>3. u = t => token[u].state = "stored"
      BY <1>7 DEF won
    <3>4. CASE u = t
      <4>1. token'[u] = [token[u] EXCEPT !.used = clock + 1]
        BY <2>1, <3>4
      <4>2. token'[u] \in Token
        BY <1>1, <3>1, <4>1 DEF Token
      <4>3. /\ token'[u].used = clock + 1 /\ token'[u].created = token[u].created
            /\ token'[u].state = token[u].state /\ token'[u].expires = token[u].expires
        BY <3>1, <4>1 DEF Token
      <4> QED
        BY <1>1, <3>1, <4>2, <4>3
    <3>5. CASE u # t /\ u \in Outstanding
      <4>1. token'[u] = [token[u] EXCEPT !.state = "deleted"]
        BY <2>1, <3>5
      <4>2. token'[u] \in Token
        BY <3>1, <4>1 DEF Token
      <4>3. /\ token'[u].used = token[u].used /\ token'[u].created = token[u].created
            /\ token'[u].expires = token[u].expires
        BY <3>1, <4>1 DEF Token
      <4>4. token[u].state # "unissued"
        BY <3>2, <3>5
      <4>5. token'[u].used <= clock + 1 /\ token'[u].created <= clock + 1
        BY <1>1, <3>1, <4>3
      <4>6. token'[u].created < token'[u].expires
        BY <3>1, <4>3, <4>4
      <4> QED
        BY <4>2, <4>5, <4>6
    <3>6. CASE u # t /\ u \notin Outstanding
      <4>1. token'[u] = token[u]
        BY <2>1, <3>6
      <4> QED
        BY <1>1, <3>1, <4>1
    <3> QED
      BY <3>4, <3>5, <3>6
  <2>3. TypeOK'
    <3>1. token' \in [Tokens -> Token]
      BY <1>7, <2>2 DEF won
    <3>2. clock' \in Nat /\ verified' \in 0..clock'
      BY <1>1, <1>7 DEF won
    <3> QED
      BY <1>1, <1>3, <2>2, <3>1, <3>2 DEF TypeOK
  <2>4. Outstanding' = {}
    <3> SUFFICES ASSUME NEW u \in Tokens, token'[u].state = "stored", token'[u].used = 0
                 PROVE  FALSE
      BY DEF Outstanding, Stored
    <3>1. token[u] \in Token
      BY <1>0, Types
    <3>2. CASE u = t
      <4>1. token'[u].used = clock + 1
        BY <2>1, <3>1, <3>2 DEF Token
      <4> QED
        BY <1>1, <4>1
    <3>3. CASE u # t /\ u \in Outstanding
      BY <2>1, <3>1, <3>3 DEF Token
    <3>4. CASE u # t /\ u \notin Outstanding
      BY <2>1, <3>4 DEF Outstanding, Stored
    <3> QED
      BY <3>2, <3>3, <3>4
  <2>5. RefusedIsDead' /\ WaitingIsIssued' /\ BegunInThePast'
    <3>1. token[t].used = 0 /\ ~Dead(t) /\ verified = 0 /\ verified' = clock + 1
      BY <1>1, <1>7 DEF Dead, won
    <3>2. \A u \in Outstanding : token[u].used = 0
      BY DEF Outstanding
    <3>3. \A u \in Tokens : token[u].state # "unissued" =>
              \/ token'[u] = token[u]
              \/ token[u].used = 0 /\ token'[u] = [token[u] EXCEPT !.state = "deleted"]
              \/ token[u].used = 0 /\ token'[u] = [token[u] EXCEPT !.used = clock + 1]
                   /\ (verified' = 0 \/ ~Dead(u))
      BY <2>1, <3>1, <3>2
    <3> QED
      BY <1>0, <1>1, <1>3, <1>4, <3>1, <3>3, RestFollows
  <2> QED
    BY <2>3, <2>4, <2>5 DEF VerificationInv, OneLink
<1> QED
  BY <1>5, <1>6, <1>7

LEMMA ResendDecideInvariant ==
    ASSUME VerificationInv, NEW r \in Resends, ResendDecide(r)
    PROVE  VerificationInv'
<1>0. TypeOK /\ RefusedIsDead /\ WaitingIsIssued /\ BegunInThePast /\ r \in Reqs /\ r \notin Confirms
  BY KindAssumption DEF VerificationInv
<1>1. /\ clock' = clock + 1 /\ clock \in Nat /\ verified' = verified
      /\ request[r] \in Request /\ request[r].begun \in Nat /\ request[r].begun <= clock
  BY <1>0, Types DEF ResendDecide, Now, BegunInThePast
<1>2. /\ request' \in [Reqs -> Request]
      /\ \A q \in Reqs : q # r => request'[q] = request[q]
      /\ request'[r].begun = request[r].begun
  <2>1. \A pc \in {"quiet", "sent"} : Answer(r, pc) =>
          /\ request' \in [Reqs -> Request]
          /\ \A q \in Reqs : q # r => request'[q] = request[q]
          /\ request'[r].begun = request[r].begun
    BY <1>0 DEF Answer, TypeOK, Request
  <2> QED
    BY <2>1 DEF ResendDecide
<1>3. CASE UNCHANGED token
  <2>1. TypeOK' /\ OneLink'
    BY <1>1, <1>2, <1>3, QuietInvariant
  <2>2. RefusedIsDead' /\ WaitingIsIssued' /\ BegunInThePast'
    BY <1>0, <1>1, <1>2, <1>3, RestFollows
  <2> QED
    BY <2>1, <2>2 DEF VerificationInv
<1>4. CASE ~UNCHANGED token
  <2>1. PICK n \in Tokens :
          /\ token[n].state = "unissued"
          /\ token' = [t \in Tokens |->
                         IF t = n THEN [state |-> "stored", used |-> 0,
                                        created |-> request[r].begun,
                                        expires |-> clock + 1 + TTL]
                         ELSE IF t \in Outstanding THEN [token[t] EXCEPT !.used = clock + 1]
                         ELSE token[t]]
    BY <1>1, <1>4 DEF ResendDecide, Rotated, ExpiresAt, Now
  <2>2. verified = 0
    BY <1>4 DEF ResendDecide
  <2>3. /\ token'[n] = [state |-> "stored", used |-> 0, created |-> request[r].begun,
                        expires |-> clock + 1 + TTL]
        /\ \A u \in Tokens : u # n =>
              \/ u \in Outstanding /\ token'[u] = [token[u] EXCEPT !.used = clock + 1]
              \/ u \notin Outstanding /\ token'[u] = token[u]
    BY <2>1
  <2>4. \A u \in Tokens :
          /\ token'[u] \in Token
          /\ token'[u].used <= clock + 1 /\ token'[u].created <= clock + 1
          /\ token'[u].state # "unissued" => token'[u].created < token'[u].expires
          /\ u # n => ~(token'[u].state = "stored" /\ token'[u].used = 0)
    <3> TAKE u \in Tokens
    <3>1. /\ token[u] \in Token /\ token[u].used \in Nat /\ token[u].created \in Nat
          /\ token[u].used <= clock /\ token[u].created <= clock
          /\ token[u].state # "unissued" => token[u].created < token[u].expires
      BY <1>0, Types
    <3>2. u \in Outstanding <=> token[u].state = "stored" /\ token[u].used = 0
      BY DEF Outstanding, Stored
    <3>3. CASE u = n
      <4>1. TTL \in Nat /\ TTL > 0
        BY TimeAssumption
      <4>2. token'[u] \in Token
        BY <1>1, <2>3, <3>3, <4>1 DEF Token
      <4>3. /\ token'[u].used = 0 /\ token'[u].created = request[r].begun
            /\ token'[u].expires = clock + 1 + TTL
        BY <2>3, <3>3
      <4> QED
        BY <1>1, <3>3, <4>1, <4>2, <4>3
    <3>4. CASE u # n /\ u \in Outstanding
      <4>1. token'[u] = [token[u] EXCEPT !.used = clock + 1]
        BY <2>3, <3>4
      <4>2. token'[u] \in Token
        BY <1>1, <3>1, <4>1 DEF Token
      <4>3. /\ token'[u].used = clock + 1 /\ token'[u].created = token[u].created
            /\ token'[u].state = token[u].state /\ token'[u].expires = token[u].expires
        BY <3>1, <4>1 DEF Token
      <4> QED
        BY <1>1, <3>1, <4>2, <4>3
    <3>5. CASE u # n /\ u \notin Outstanding
      <4>1. token'[u] = token[u]
        BY <2>3, <3>5
      <4> QED
        BY <1>1, <3>1, <3>2, <3>5, <4>1
    <3> QED
      BY <3>3, <3>4, <3>5
  <2>5. TypeOK'
    <3>1. token' \in [Tokens -> Token]
      BY <2>1, <2>4
    <3>2. clock' \in Nat /\ verified' \in 0..clock'
      BY <1>0, <1>1, Types
    <3> QED
      BY <1>1, <1>2, <2>4, <3>1, <3>2 DEF TypeOK
  <2>6. OneLink'
    <3>1. \A u \in Outstanding' : u = n
      BY <2>4 DEF Outstanding, Stored
    <3> QED
      BY <1>1, <2>2, <3>1 DEF OneLink
  <2>7. RefusedIsDead' /\ WaitingIsIssued' /\ BegunInThePast'
    <3>1. \A u \in Outstanding : token[u].used = 0
      BY DEF Outstanding
    <3>2. \A u \in Tokens : token[u].state # "unissued" =>
              \/ token'[u] = token[u]
              \/ token[u].used = 0 /\ token'[u] = [token[u] EXCEPT !.used = clock + 1]
                   /\ verified' = 0
      BY <1>1, <2>1, <2>2, <2>3, <3>1
    <3> QED
      BY <1>0, <1>1, <1>2, <3>2, RestFollows
  <2> QED
    BY <2>5, <2>6, <2>7 DEF VerificationInv
<1> QED
  BY <1>3, <1>4

LEMMA TickInvariant ==
    ASSUME VerificationInv, Tick
    PROVE  VerificationInv'
<1>0. TypeOK /\ RefusedIsDead /\ WaitingIsIssued /\ BegunInThePast /\ clock \in Nat
  BY DEF VerificationInv, TypeOK
<1>1. clock' = clock + 1 /\ UNCHANGED <<verified, token, request>>
  BY DEF Tick
<1>2. TypeOK' /\ OneLink'
  BY <1>0, <1>1, QuietInvariant DEF TypeOK
<1>3. RefusedIsDead'
  <2> SUFFICES ASSUME NEW q \in Confirms, request[q].pc = "refused"
               PROVE  Dead(request[q].token)'
    BY <1>1 DEF RefusedIsDead
  <2>1. PICK t \in Tokens : t = request[q].token
    BY <1>0, Types
  <2>2. Dead(t)
    BY <1>0, <2>1 DEF RefusedIsDead
  <2>3. Dead(t)'
    BY <1>0, <1>1, <2>2, DeadStaysDead
  <2> QED
    BY <1>1, <2>1, <2>3 DEF Dead
<1>4. WaitingIsIssued'
  BY <1>0, <1>1 DEF WaitingIsIssued
<1>5. BegunInThePast'
  <2> SUFFICES ASSUME NEW q \in Reqs PROVE request[q].begun <= clock + 1
    BY <1>1 DEF BegunInThePast
  <2> QED
    BY <1>0, Types DEF BegunInThePast
<1> QED
  BY <1>2, <1>3, <1>4, <1>5 DEF VerificationInv

LEMMA NextInvariant == VerificationInv /\ [Next]_vars => VerificationInv'
<1> SUFFICES ASSUME VerificationInv, [Next]_vars PROVE VerificationInv'
  OBVIOUS
<1>1. ASSUME NEW r \in Confirms, ConfirmBegin(r) \/ ConfirmDecide(r) PROVE VerificationInv'
  BY <1>1, BeginInvariant, ConfirmDecideInvariant
<1>2. ASSUME NEW r \in Resends, ResendBegin(r) \/ ResendDecide(r) PROVE VerificationInv'
  BY <1>2, BeginInvariant, ResendDecideInvariant
<1>3. ASSUME NEW r \in Reqs, Fail(r) PROVE VerificationInv'
  BY <1>3, BeginInvariant
<1>4. CASE Tick
  BY <1>4, TickInvariant
<1>5. CASE UNCHANGED vars
  BY <1>5 DEF vars, VerificationInv, TypeOK, OneLink, Outstanding, Stored, RefusedIsDead, Dead,
              WaitingIsIssued, BegunInThePast
<1> QED
  BY <1>1, <1>2, <1>3, <1>4, <1>5 DEF Next

LEMMA SpecInvariant == Spec => []VerificationInv
  BY InitInvariant, NextInvariant, PTL DEF Spec

\* Every variable keeps its type.
THEOREM TypeCorrect == Spec => []TypeOK
  BY SpecInvariant, PTL DEF VerificationInv

\* However many resends and confirmations overlap, one link at most works.
THEOREM OneWorkingLink == Spec => []OneLink
  BY SpecInvariant, PTL DEF VerificationInv

\* A link that was refused did not verify the email and never will.
THEOREM RefusedForGood == Spec => []RefusedIsNoProof
<1>1. VerificationInv => RefusedIsNoProof
  <2> SUFFICES ASSUME VerificationInv, NEW r \in Confirms, request[r].pc = "refused"
               PROVE  ~Proof(request[r].token)
    BY DEF RefusedIsNoProof
  <2>1. Dead(request[r].token)
    BY DEF VerificationInv, RefusedIsDead
  <2>2. request[r].token \in Tokens /\ verified \in Nat
    BY Types DEF VerificationInv
  <2> QED
    BY <2>1, <2>2, Types DEF VerificationInv, Dead, Proof, Stored
<1> QED
  BY <1>1, SpecInvariant, PTL

\* Both at once: one working link, and the link that verified is not refused.
THEOREM SoundLinks == Spec => []LinksAreSound
<1>1. OneLink /\ RefusedIsNoProof => LinksAreSound
  BY DEF LinksAreSound
<1> QED
  BY <1>1, OneWorkingLink, RefusedForGood, PTL

\* The email is verified once, by a token unexpired when the lock was granted.
THEOREM Verifies == Spec => VerifiedInTime
<1>1. VerificationInv /\ [Next]_vars =>
        [verified' # verified =>
           /\ verified = 0
           /\ \E t \in Outstanding :
                 token'[t].used = verified' /\ verified' < token[t].expires]_vars
  <2> SUFFICES ASSUME VerificationInv, Next, verified' # verified
               PROVE  /\ verified = 0
                      /\ \E t \in Outstanding :
                            token'[t].used = verified' /\ verified' < token[t].expires
    BY DEF vars
  <2>1. PICK r \in Confirms : ConfirmDecide(r)
    BY DEF Next, ConfirmBegin, ResendBegin, ResendDecide, Fail, Tick
  <2>2. PICK t \in Tokens : t = request[r].token
    BY Types DEF VerificationInv
  <2>3. /\ token[t] \in Token /\ token[t].expires \in Nat /\ clock \in Nat
        /\ token[t].used \in Nat
    BY Types DEF VerificationInv
  <2>4. /\ Stored(t) /\ token[t].used = 0 /\ ~(token[t].expires <= clock + 1)
        /\ verified = 0 /\ verified' = clock + 1
        /\ token' = [u \in Tokens |->
                       IF u = t THEN [token[u] EXCEPT !.used = clock + 1]
                       ELSE IF u \in Outstanding THEN [token[u] EXCEPT !.state = "deleted"]
                       ELSE token[u]]
    BY <2>1, <2>2 DEF ConfirmDecide, UsedAt, Expired, Now
  <2>5. token'[t].used = clock + 1
    BY <2>3, <2>4 DEF Token
  <2>6. t \in Outstanding /\ clock + 1 < token[t].expires
    BY <2>3, <2>4 DEF Outstanding
  <2> QED
    BY <2>4, <2>5, <2>6
<1> QED
  BY <1>1, SpecInvariant, PTL DEF Spec, VerifiedInTime

-----------------------------------------------------------------------------
(* Registration *)

Registering_Pcs == {"idle", "free", "read", "inserted", "conflict"} \cup Answers

Places == [pc : Registering_Pcs, since : Nat, at : Nat, documents : SUBSET Document]

LegalTypes ==
    /\ active \subseteq Document
    /\ past \in Seq(SUBSET Document)
    /\ day \in Nat

RegistrationTypes ==
    /\ registration \in [Registrations -> Places]
    /\ account \in Registrations \cup {Nobody}

\* Of the insertions one is undecided at most, and only while the email is free.
OneUndecided ==
    /\ \A r, s \in Undecided : r = s
    /\ account # Nobody => Undecided = {}

\* A pack read since a request came, effective at the time the request gives.
ReadSince(q) ==
    /\ \E s \in Stood(q.since) : q.documents = {x \in s : x.type # Recurring}
    /\ {x.type : x \in q.documents} = Required
    /\ \A x \in q.documents : x.from <= q.at

RegistrationsStand ==
    \A r \in Registrations :
        LET q == registration[r] IN
        /\ q.since <= Len(past)
        /\ q.pc \in {"read", "inserted"} \/ account = r => ReadSince(q)
        /\ account = r => q.pc \in {"registered", "refused"}
        /\ q.pc = "registered" => account = r
        /\ q.pc \in {"taken", "conflict"} => account \notin {Nobody, r}

Accepting ==
    [pc : {"idle", "found", "accepted", "refused"}, since : Nat, at : Nat, document : SUBSET Document]

\* A document that was active since a request came and is effective by now, and
\* by the time the request gives.
FoundSince(q) ==
    /\ \E s \in Stood(q.since) : q.document \subseteq s
    /\ \A x \in q.document : x.from <= IF q.pc = "accepted" THEN q.at ELSE day

AcceptancesStand ==
    /\ acceptance \in [Acceptances -> Accepting]
    /\ stored \subseteq Document
    /\ \A a \in Acceptances :
          LET q == acceptance[a] IN
          /\ q.since <= Len(past)
          /\ q.pc \in {"found", "accepted"} => FoundSince(q)

AgreedInv == LegalTypes /\ RegistrationTypes /\ OneUndecided /\ RegistrationsStand /\ AcceptancesStand

LEMMA LegalFacts ==
    ASSUME LegalTypes
    PROVE  /\ Len(past) \in Nat /\ Stamp = Len(past)
           /\ active \in Stood(Stamp) /\ \A n : active \in Stood(n)
  BY DEF LegalTypes, Stamp, Stood

\* What stood since a request came did so for good.
LEMMA StoodGrows ==
    ASSUME LegalTypes, NEW n \in Nat, n <= Len(past), past' = Append(past, active)
    PROVE  Stood(n) \subseteq Stood(n)'
<1>1. /\ Len(past') = Len(past) + 1 /\ past'[Len(past) + 1] = active
      /\ \A i \in 1..Len(past) : past'[i] = past[i]
  BY DEF LegalTypes
<1>2. ASSUME NEW s \in Stood(n) PROVE s \in Stood(n)'
  <2>1. CASE s = active
    <3>1. Len(past) + 1 \in (n + 1)..Len(past') /\ past'[Len(past) + 1] = s
      BY <1>1, <2>1 DEF LegalTypes
    <3> QED
      BY <3>1 DEF Stood
  <2>2. CASE \E i \in (n + 1)..Len(past) : s = past[i]
    <3>1. PICK i \in (n + 1)..Len(past) : s = past[i]
      BY <2>2
    <3>2. i \in 1..Len(past) /\ i \in (n + 1)..Len(past')
      BY <1>1 DEF LegalTypes
    <3> QED
      BY <1>1, <3>1, <3>2 DEF Stood
  <2> QED
    BY <2>1, <2>2 DEF Stood
<1> QED
  BY <1>2

\* Registration r goes on to q, in one state of the documents.
LEMMA RegisterMoves ==
    ASSUME AgreedInv, NEW r \in Registrations, NEW q \in Places,
           registration' = [registration EXCEPT ![r] = q], UNCHANGED legal,
           account' \in {account, r}, account' # account => account = Nobody /\ Undecided \subseteq {r},
           q.since <= Len(past),
           q.pc \in {"read", "inserted"} \/ account' = r => ReadSince(q),
           account' = r => q.pc \in {"registered", "refused"},
           q.pc = "registered" => account' = r,
           q.pc \in {"taken", "conflict"} => account' \notin {Nobody, r},
           q.pc = "inserted" => account' = Nobody /\ Undecided \subseteq {r}
    PROVE  AgreedInv'
<1>1. registration \in [Registrations -> Places] /\ registration'[r] = q
      /\ \A s \in Registrations \ {r} : registration'[s] = registration[s]
  BY DEF AgreedInv, RegistrationTypes
<1>2. RegistrationTypes'
  BY <1>1 DEF AgreedInv, RegistrationTypes
<1>3. LegalTypes' /\ AcceptancesStand'
  BY DEF AgreedInv, LegalTypes, AcceptancesStand, FoundSince, legal, Stood
<1>4. OneUndecided'
  <2>1. \A s \in Undecided' : s # r => s \in Undecided
    BY <1>1 DEF Undecided
  <2>2. r \in Undecided' <=> q.pc = "inserted"
    BY <1>1 DEF Undecided
  <2> QED
    BY <2>1, <2>2, NobodyAssumption DEF AgreedInv, OneUndecided
<1>5. \A d : ReadSince(d)' <=> ReadSince(d)
  BY DEF ReadSince, Stood, legal
<1>6. ASSUME NEW s \in Registrations
      PROVE  LET d == registration'[s] IN
             /\ d.since <= Len(past)
             /\ d.pc \in {"read", "inserted"} \/ account' = s => ReadSince(d)
             /\ account' = s => d.pc \in {"registered", "refused"}
             /\ d.pc = "registered" => account' = s
             /\ d.pc \in {"taken", "conflict"} => account' \notin {Nobody, s}
  <2>1. CASE s = r
    BY <1>1, <2>1
  <2>2. CASE s # r
    BY <1>1, <2>2, NobodyAssumption DEF AgreedInv, RegistrationsStand
  <2> QED
    BY <2>1, <2>2
<1>7. RegistrationsStand'
  BY <1>5, <1>6 DEF RegistrationsStand, legal
<1> QED
  BY <1>2, <1>3, <1>4, <1>7 DEF AgreedInv

\* The same before the commit: the account stays.
LEMMA RegisterMovesBefore ==
    ASSUME AgreedInv, NEW r \in Registrations, NEW q \in Places,
           registration' = [registration EXCEPT ![r] = q], UNCHANGED <<legal, account>>,
           registration[r].pc \notin {"registered", "refused"},
           q.since <= Len(past), q.pc # "registered",
           q.pc \in {"read", "inserted"} => ReadSince(q),
           q.pc \in {"taken", "conflict"} => account # Nobody,
           q.pc = "inserted" => account = Nobody /\ Undecided = {}
    PROVE  AgreedInv'
<1>1. account # r
  BY DEF AgreedInv, RegistrationsStand
<1>2. account' \in {account, r} /\ ~(account' # account) /\ UNCHANGED legal /\ ~(account' = r)
  BY <1>1
<1> QED
  BY <1>1, <1>2, RegisterMoves

LEMMA RegistrationStepKeeps == ASSUME AgreedInv, RegistrationNext PROVE AgreedInv'
<1>1. PICK r \in Registrations : Register(r) \/ ReadPack(r) \/ Insert(r) \/ Commit(r) \/ RollBack(r)
  BY DEF RegistrationNext
<1> DEFINE u == registration[r]
           M(d) == registration' = [registration EXCEPT ![r] = d]
<1>2. /\ registration \in [Registrations -> Places] /\ u \in Places /\ u.since <= Len(past) /\ UNCHANGED legal
      /\ u.pc \in {"read", "inserted"} \/ account = r => ReadSince(u)
      /\ account = r => u.pc \in {"registered", "refused"}
      /\ u.pc \in {"taken", "conflict"} => account \notin {Nobody, r}
      /\ account \in Registrations \cup {Nobody} /\ r # Nobody
      /\ LegalTypes /\ OneUndecided
  BY <1>1, NobodyAssumption
     DEF AgreedInv, RegistrationTypes, RegistrationsStand, Register, ReadPack, Insert, Commit, RollBack
<1>3. ASSUME NEW pc \in Registering_Pcs, Registering(r, pc)
      PROVE  LET d == [u EXCEPT !.pc = pc] IN
             /\ M(d) /\ d \in Places /\ d.pc = pc /\ d.since = u.since /\ d.at = u.at /\ d.documents = u.documents
             /\ ReadSince(u) => ReadSince(d)
  <2>1. registration' = [registration EXCEPT ![r] = [registration[r] EXCEPT !.pc = pc]]
    BY <1>2, <1>3 DEF Registering
  <2> QED
    BY <1>2, <2>1 DEF Places, ReadSince
<1>4. CASE Register(r)
  <2>1. PICK pc \in {"refused", "free", "taken"} :
           /\ registration' = [registration EXCEPT ![r].pc = pc, ![r].since = Stamp, ![r].at = day]
           /\ pc = "taken" => account # Nobody
    BY <1>4 DEF Register
  <2> DEFINE d == [u EXCEPT !.pc = pc, !.since = Stamp, !.at = day]
  <2>2. M(d) /\ d \in Places /\ d.pc = pc /\ d.since = Len(past)
    BY <1>2, <2>1, LegalFacts DEF Places, Registering_Pcs, Answers, LegalTypes
  <2> HIDE DEF d
  <2> QED
    <3>1. u.pc = "idle" /\ UNCHANGED account /\ Len(past) <= Len(past)
      BY <1>2, <1>4, LegalFacts DEF Register
    <3> QED
      BY <1>2, <2>1, <2>2, <3>1, RegisterMovesBefore
<1>5. CASE ReadPack(r)
  <2>1. CASE Registering(r, "refused")
    <3> DEFINE d == [u EXCEPT !.pc = "refused"]
    <3>1. M(d) /\ d \in Places /\ d.pc = "refused" /\ d.since = u.since
      BY <1>3, <2>1 DEF Registering_Pcs, Answers
    <3>2. u.pc = "free" /\ UNCHANGED account
      BY <1>5 DEF ReadPack
    <3> HIDE DEF d
    <3> QED
      BY <1>2, <3>1, <3>2, RegisterMovesBefore
  <2>2. CASE Complete(Pack, u.at) /\ registration' = [registration EXCEPT ![r].pc = "read", ![r].documents = Pack]
    <3> DEFINE d == [u EXCEPT !.pc = "read", !.documents = Pack]
    <3>1. Pack \subseteq Document /\ Pack = {x \in active : x.type # Recurring}
      BY <1>2 DEF Pack, Current, LegalTypes
    <3>2. M(d) /\ d \in Places /\ d.pc = "read" /\ d.since = u.since /\ d.at = u.at /\ d.documents = Pack
      BY <1>2, <2>2, <3>1 DEF Places, Registering_Pcs
    <3> HIDE DEF d
    <3>3. {x.type : x \in Pack} = Required /\ \A x \in Pack : x.from <= u.at
      BY <2>2 DEF Complete
    <3>4. ReadSince(d)
      BY <1>2, <3>1, <3>2, <3>3, LegalFacts DEF ReadSince
    <3> QED
      BY <1>2, <1>5, <3>2, <3>4, RegisterMovesBefore DEF ReadPack
  <2> QED
    BY <1>5, <2>1, <2>2 DEF ReadPack
<1>6. CASE Insert(r)
  <2>1. PICK pc \in {"inserted", "conflict"} :
           Registering(r, pc) /\ (pc = "inserted" <=> account = Nobody)
    BY <1>6 DEF Insert
  <2> DEFINE d == [u EXCEPT !.pc = pc]
  <2>2. M(d) /\ d \in Places /\ d.pc = pc /\ d.since = u.since /\ (ReadSince(u) => ReadSince(d))
    BY <1>3, <2>1 DEF Registering_Pcs
  <2>3. u.pc = "read" /\ UNCHANGED account /\ Undecided = {} /\ ReadSince(u)
    BY <1>2, <1>6 DEF Insert
  <2> HIDE DEF d
  <2> QED
    BY <1>2, <2>1, <2>2, <2>3, RegisterMovesBefore
<1>7. CASE Commit(r)
  <2>1. r \in Undecided
    BY <1>7 DEF Commit, Undecided
  <2>2. account = Nobody /\ Undecided \subseteq {r}
    BY <1>2, <2>1 DEF OneUndecided
  <2>3. PICK pc \in {"registered", "refused"} : Registering(r, pc)
    BY <1>7 DEF Commit
  <2> DEFINE d == [u EXCEPT !.pc = pc]
  <2>4. M(d) /\ d \in Places /\ d.pc = pc /\ d.since = u.since /\ (ReadSince(u) => ReadSince(d))
    BY <1>3, <2>3 DEF Registering_Pcs, Answers
  <2>5. account' = r /\ UNCHANGED legal /\ ReadSince(u)
    BY <1>2, <1>7 DEF Commit
  <2> HIDE DEF d
  <2> QED
    BY <1>2, <2>2, <2>3, <2>4, <2>5, RegisterMoves
<1>8. CASE RollBack(r)
  <2>1. PICK pc \in {"refused", "taken"} : Registering(r, pc) /\ (pc = "taken" => u.pc = "conflict")
    BY <1>8 DEF RollBack, Taken
  <2> QED
    <3> DEFINE d == [u EXCEPT !.pc = pc]
    <3>1. M(d) /\ d \in Places /\ d.pc = pc /\ d.since = u.since
      BY <1>3, <2>1 DEF Registering_Pcs, Answers
    <3>2. u.pc \in {"free", "read", "inserted", "conflict"} /\ UNCHANGED account
      BY <1>8 DEF RollBack
    <3> HIDE DEF d
    <3> QED
      BY <1>2, <2>1, <3>1, <3>2, RegisterMovesBefore
<1> QED
  BY <1>1, <1>4, <1>5, <1>6, <1>7, <1>8

LEMMA LegalStepKeeps == ASSUME AgreedInv, LegalNext, UNCHANGED register PROVE AgreedInv'
<1>0. registration' = registration /\ account' = account /\ LegalTypes /\ Len(past) \in Nat
  BY LegalFacts DEF register, AgreedInv
<1>1. ASSUME NEW m \in Manifests, Seed(m) PROVE AgreedInv'
  <2>1. past' = Append(past, active) /\ UNCHANGED <<day, acceptance>>
    BY <1>1 DEF Seed
  <2>2. m \subseteq Document
    BY ManifestAssumption
  <2>3. active' \subseteq Document /\ stored' \subseteq Document
    BY <1>1, <2>2 DEF Seed, AgreedInv, LegalTypes, AcceptancesStand
  <2>4. LegalTypes'
    BY <2>1, <2>3 DEF AgreedInv, LegalTypes
  <2>5. Len(past') = Len(past) + 1
    BY <2>1 DEF AgreedInv, LegalTypes
  <2>6. \A n \in Nat : n <= Len(past) => Stood(n) \subseteq Stood(n)'
    BY <1>0, <2>1, StoodGrows
  <2>7. RegistrationTypes' /\ OneUndecided'
    BY <1>0 DEF AgreedInv, RegistrationTypes, OneUndecided, Undecided
  <2>8. RegistrationsStand'
    <3> SUFFICES ASSUME NEW r \in Registrations
                 PROVE  LET q == registration[r] IN
                        /\ q.since <= Len(past')
                        /\ q.pc \in {"read", "inserted"} \/ account = r => ReadSince(q)'
                        /\ account = r => q.pc \in {"registered", "refused"}
                        /\ q.pc = "registered" => account = r
                        /\ q.pc \in {"taken", "conflict"} => account \notin {Nobody, r}
      BY <1>0 DEF RegistrationsStand
    <3>1. registration[r].since \in Nat /\ registration[r].since <= Len(past)
      BY DEF AgreedInv, RegistrationTypes, RegistrationsStand, Places
    <3>2. ReadSince(registration[r]) => ReadSince(registration[r])'
      BY <1>0, <2>6, <3>1 DEF ReadSince
    <3> QED
      BY <1>0, <2>5, <3>1, <3>2 DEF AgreedInv, RegistrationsStand
  <2>9. AcceptancesStand'
    BY <1>0, <2>1, <2>3, <2>5, <2>6 DEF AgreedInv, AcceptancesStand, FoundSince, Accepting
  <2> QED
    BY <2>4, <2>7, <2>8, <2>9 DEF AgreedInv
<1>2. ASSUME UNCHANGED <<stored, active, past>>, day' \in Nat, AcceptancesStand' PROVE AgreedInv'
  <2>1. \A q : ReadSince(q)' <=> ReadSince(q)
    BY <1>0, <1>2 DEF ReadSince, Stood
  <2>2. RegistrationsStand'
    BY <1>0, <1>2, <2>1 DEF AgreedInv, RegistrationsStand
  <2>3. RegistrationTypes' /\ OneUndecided' /\ LegalTypes'
    BY <1>0, <1>2 DEF AgreedInv, RegistrationTypes, OneUndecided, Undecided, LegalTypes
  <2> QED
    BY <1>2, <2>2, <2>3 DEF AgreedInv
<1>3. CASE NextDay
  <2>1. UNCHANGED <<stored, active, past, acceptance>> /\ day' \in Nat
    BY <1>3 DEF NextDay, AgreedInv, LegalTypes
  <2>2. AcceptancesStand'
    <3>1. day \in Nat /\ day' = day + 1
      BY <1>3 DEF NextDay, AgreedInv, LegalTypes
    <3>2. ASSUME NEW a \in Acceptances, FoundSince(acceptance[a]), acceptance[a] \in Accepting
          PROVE  FoundSince(acceptance[a])'
      <4>0. acceptance' = acceptance /\ \A n : Stood(n)' = Stood(n)
        BY <2>1 DEF Stood
      <4>1. \A x \in acceptance[a].document : x.from \in Nat
        BY <3>2 DEF Accepting, Document
      <4>2. \A x \in acceptance[a].document :
               x.from <= IF acceptance[a].pc = "accepted" THEN acceptance[a].at ELSE day'
        BY <3>1, <3>2, <4>1 DEF FoundSince
      <4>3. \E s \in Stood(acceptance[a].since)' : acceptance[a].document \subseteq s
        BY <3>2, <4>0 DEF FoundSince
      <4> QED
        BY <4>0, <4>2, <4>3 DEF FoundSince
    <3> QED
      BY <2>1, <3>2 DEF AgreedInv, AcceptancesStand
  <2> QED
    BY <1>2, <2>1, <2>2
<1>4. ASSUME NEW a \in Acceptances, AcceptFind(a) \/ AcceptEnd(a) PROVE AgreedInv'
  <2>0. /\ UNCHANGED <<stored, active, past, day>> /\ acceptance \in [Acceptances -> Accepting]
        /\ acceptance[a] \in Accepting /\ stored \subseteq Document
    BY <1>4 DEF AcceptFind, AcceptEnd, AgreedInv, AcceptancesStand
  <2>1. PICK q \in Accepting :
           /\ acceptance' = [acceptance EXCEPT ![a] = q] /\ q.since <= Len(past)
           /\ q.pc \in {"found", "accepted"} => FoundSince(q)
    <3>0. NewAcceptance \in Accepting /\ [NewAcceptance EXCEPT !.pc = "refused"] \in Accepting
      BY DEF NewAcceptance, Accepting
    <3>1. CASE acceptance' = [acceptance EXCEPT ![a] = [NewAcceptance EXCEPT !.pc = "refused"]]
      <4> DEFINE q == [NewAcceptance EXCEPT !.pc = "refused"]
      <4>1. q \in Accepting /\ q.since = 0 /\ q.pc = "refused" /\ acceptance' = [acceptance EXCEPT ![a] = q]
        BY <3>0, <3>1 DEF NewAcceptance
      <4>2. q.since <= Len(past)
        BY <1>0, <4>1
      <4> HIDE DEF q
      <4> QED
        BY <4>1, <4>2
    <3>2. CASE AcceptFind(a) /\ ~(acceptance' = [acceptance EXCEPT ![a] = [NewAcceptance EXCEPT !.pc = "refused"]])
      <4>1. PICK d \in stored : d \in InForce /\
                acceptance' = [acceptance EXCEPT ![a] =
                    [pc |-> "found", since |-> Stamp, at |-> 0, document |-> {d}]]
        BY <3>2 DEF AcceptFind
      <4>2. {d} \subseteq active /\ d \in Document /\ d.from <= day
        BY <2>0, <4>1 DEF InForce, Effective
      <4> DEFINE q == [pc |-> "found", since |-> Stamp, at |-> 0, document |-> {d}]
      <4>3. /\ q \in Accepting /\ q.since <= Len(past) /\ q.document = {d} /\ q.pc = "found"
            /\ acceptance' = [acceptance EXCEPT ![a] = q] /\ active \in Stood(q.since)
        <5>1. q \in Accepting
          BY <1>0, <4>2, LegalFacts DEF Accepting
        <5>2. q.since = Len(past) /\ q.document = {d} /\ q.pc = "found"
          BY <1>0, LegalFacts
        <5>3. acceptance' = [acceptance EXCEPT ![a] = q]
          BY <4>1
        <5> HIDE DEF q
        <5> QED
          BY <1>0, <5>1, <5>2, <5>3, LegalFacts
      <4> HIDE DEF q
      <4> QED
        BY <4>2, <4>3 DEF FoundSince
    <3>3. CASE AcceptEnd(a) /\ acceptance' = [acceptance EXCEPT ![a].pc = "accepted", ![a].at = day]
      <4> DEFINE q == [acceptance[a] EXCEPT !.pc = "accepted", !.at = day]
      <4>1. /\ q \in Accepting /\ q.since = acceptance[a].since /\ q.document = acceptance[a].document
            /\ q.pc = "accepted" /\ q.at = day
        BY <1>0, <2>0 DEF Accepting, LegalTypes
      <4>2. acceptance' = [acceptance EXCEPT ![a] = q]
        BY <2>0, <3>3
      <4>3. acceptance[a].pc = "found"
        BY <3>3 DEF AcceptEnd
      <4> HIDE DEF q
      <4> QED
        BY <4>1, <4>2, <4>3 DEF AgreedInv, AcceptancesStand, FoundSince
    <3> QED
      BY <1>4, <3>1, <3>2, <3>3 DEF AcceptEnd
  <2>2. \A n : Stood(n)' = Stood(n)
    BY <2>0 DEF Stood
  <2>3. AcceptancesStand'
    BY <2>0, <2>1, <2>2 DEF AgreedInv, AcceptancesStand, FoundSince
  <2> QED
    BY <1>2, <2>0, <2>3 DEF AgreedInv, LegalTypes
<1> QED
  BY <1>1, <1>3, <1>4 DEF LegalNext

LEMMA AgreedInvariant == AccountsSpec => []AgreedInv
<1>1. AccountsInit => AgreedInv
  <2> SUFFICES ASSUME AccountsInit PROVE AgreedInv
    OBVIOUS
  <2>1. LegalTypes /\ stored \subseteq Document
    BY ManifestAssumption, InstalledAssumption DEF AccountsInit, LegalInit, LegalTypes
  <2>2. NewRegistration \in Places /\ NewAcceptance \in Accepting
    BY DEF NewRegistration, Places, Registering_Pcs, NewAcceptance, Accepting
  <2>3. RegistrationTypes /\ OneUndecided /\ RegistrationsStand
    BY <2>2, NobodyAssumption
       DEF AccountsInit, LegalInit, RegistrationInit, RegistrationTypes, OneUndecided, Undecided, RegistrationsStand, NewRegistration
  <2>4. AcceptancesStand
    BY <2>1, <2>2 DEF AccountsInit, LegalInit, AcceptancesStand, NewAcceptance
  <2> QED
    BY <2>1, <2>3, <2>4 DEF AgreedInv
<1>2. AgreedInv /\ [AccountsNext]_accountVars => AgreedInv'
  <2> SUFFICES ASSUME AgreedInv, [AccountsNext]_accountVars PROVE AgreedInv'
    OBVIOUS
  <2>1. CASE LegalStep
    BY <2>1, LegalStepKeeps DEF LegalStep, LegalNext
  <2>2. CASE RegistrationStep
    BY <2>2, RegistrationStepKeeps DEF RegistrationStep
  <2>3. CASE UNCHANGED <<legal, register>>
    <3>1. (LegalTypes /\ RegistrationTypes /\ OneUndecided /\ AcceptancesStand)'
      BY <2>3 DEF AgreedInv, LegalTypes, RegistrationTypes, OneUndecided, Undecided, AcceptancesStand, FoundSince, Stood,
                  legal, register
    <3>2. RegistrationsStand'
      <4>1. \A q : ReadSince(q)' <=> ReadSince(q)
        BY <2>3 DEF ReadSince, Stood, legal
      <4> QED
        BY <2>3, <4>1 DEF AgreedInv, RegistrationsStand, legal, register
    <3> QED
      BY <3>1, <3>2 DEF AgreedInv
  <2> QED
    BY <2>1, <2>2, <2>3 DEF AccountsNext, VerificationStep, TermsStep, accountVars
<1> QED
  BY <1>1, <1>2, PTL DEF AccountsSpec

\* Whoever is told that the email is taken can rely on it, and of registrations
\* that overlap one wins.
THEOREM TakenIsTaken == AccountsSpec => []TakenMeansTaken
<1>1. AgreedInv => TakenMeansTaken
  BY DEF AgreedInv, RegistrationsStand, TakenMeansTaken
<1> QED
  BY <1>1, AgreedInvariant, PTL

\* An account's evidence is one complete pack, active as a whole while it was
\* registered and effective at the time the evidence gives, whatever releases
\* replaced and however the days turned meanwhile; and so is what is accepted
\* later (register_user, accept_legal_document).
THEOREM EvidenceHolds == AccountsSpec => []EvidenceStood
<1>1. AgreedInv => EvidenceStood
  BY DEF AgreedInv, RegistrationTypes, RegistrationsStand, ReadSince, AcceptancesStand, FoundSince, EvidenceStood
<1> QED
  BY <1>1, AgreedInvariant, PTL

\* What is proved of verification holds beside registrations and purchases.
THEOREM AccountsVerify == AccountsSpec => Spec
<1>1. AccountsInit => Init
  BY DEF AccountsInit
<1>2. [AccountsNext]_accountVars => [Next]_vars
  BY DEF AccountsNext, LegalStep, RegistrationStep, VerificationStep, TermsStep, accountVars
<1> QED
  BY <1>1, <1>2, PTL DEF AccountsSpec, Spec

-----------------------------------------------------------------------------
(* Purchases *)

\* An offer read at the provider, or none yet.
OffersSeen == {<<>>} \cup (Offers \X Nat)

MeaningsSent == [revision : Nat, offer : OffersSeen, documents : SUBSET Document]

TermPcs == {"idle", "link", "offer", "documents", "pin", "record", "ended"}

RequestsSent == [pc : TermPcs, key : Keys \cup {""}, wants : MeaningsSent, link : Nat, offer : OffersSeen,
                 documents : SUBSET Document, day : Nat, begun : Nat,
                 answer : {"none", "unavailable", "reviewed", "conflict", "accepted", "occupied", "changed", "failed"}]

TermTypes ==
    /\ head \in Revisions
    /\ selects \in [Revisions -> Offers]
    /\ offered \in [Offers -> Nat]
    /\ asked \in [Requests -> RequestsSent]
    /\ DOMAIN purchase \subseteq Confirmations

\* What a request has read of link and offer, however long ago.
HasRead(q) ==
    /\ q.pc \in {"offer", "documents", "pin", "record"} => q.link \in 1..head
    /\ q.pc = "offer" => offered[selects[q.link]] = 0 \/ offered[selects[q.link]] >= q.begun
    /\ q.pc \in {"documents", "pin", "record"} =>
          q.offer \in Offers \X Nat /\ q.offer[1] = selects[q.link] /\ q.offer[2] >= q.begun

\* What a confirmation has compared stays until it commits.
Compared(q) ==
    q.pc = "record" =>
        /\ head = q.wants.revision /\ q.link = head /\ q.offer = q.wants.offer
        /\ q.wants.documents = q.documents /\ q.documents = Effective(q.day)

RequestsStand ==
    \A r \in Requests :
        /\ HasRead(asked[r]) /\ Compared(asked[r])
        /\ asked[r].pc \in {"pin", "record"} => r \in Confirmations
        /\ r \in DOMAIN purchase => asked[r].pc = "ended"

TermsInv == LegalTypes /\ TermTypes /\ RequestsStand

LEMMA NewRequestFits == NewRequest \in RequestsSent /\ None \in MeaningsSent
<1>1. None \in MeaningsSent
  BY DEF None, Meaning, MeaningsSent, OffersSeen
<1> QED
  BY <1>1 DEF NewRequest, RequestsSent, TermPcs, OffersSeen

\* Request r goes on to q, while its terms stay.
LEMMA AskMoves ==
    ASSUME TermsInv, NEW r \in Requests, NEW q \in RequestsSent, asked' = [asked EXCEPT ![r] = q],
           UNCHANGED <<legal, head, selects, offered>>,
           DOMAIN purchase' \subseteq DOMAIN purchase \cup ({r} \cap Confirmations),
           r \in DOMAIN purchase' => q.pc = "ended",
           HasRead(q), Compared(q), q.pc \in {"pin", "record"} => r \in Confirmations
    PROVE  TermsInv'
<1>1. asked \in [Requests -> RequestsSent] /\ asked'[r] = q
      /\ \A s \in Requests \ {r} : asked'[s] = asked[s]
  BY DEF TermsInv, TermTypes
<1>2. LegalTypes' /\ TermTypes'
  BY <1>1 DEF TermsInv, LegalTypes, TermTypes, legal
<1>3. \A d : (HasRead(d)' <=> HasRead(d)) /\ (Compared(d)' <=> Compared(d))
  BY DEF HasRead, Compared, Effective, legal
<1>4. RequestsStand'
  <2> SUFFICES ASSUME NEW s \in Requests
               PROVE  /\ HasRead(asked'[s]) /\ Compared(asked'[s])
                      /\ asked'[s].pc \in {"pin", "record"} => s \in Confirmations
                      /\ s \in DOMAIN purchase' => asked'[s].pc = "ended"
    BY <1>3 DEF RequestsStand
  <2>1. CASE s = r
    BY <1>1, <2>1
  <2>2. CASE s # r
    BY <1>1, <2>2 DEF TermsInv, RequestsStand
  <2> QED
    BY <2>1, <2>2
<1> QED
  BY <1>2, <1>4 DEF TermsInv

\* A request that ends has nothing to keep.
LEMMA EndMoves ==
    ASSUME TermsInv, NEW r \in Requests, NEW q \in RequestsSent, q.pc = "ended",
           asked' = [asked EXCEPT ![r] = q], UNCHANGED <<legal, head, selects, offered>>,
           DOMAIN purchase' \subseteq DOMAIN purchase \cup ({r} \cap Confirmations)
    PROVE  TermsInv'
<1>1. HasRead(q) /\ Compared(q)
  BY DEF HasRead, Compared
<1> QED
  BY <1>1, AskMoves

LEMMA EndWithFits ==
    ASSUME TermsInv, NEW r \in Requests,
           NEW a \in {"unavailable", "reviewed", "conflict", "accepted", "occupied", "changed", "failed"},
           EndWith(r, a)
    PROVE  \E q \in RequestsSent :
              /\ q.pc = "ended" /\ asked' = [asked EXCEPT ![r] = q]
              /\ q.answer = a /\ q.key = asked[r].key /\ q.wants = asked[r].wants
<1> DEFINE q == [NewRequest EXCEPT !.pc = "ended", !.answer = a, !.key = asked[r].key, !.wants = asked[r].wants]
<1>1. asked[r] \in RequestsSent
  BY DEF TermsInv, TermTypes
<1>2. q \in RequestsSent /\ q.pc = "ended" /\ q.answer = a /\ q.key = asked[r].key /\ q.wants = asked[r].wants
  BY <1>1, NewRequestFits DEF RequestsSent, TermPcs
<1>3. asked' = [asked EXCEPT ![r] = q]
  BY DEF EndWith
<1> HIDE DEF q
<1> QED
  BY <1>2, <1>3

LEMMA PriorKnown == ASSUME NEW q PROVE Prior(q) \in {"conflict", "accepted", "occupied", "none"}
  BY DEF Prior

\* A request ends, and nothing else happens.
LEMMA EndWithKeeps ==
    ASSUME TermsInv, NEW r \in Requests,
           NEW a \in {"unavailable", "reviewed", "conflict", "accepted", "occupied", "changed", "failed"},
           EndWith(r, a), UNCHANGED <<legal, head, selects, offered, purchase>>
    PROVE  TermsInv'
<1>1. PICK q \in RequestsSent : q.pc = "ended" /\ asked' = [asked EXCEPT ![r] = q]
  BY EndWithFits
<1> QED
  BY <1>1, EndMoves

LEMMA InForceIsDocuments == ASSUME LegalTypes PROVE InForce \in SUBSET Document /\ InForce = Effective(day)
  BY DEF LegalTypes, InForce, Effective

LEMMA ReadsKeep ==
    ASSUME TermsInv, UNCHANGED legal, NEW r \in Requests,
           Review(r) \/ Confirm(r) \/ ReadLink(r) \/ ReadOffer(r) \/ ReadDocuments(r)
    PROVE  TermsInv'
<1> DEFINE u == asked[r]
           M(d) == asked' = [asked EXCEPT ![r] = d]
<1>0. /\ asked \in [Requests -> RequestsSent] /\ u \in RequestsSent /\ HasRead(u) /\ LegalTypes
      /\ head \in Revisions /\ head \in 1..head /\ selects \in [Revisions -> Offers] /\ offered \in [Offers -> Nat]
      /\ UNCHANGED <<legal, head, selects, offered, purchase>> /\ Revisions \subseteq Nat
      /\ u.pc # "ended" => r \notin DOMAIN purchase
  <2>1. head \in Revisions => head \in 1..head
    BY TermsAssumption DEF Revisions
  <2>2. UNCHANGED <<head, selects, offered, purchase>>
    BY DEF Review, Confirm, ReadLink, ReadOffer, ReadDocuments
  <2> QED
    BY <2>1, <2>2 DEF TermsInv, TermTypes, RequestsStand, Revisions
<1>1. CASE Review(r)
  <2> DEFINE d == [u EXCEPT !.pc = "link"]
  <2>1. M(d) /\ d \in RequestsSent /\ d.pc = "link" /\ u.pc = "idle"
    BY <1>0, <1>1 DEF Review, Goto, RequestsSent, TermPcs
  <2>2. HasRead(d) /\ Compared(d)
    BY <2>1 DEF HasRead, Compared
  <2> HIDE DEF d
  <2> QED
    BY <1>0, <2>1, <2>2, AskMoves
<1>2. CASE Confirm(r)
  <2>1. PICK k \in Keys, m \in Reviewed :
          LET q == [NewRequest EXCEPT !.key = k, !.wants = m] IN
          asked' = [asked EXCEPT ![r] =
              IF Prior(q) # "none" THEN [q EXCEPT !.pc = "ended", !.answer = Prior(q)]
                                   ELSE [q EXCEPT !.pc = "link"]]
    BY <1>2 DEF Confirm
  <2> DEFINE q == [NewRequest EXCEPT !.key = k, !.wants = m]
             x == [q EXCEPT !.pc = "ended", !.answer = Prior(q)]
             d == [q EXCEPT !.pc = "link"]
  <2>2. m \in MeaningsSent
    BY <1>0 DEF Reviewed, Requests, RequestsSent
  <2>3. q \in RequestsSent
    BY <2>2, NewRequestFits DEF RequestsSent
  <2>4. u.pc = "idle" /\ (M(x) \/ M(d))
    BY <1>2, <2>1 DEF Confirm
  <2> HIDE DEF q
  <2>5. x \in RequestsSent /\ x.pc = "ended"
    BY <2>3, PriorKnown DEF RequestsSent, TermPcs
  <2>6. d \in RequestsSent /\ d.pc = "link"
    BY <2>3 DEF RequestsSent, TermPcs
  <2> HIDE DEF x, d
  <2>7. HasRead(d) /\ Compared(d)
    BY <2>6 DEF HasRead, Compared
  <2> QED
    BY <1>0, <2>4, <2>5, <2>6, <2>7, AskMoves, EndMoves
<1>3. CASE ReadLink(r)
  <2> DEFINE d == [u EXCEPT !.pc = "offer", !.link = head, !.begun = offered[selects[head]]]
  <2>1. offered[selects[head]] \in Nat
    BY <1>0
  <2>2. M(d) /\ d \in RequestsSent /\ d.pc = "offer" /\ d.link = head /\ d.begun = offered[selects[head]] /\ u.pc = "link"
    BY <1>0, <1>3, <2>1 DEF ReadLink, RequestsSent, TermPcs
  <2> HIDE DEF d
  <2>3. HasRead(d) /\ Compared(d)
    BY <1>0, <2>1, <2>2 DEF HasRead, Compared
  <2> QED
    BY <1>0, <2>2, <2>3, AskMoves
<1>4. CASE ReadOffer(r)
  <2>1. CASE EndWith(r, "unavailable")
    BY <1>0, <2>1, EndWithKeeps
  <2> DEFINE o == selects[u.link]
             d == [u EXCEPT !.pc = "documents", !.offer = <<o, offered[o]>>]
  <2>2. CASE offered[o] # 0 /\ asked' = [asked EXCEPT ![r].pc = "documents", ![r].offer = <<o, offered[o]>>]
    <3>1. u.pc = "offer" /\ u.link \in 1..head /\ u.link \in Revisions
      <4>1. u.pc = "offer" /\ u.link \in 1..head
        BY <1>0, <1>4 DEF ReadOffer, HasRead
      <4> QED
        BY <1>0, <4>1, TermsAssumption DEF Revisions
    <3>2. o \in Offers /\ offered[o] \in Nat /\ offered[o] >= u.begun
      BY <1>0, <2>2, <3>1 DEF HasRead
    <3>3. <<o, offered[o]>> \in Offers \X Nat
      BY <3>2
    <3>4. M(d) /\ d \in RequestsSent /\ d.pc = "documents" /\ d.link = u.link /\ d.begun = u.begun
          /\ d.offer = <<o, offered[o]>>
      BY <1>0, <2>2, <3>3 DEF RequestsSent, TermPcs, OffersSeen
    <3>5. d.offer[1] = o /\ d.offer[2] = offered[o]
      BY <3>4
    <3> HIDE DEF d
    <3>6. HasRead(d) /\ Compared(d)
      BY <3>1, <3>2, <3>3, <3>4, <3>5 DEF HasRead, Compared
    <3> QED
      BY <1>0, <3>1, <3>4, <3>6, AskMoves
  <2> QED
    BY <1>4, <2>1, <2>2 DEF ReadOffer
<1>5. CASE ReadDocuments(r)
  <2>0. u.pc = "documents" /\ InForce \in SUBSET Document
    BY <1>0, <1>5, InForceIsDocuments DEF ReadDocuments
  <2>1. CASE EndWith(r, "unavailable")
    BY <1>0, <2>1, EndWithKeeps
  <2> DEFINE m == Meaning(u.link, u.offer, InForce)
             x == [NewRequest EXCEPT !.pc = "ended", !.answer = "reviewed", !.wants = m]
             d == [u EXCEPT !.pc = "pin", !.documents = InForce]
  <2>2. CASE M(x)
    <3>1. m \in MeaningsSent
      BY <1>0, <2>0 DEF Meaning, MeaningsSent, RequestsSent
    <3>2. x \in RequestsSent /\ x.pc = "ended"
      BY <3>1, NewRequestFits DEF RequestsSent, TermPcs
    <3> HIDE DEF x
    <3> QED
      BY <1>0, <2>2, <3>2, EndMoves
  <2>3. CASE r \notin Reviews /\ asked' = [asked EXCEPT ![r].pc = "pin", ![r].documents = InForce]
    <3>1. /\ M(d) /\ d \in RequestsSent /\ d.pc = "pin" /\ d.link = u.link /\ d.begun = u.begun /\ d.offer = u.offer
      BY <1>0, <2>0, <2>3 DEF RequestsSent, TermPcs
    <3> HIDE DEF d
    <3>2. HasRead(d) /\ Compared(d)
      BY <1>0, <2>0, <3>1 DEF HasRead, Compared
    <3> QED
      BY <1>0, <2>0, <2>3, <3>1, <3>2, AskMoves DEF Requests
  <2> QED
    BY <1>5, <2>1, <2>2, <2>3 DEF ReadDocuments
<1> QED
  BY <1>1, <1>2, <1>3, <1>4, <1>5

LEMMA ConfirmsKeep ==
    ASSUME TermsInv, UNCHANGED legal, NEW r \in Requests, Pin(r) \/ Record(r) \/ Drop(r)
    PROVE  TermsInv'
<1> DEFINE u == asked[r]
<1>0. /\ asked \in [Requests -> RequestsSent] /\ u \in RequestsSent /\ HasRead(u) /\ LegalTypes
      /\ UNCHANGED <<legal, head, selects, offered>> /\ (u.pc \in {"pin", "record"} => r \in Confirmations)
      /\ u.pc # "ended" => r \notin DOMAIN purchase
      /\ day \in Nat
  BY DEF TermsInv, TermTypes, RequestsStand, LegalTypes, Pin, Record, Drop
<1>1. CASE Pin(r)
  <2>1. CASE \E a \in {"conflict", "accepted", "occupied", "unavailable", "changed"} : EndWith(r, a)
    BY <1>0, <1>1, <2>1, EndWithKeeps DEF Pin
  <2> DEFINE d == [u EXCEPT !.pc = "record", !.day = day]
  <2>2. CASE AsWanted(u) /\ asked' = [asked EXCEPT ![r].pc = "record", ![r].day = day]
    <3>1. /\ asked' = [asked EXCEPT ![r] = d] /\ d \in RequestsSent /\ d.pc = "record" /\ d.day = day
          /\ d.link = u.link /\ d.begun = u.begun /\ d.offer = u.offer /\ d.wants = u.wants
          /\ d.documents = u.documents
      BY <1>0, <2>2 DEF RequestsSent, TermPcs
    <3>2. u.pc = "pin" /\ purchase' = purchase
      BY <1>1 DEF Pin
    <3> HIDE DEF d
    <3>3. HasRead(d)
      BY <1>0, <3>1, <3>2 DEF HasRead
    <3>4. Compared(d)
      BY <2>2, <3>1 DEF Compared, AsWanted, InForce
    <3> QED
      BY <1>0, <3>1, <3>2, <3>3, <3>4, AskMoves
  <2>3. Prior(u) \in {"conflict", "accepted", "occupied", "none"}
    BY PriorKnown
  <2> QED
    BY <1>1, <2>1, <2>2, <2>3 DEF Pin
<1>2. CASE Record(r)
  <2>1. PICK q \in RequestsSent : q.pc = "ended" /\ asked' = [asked EXCEPT ![r] = q]
    BY <1>2, EndWithFits DEF Record
  <2>2. DOMAIN purchase' \subseteq DOMAIN purchase \cup ({r} \cap Confirmations)
    BY <1>0, <1>2 DEF Record
  <2> QED
    BY <1>0, <2>1, <2>2, EndMoves
<1>3. CASE Drop(r)
  BY <1>0, <1>3, EndWithKeeps DEF Drop
<1> QED
  BY <1>1, <1>2, <1>3

\* The link and the seller change nothing that was read.
LEMMA OffersKeep ==
    ASSUME TermsInv, UNCHANGED legal,
           (\E o \in Offers : Publish(o) \/ Change(o)) \/ (\E p \in hold : Release(p))
    PROVE  TermsInv'
<1>0. /\ asked' = asked /\ purchase' = purchase /\ LegalTypes' /\ head \in Nat /\ head \in Revisions
      /\ selects \in [Revisions -> Offers] /\ offered \in [Offers -> Nat] /\ asked \in [Requests -> RequestsSent]
  BY DEF TermsInv, TermTypes, LegalTypes, legal, Publish, Change, Release, Revisions
<1>1. ASSUME NEW o \in Offers, Publish(o) PROVE TermsInv'
  <2>1. /\ head' = head + 1 /\ head' \in Revisions /\ offered' = offered /\ selects' \in [Revisions -> Offers]
        /\ \A l \in 1..head : l \in Revisions /\ selects'[l] = selects[l] /\ l \in 1..head'
    BY <1>0, <1>1, TermsAssumption DEF Publish, Revisions
  <2>2. ASSUME NEW r \in Requests PROVE HasRead(asked[r])' /\ Compared(asked[r])'
    <3>1. asked[r].pc # "record"
      BY <1>1 DEF Publish, UserLocked, Pinning, TermsInv, RequestsStand
    <3>2. HasRead(asked[r])
      BY DEF TermsInv, RequestsStand
    <3> QED
      BY <1>0, <2>1, <3>1, <3>2 DEF HasRead, Compared
  <2> QED
    BY <1>0, <2>1, <2>2 DEF TermsInv, TermTypes, RequestsStand
<1>2. ASSUME NEW o \in Offers, Change(o) PROVE TermsInv'
  <2>1. /\ head' = head /\ selects' = selects
        /\ \E n \in Nat : offered' = [offered EXCEPT ![o] = n] /\ (n = 0 \/ n > offered[o]) /\ offered[o] # 0
    <3>1. PICK n \in {0, offered[o] + 1} \cap (0..MaxTerms) : offered' = [offered EXCEPT ![o] = n]
      BY <1>2 DEF Change
    <3>2. offered[o] \in Nat /\ offered[o] # 0 /\ n \in Nat /\ (n = 0 \/ n > offered[o])
      BY <1>0, <1>2, <3>1, TermsAssumption DEF Change
    <3> QED
      BY <1>2, <3>1, <3>2 DEF Change
  <2>2. /\ offered' \in [Offers -> Nat]
        /\ \A x \in Offers : offered'[x] = 0 \/ (offered[x] # 0 /\ offered'[x] >= offered[x])
    BY <1>0, <2>1
  <2>3. ASSUME NEW r \in Requests PROVE HasRead(asked[r])' /\ Compared(asked[r])'
    <3>1. HasRead(asked[r]) /\ Compared(asked[r]) /\ asked[r].begun \in Nat /\ 1..head \subseteq Revisions
      <4>1. 1..head \subseteq Revisions
        BY <1>0, TermsAssumption DEF Revisions
      <4> QED
        BY <1>0, <4>1 DEF TermsInv, RequestsStand, RequestsSent
    <3>2. asked[r].pc = "offer" =>
            offered'[selects[asked[r].link]] = 0 \/ offered'[selects[asked[r].link]] >= asked[r].begun
      <4>1. SUFFICES ASSUME asked[r].pc = "offer" PROVE
            offered'[selects[asked[r].link]] = 0 \/ offered'[selects[asked[r].link]] >= asked[r].begun
        OBVIOUS
      <4>2. selects[asked[r].link] \in Offers
        BY <1>0, <3>1, <4>1 DEF HasRead
      <4>3. offered[selects[asked[r].link]] \in Nat /\ offered'[selects[asked[r].link]] \in Nat
        BY <1>0, <2>2, <4>2
      <4> QED
        BY <2>2, <3>1, <4>1, <4>2, <4>3 DEF HasRead
    <3> QED
      BY <1>0, <2>1, <3>1, <3>2 DEF HasRead, Compared, Effective, legal
  <2> QED
    BY <1>0, <2>1, <2>2, <2>3 DEF TermsInv, TermTypes, RequestsStand
<1>3. ASSUME UNCHANGED <<head, selects, offered>> PROVE TermsInv'
  <2>1. \A r \in Requests : HasRead(asked[r])' /\ Compared(asked[r])'
    BY <1>0, <1>3 DEF TermsInv, RequestsStand, HasRead, Compared, Effective, legal
  <2> QED
    BY <1>0, <1>3, <2>1 DEF TermsInv, TermTypes, RequestsStand
<1> QED
  BY <1>1, <1>2, <1>3 DEF Release

\* A release is seeded only while no confirmation commits.
LEMMA DocumentsKeep ==
    ASSUME TermsInv, UNCHANGED terms, LegalTypes', DocumentsFree \/ UNCHANGED active PROVE TermsInv'
<1>1. ASSUME NEW r \in Requests PROVE HasRead(asked[r])' /\ Compared(asked[r])'
  <2>1. CASE UNCHANGED active
    BY <2>1 DEF TermsInv, RequestsStand, HasRead, Compared, Effective, terms
  <2>2. CASE DocumentsFree
    <3>1. asked[r].pc # "record"
      BY <2>2 DEF DocumentsFree, UserLocked, Pinning, TermsInv, RequestsStand
    <3> QED
      BY <3>1 DEF TermsInv, RequestsStand, HasRead, Compared, terms
  <2> QED
    BY <2>1, <2>2
<1> QED
  BY <1>1 DEF TermsInv, TermTypes, RequestsStand, terms

LEMMA TermsInvariant == AccountsSpec => []TermsInv
<1>1. AccountsInit => TermsInv
  <2> SUFFICES ASSUME AccountsInit PROVE TermsInv
    OBVIOUS
  <2>1. LegalTypes
    BY ManifestAssumption, InstalledAssumption DEF AccountsInit, LegalInit, LegalTypes
  <2>2. TermTypes /\ purchase = <<>>
    BY NewRequestFits, TermsAssumption DEF AccountsInit, TermsInit, TermTypes, Revisions, Offers
  <2>3. \A r \in Requests : asked[r].pc = "idle"
    BY DEF AccountsInit, TermsInit, NewRequest
  <2>4. DOMAIN purchase = {}
    BY <2>2
  <2>5. RequestsStand
    BY <2>3, <2>4 DEF RequestsStand, HasRead, Compared
  <2> QED
    BY <2>1, <2>2, <2>5 DEF TermsInv
<1>2. TermsInv /\ AgreedInv' /\ [AccountsNext]_accountVars => TermsInv'
  <2> SUFFICES ASSUME TermsInv, LegalTypes', [AccountsNext]_accountVars PROVE TermsInv'
    BY DEF AgreedInv
  <2>1. CASE LegalStep
    BY <2>1, DocumentsKeep DEF LegalStep, NextDay, AcceptFind, AcceptEnd
  <2>2. CASE TermsStep
    BY <2>2, ReadsKeep, ConfirmsKeep, OffersKeep DEF TermsStep, TermsNext, Review, Confirm, Requests
  <2>3. CASE UNCHANGED <<terms, active>>
    BY <2>3, DocumentsKeep
  <2> QED
    BY <2>1, <2>2, <2>3 DEF AccountsNext, RegistrationStep, RegistrationNext, Register, ReadPack, Insert, Commit,
                            RollBack, VerificationStep, accountVars, legal
<1> QED
  BY <1>1, <1>2, AgreedInvariant, PTL DEF AccountsSpec

-----------------------------------------------------------------------------
(* What a purchase records, and what its repetitions are answered *)

LEMMA Recorded ==
    ASSUME TermsInv, NEW r \in Requests, Record(r)
    PROVE  /\ r \notin DOMAIN purchase /\ DOMAIN purchase' = DOMAIN purchase \cup {r}
           /\ \A p \in DOMAIN purchase : purchase'[p] = purchase[p]
           /\ purchase'[r] = [key |-> asked[r].key, wants |-> asked[r].wants, offer |-> asked[r].offer,
                              documents |-> asked[r].documents, agreed |-> Effective(asked[r].day)]
<1>1. r \notin DOMAIN purchase
  BY DEF TermsInv, RequestsStand, Record
<1> QED
  BY <1>1 DEF Record

\* Nothing else records a purchase.
LEMMA OnlyRecord ==
    ASSUME [AccountsNext]_accountVars
    PROVE  UNCHANGED purchase \/ \E r \in Requests : Record(r)
<1>1. CASE TermsStep
  BY <1>1 DEF TermsStep, TermsNext, Review, Confirm, ReadLink, ReadOffer, ReadDocuments, Pin, Drop,
              Publish, Change, Release
<1>2. CASE UNCHANGED terms
  BY <1>2 DEF terms
<1> QED
  BY <1>1, <1>2 DEF AccountsNext, LegalStep, RegistrationStep, VerificationStep, accountVars

\* What a purchase records is what its user was shown, and all of it stands
\* together when it is recorded, whoever publishes, sells or seeds meanwhile.
THEOREM AcceptedTogether == AccountsSpec => AcceptedStands
<1>1. ASSUME TermsInv, NEW s \in Requests, Record(s), NEW r \in DOMAIN purchase' \ DOMAIN purchase
      PROVE  LET p == purchase'[r] IN
             /\ p.wants.revision = head /\ selects[head] = p.offer[1]
             /\ p.wants.offer = p.offer /\ p.offer[2] >= asked[r].begun
             /\ p.wants.documents = p.documents /\ p.agreed = p.documents
             /\ p.documents \subseteq active
  <2> DEFINE q == asked[s]
  <2>1. r = s /\ purchase'[r] = [key |-> q.key, wants |-> q.wants, offer |-> q.offer,
                                 documents |-> q.documents, agreed |-> Effective(q.day)]
    BY <1>1, Recorded
  <2>2. q.pc = "record" /\ HasRead(q) /\ Compared(q)
    BY <1>1 DEF Record, TermsInv, RequestsStand
  <2> QED
    BY <2>1, <2>2 DEF HasRead, Compared, Effective
<1>2. TermsInv /\ [AccountsNext]_accountVars =>
        [\A r \in DOMAIN purchase' \ DOMAIN purchase :
          LET p == purchase'[r] IN
          /\ p.wants.revision = head /\ selects[head] = p.offer[1]
          /\ p.wants.offer = p.offer /\ p.offer[2] >= asked[r].begun
          /\ p.wants.documents = p.documents /\ p.agreed = p.documents
          /\ p.documents \subseteq active]_terms
  BY <1>1, OnlyRecord
<1> QED
  BY <1>2, TermsInvariant, PTL DEF AccountsSpec, AcceptedStands

\* How the answer of a confirmation comes about.
LEMMA PriorMeans ==
    ASSUME NEW q
    PROVE  /\ Prior(q) = "accepted" => \E p \in ByKey(q.key) : purchase[p].wants = q.wants
           /\ Prior(q) = "occupied" => ByKey(q.key) = {} /\ hold # {}
           /\ Prior(q) = "conflict" => \E p \in ByKey(q.key) : purchase[p].wants # q.wants
  BY DEF Prior

LEMMA AnswersFit ==
    ASSUME TermsInv, [AccountsNext]_accountVars, NEW r \in Confirmations, asked'[r].answer # asked[r].answer
    PROVE  LET q == asked'[r]  same == {p \in DOMAIN purchase' : purchase'[p].key = q.key} IN
           /\ q.answer = "accepted" => \E p \in same : purchase'[p].wants = q.wants
           /\ q.answer = "occupied" => same = {} /\ hold # {}
           /\ q.answer = "conflict" => \E p \in same : purchase'[p].wants # q.wants
<1> DEFINE Fits(q) == LET same == {p \in DOMAIN purchase' : purchase'[p].key = q.key} IN
                      /\ q.answer = "accepted" => \E p \in same : purchase'[p].wants = q.wants
                      /\ q.answer = "occupied" => same = {} /\ hold # {}
                      /\ q.answer = "conflict" => \E p \in same : purchase'[p].wants # q.wants
<1>0. asked \in [Requests -> RequestsSent] /\ r \in Requests /\ asked[r] \in RequestsSent
  BY DEF TermsInv, TermTypes, Requests
\* Of a request that finds its answer in what is there.
<1>1. ASSUME NEW q, UNCHANGED purchase, q.answer = Prior(q) \/ q.answer \in {"unavailable", "reviewed", "changed", "failed"}
      PROVE  Fits(q)
  <2>1. {p \in DOMAIN purchase' : purchase'[p].key = q.key} = ByKey(q.key)
    BY <1>1 DEF ByKey
  <2> QED
    BY <1>1, <2>1, PriorMeans
<1>2. ASSUME NEW s \in Requests, s # r, NEW d, asked' = [asked EXCEPT ![s] = d] PROVE FALSE
  BY <1>0, <1>2
<1>3. ASSUME NEW q, NEW p, q.key = p.key, q.wants = p.wants PROVE Prior(q) = Prior(p)
  BY <1>3 DEF Prior
<1>4. ASSUME NEW s \in Requests, NEW a \in {"unavailable", "changed", "failed", Prior(asked[r])},
             UNCHANGED purchase, EndWith(s, a), TermsInv, a # "none"
      PROVE  Fits(asked'[r])
  <2>1. s = r
    BY <1>2, <1>4 DEF EndWith
  <2>2. a \in {"unavailable", "reviewed", "conflict", "accepted", "occupied", "changed", "failed"}
    BY <1>4, PriorKnown
  <2>3. PICK q \in RequestsSent : /\ asked' = [asked EXCEPT ![r] = q] /\ q.answer = a
                                  /\ q.key = asked[r].key /\ q.wants = asked[r].wants
    BY <1>4, <2>1, <2>2, EndWithFits
  <2>4. asked'[r] = q
    BY <1>0, <2>3
  <2> HIDE DEF Fits
  <2> QED
    BY <1>1, <1>3, <1>4, <2>3, <2>4
<1>5. ASSUME NEW s \in Requests, Confirm(s) PROVE Fits(asked'[r])
  <2>1. PICK k \in Keys, m \in Reviewed :
          LET q == [NewRequest EXCEPT !.key = k, !.wants = m] IN
          asked' = [asked EXCEPT ![s] =
              IF Prior(q) # "none" THEN [q EXCEPT !.pc = "ended", !.answer = Prior(q)]
                                   ELSE [q EXCEPT !.pc = "link"]]
    BY <1>5 DEF Confirm
  <2> DEFINE q == [NewRequest EXCEPT !.key = k, !.wants = m]
             x == [q EXCEPT !.pc = "ended", !.answer = Prior(q)]
             d == [q EXCEPT !.pc = "link"]
  <2>2. s = r
    BY <1>2, <2>1
  <2>3. m \in MeaningsSent
    BY DEF TermsInv, TermTypes, Reviewed, Requests, RequestsSent
  <2>4. q \in RequestsSent /\ q.answer = "none"
    BY <2>3, NewRequestFits DEF RequestsSent, NewRequest
  <2>5. UNCHANGED purchase /\ asked' = [asked EXCEPT ![r] = IF Prior(q) # "none" THEN x ELSE d]
    BY <1>5, <2>1, <2>2 DEF Confirm
  <2> HIDE DEF q
  <2>6. x.answer = Prior(q) /\ x.key = q.key /\ x.wants = q.wants /\ d.answer = "none"
    BY <2>4, PriorKnown DEF RequestsSent
  <2>7. Prior(x) = Prior(q)
    BY <1>3, <2>6
  <2> HIDE DEF x, d, Fits
  <2>8. CASE asked'[r] = x
    BY <1>1, <2>5, <2>6, <2>7, <2>8
  <2>9. CASE asked'[r] = d
    BY <2>6, <2>9 DEF Fits
  <2> QED
    BY <1>0, <2>5, <2>8, <2>9
<1>6. ASSUME NEW s \in Requests, Record(s) PROVE Fits(asked'[r])
  <2>1. PICK q \in RequestsSent : /\ asked' = [asked EXCEPT ![s] = q] /\ q.answer = "accepted"
                                  /\ q.key = asked[s].key /\ q.wants = asked[s].wants
    BY <1>6, EndWithFits DEF Record
  <2>2. s = r /\ asked'[r] = q
    BY <1>0, <1>2, <2>1
  <2>3. r \in DOMAIN purchase' /\ purchase'[r].key = q.key /\ purchase'[r].wants = q.wants
    <3>1. Record(r)
      BY <1>6, <2>2
    <3>2. r \in DOMAIN purchase' /\ purchase'[r].key = asked[r].key /\ purchase'[r].wants = asked[r].wants
      <4>1. purchase'[r] = [key |-> asked[r].key, wants |-> asked[r].wants, offer |-> asked[r].offer,
                            documents |-> asked[r].documents, agreed |-> Effective(asked[r].day)]
            /\ DOMAIN purchase' = DOMAIN purchase \cup {r}
        BY <1>0, <3>1, Recorded, Zenon
      <4> QED
        BY <4>1
    <3> QED
      BY <2>1, <2>2, <3>2
  <2> QED
    BY <2>1, <2>2, <2>3
<1>7. ASSUME NEW s \in Requests, NEW d \in RequestsSent, asked' = [asked EXCEPT ![s] = d], d.answer = asked[s].answer
      PROVE  FALSE
  BY <1>0, <1>7
<1>8. ASSUME UNCHANGED asked PROVE FALSE
  BY <1>8
<1>9. ASSUME TermsStep PROVE Fits(asked'[r])
  <2>1. ASSUME NEW s \in Requests, Review(s) \/ ReadLink(s) \/ ReadOffer(s) \/ ReadDocuments(s) \/ Pin(s) \/ Drop(s)
        PROVE  Fits(asked'[r])
    <3>1. UNCHANGED purchase /\ asked[s] \in RequestsSent
      BY <1>0, <2>1 DEF Review, ReadLink, ReadOffer, ReadDocuments, Pin, Drop
    <3>2. s = r
      BY <1>0, <2>1 DEF Review, ReadLink, ReadOffer, ReadDocuments, Pin, Drop, EndWith, Goto
    <3>3. CASE \E a \in {"unavailable", "changed", "failed", Prior(asked[r])} : a # "none" /\ EndWith(s, a)
      BY <1>4, <3>1, <3>3
    <3>4. ASSUME ~(\E a \in {"unavailable", "changed", "failed", Prior(asked[r])} : a # "none" /\ EndWith(s, a))
          PROVE  asked'[r].answer = asked[r].answer
      <4>1. r \notin Reviews
        BY TermsAssumption
      <4> QED
        <5>1. CASE Review(r) \/ ReadLink(r) \/ ReadOffer(r)
          <6>1. \/ asked' = [asked EXCEPT ![r].pc = "link"]
                \/ asked' = [asked EXCEPT ![r].pc = "offer", ![r].link = head, ![r].begun = offered[selects[head]]]
                \/ asked' = [asked EXCEPT ![r].pc = "documents",
                                         ![r].offer = <<selects[asked[r].link], offered[selects[asked[r].link]]>>]
            BY <3>2, <3>4, <5>1 DEF Review, ReadLink, ReadOffer, Goto
          <6>2. CASE asked' = [asked EXCEPT ![r].pc = "link"]
            BY <1>0, <6>2 DEF RequestsSent
          <6>3. CASE asked' = [asked EXCEPT ![r].pc = "offer", ![r].link = head, ![r].begun = offered[selects[head]]]
            BY <1>0, <6>3 DEF RequestsSent
          <6>4. CASE asked' = [asked EXCEPT ![r].pc = "documents",
                                  ![r].offer = <<selects[asked[r].link], offered[selects[asked[r].link]]>>]
            BY <1>0, <6>4 DEF RequestsSent
          <6> QED
            BY <6>1, <6>2, <6>3, <6>4
        <5>2. CASE ReadDocuments(r)
          <6>1. asked' = [asked EXCEPT ![r].pc = "pin", ![r].documents = InForce]
            BY <3>2, <3>4, <4>1, <5>2 DEF ReadDocuments
          <6> QED
            BY <1>0, <6>1 DEF RequestsSent
        <5>3. CASE Pin(r)
          <6>1. asked' = [asked EXCEPT ![r].pc = "record", ![r].day = day]
            BY <3>2, <3>4, <5>3 DEF Pin
          <6> QED
            BY <1>0, <6>1 DEF RequestsSent
        <5>4. CASE Drop(r)
          BY <3>2, <3>4, <5>4 DEF Drop
        <5> QED
          BY <2>1, <3>2, <5>1, <5>2, <5>3, <5>4
    <3> QED
      BY <3>3, <3>4
  <2>2. ASSUME (\E o \in Offers : Publish(o) \/ Change(o)) \/ (\E p \in hold : Release(p)) PROVE FALSE
    BY <1>8, <2>2 DEF Publish, Change, Release
  <2> HIDE DEF Fits
  <2> QED
    <3>1. \/ \E s \in Requests : \/ Confirm(s) \/ Record(s) \/ Review(s)
                                   \/ ReadLink(s) \/ ReadOffer(s) \/ ReadDocuments(s) \/ Pin(s) \/ Drop(s)
          \/ (\E o \in Offers : Publish(o) \/ Change(o)) \/ (\E p \in hold : Release(p))
      BY <1>9 DEF TermsStep, TermsNext
    <3>2. ASSUME NEW s \in Requests, \/ Confirm(s) \/ Record(s) \/ Review(s)
                                      \/ ReadLink(s) \/ ReadOffer(s) \/ ReadDocuments(s) \/ Pin(s) \/ Drop(s)
          PROVE  Fits(asked'[r])
      <4>1. CASE Confirm(s)
        BY <1>5, <4>1
      <4>2. CASE Record(s)
        BY <1>6, <4>2
      <4> QED
        BY <2>1, <3>2, <4>1, <4>2
    <3> QED
      BY <2>2, <3>1, <3>2
<1>10. CASE UNCHANGED terms
  BY <1>8, <1>10 DEF terms
<1>11. Fits(asked'[r])
  BY <1>9, <1>10 DEF AccountsNext, LegalStep, RegistrationStep, VerificationStep, accountVars
<1> QED
  BY <1>11

\* A confirmation repeated, also at the same time, is answered with the purchase
\* of its key if it meant the same.
THEOREM RepeatsFound == AccountsSpec => RepeatsAreAnswered
<1>1. TermsInv /\ [AccountsNext]_accountVars =>
        [\A r \in Confirmations :
          LET q == asked'[r]  same == {p \in DOMAIN purchase' : purchase'[p].key = q.key} IN
          q.answer # asked[r].answer =>
              /\ q.answer = "accepted" => \E p \in same : purchase'[p].wants = q.wants
              /\ q.answer = "occupied" => same = {} /\ hold # {}
              /\ q.answer = "conflict" => \E p \in same : purchase'[p].wants # q.wants]_terms
  BY AnswersFit
<1> QED
  BY <1>1, TermsInvariant, PTL DEF AccountsSpec, RepeatsAreAnswered

\* Both: every confirmation is answered for what it is.
THEOREM Answered == AccountsSpec => PurchasesAreAnswered
  BY AcceptedTogether, RepeatsFound, PTL DEF PurchasesAreAnswered
=============================================================================
