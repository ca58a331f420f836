----------------------------- MODULE SourcesProofs -----------------------------
(***************************************************************************)
(* Proofs about the billing client and the catalog.  A call that asks LBX  *)
(* for a session holds the lock and has emptied the cache; a read that     *)
(* changed its session has been through two; and what is known of a create *)
(* is in the place of its task.  Of the catalog, that a first read set was *)
(* the seller's or is never confirmed.  Of the mappings, that who inserts  *)
(* a revision, or waits for the end of his COMMIT, is alone in the scope.  *)
(***************************************************************************)
EXTENDS Sources, Mappings, FiniteSetTheorems, TLAPS

-----------------------------------------------------------------------------
(* The billing client: the invariant *)

\* What task t of a read may have had sent, in n sessions.
CarriedBy(t, n) ==
    /\ n <= 2
    /\ t.pc = "new" => n = 0
    /\ t.pc # "done" => (t.prev = None => n = 0) /\ (~t.reauth => n <= 1)

ReadsCarry == \A c \in Reads : CarriedBy(call[c], carried[c])

\* Only reads send a GET; a create does nothing but post.
CreatePlaces == {"new", "scheduled", "queued", "wire", "done"}

InPlace == \A c \in Calls :
    /\ call[c].pc = "get" => c \in Reads
    /\ c \in Creates => call[c].pc \in CreatePlaces

LivesAreTrue == \A s \in 1..Len(opened) : opened[s].expires <= opened[s].ends

\* Where a create is, what has left, and what its caller was told.
CreateStands(t, n, answer) ==
    /\ t.pc \in {"new", "scheduled", "queued"} => n = 0
    /\ t.used = 0 => n = 0
    /\ t.pc = "new" => t.used = 0
    /\ t.pc = "queued" => t.used > 0
    /\ t.pc = "wire" => n = 1 /\ t.used > 0
    /\ t.pc = "done" => (t.out = "ok" => n = 1) /\ (t.out = "notSent" => n = 0)
    /\ answer \in {"asked", "draining", "leaving"} =>
          t.pc # "new" /\ (t.pc = "done" => t.out # "none")
    /\ answer \in {"notSent", "ok"} => t.pc \in {"new", "done"}

CreatesStand == \A c \in Creates : CreateStands(call[c], left[c], told[c])

ClientInv ==
    TypeOK /\ OneAuthentication /\ ReadsCarry /\ InPlace /\ LivesAreTrue /\ CreatesStand

-----------------------------------------------------------------------------
(* What the steps of a task leave behind *)

\* Task c of a read or a prepare goes on to t.
Moves(c, t) ==
    /\ t \in Task /\ Goes(c, t)
    /\ t.pc = "auth" => lock' = c /\ session' = None
    /\ t.pc = "get" => c \in Reads
    /\ lock' \in {lock, c, Nobody} /\ (lock \notin {c, Nobody} => lock' = lock)
    /\ carried' \in [Reads -> Nat] /\ \A d \in Reads \ {c} : carried'[d] = carried[d]
    /\ c \in Reads => CarriedBy(t, carried'[c])

\* What it makes of the cached session s.
Keeps(s) == session' = s \/ (~Valid(s) /\ session' = None)

\* Task c is where LBX or the event loop finds it, and about to go on.
Runs(c) ==
    /\ ClientInv
    /\ c \in Calls \ Creates
    /\ call[c] \in Task /\ call[c].pc \notin {"new", "done"}
    /\ c \in Reads => CarriedBy(call[c], carried[c])

LEMMA MeaningsKnown ==
    ASSUME NEW model \in Models PROVE Meanings[model] \subseteq {"ok", "retry", "failed", "denied"}
<1>1. \A r \in Response : Decode(r, model) \in {"ok", "retry", "failed", "denied"}
  <2> SUFFICES ASSUME NEW r \in Response PROVE Decode(r, model) \in {"ok", "retry", "failed", "denied"}
    OBVIOUS
  <2>1. Again(r) \in {"retry", "failed"}
    BY DEF Again
  <2> HIDE DEF Again
  <2> QED
    BY <2>1 DEF Decode
<1> QED
  BY <1>1 DEF Meanings

LEMMA Zeros == 0 \in 0..Limit /\ 0 \in 0..MaxTime /\ 0 \in 0..MaxSessions
  BY BoundsAssumption

LEMMA NewTaskFits == NewTask \in Task
  BY BoundsAssumption DEF NewTask, Task, None

LEMMA EndsMoves ==
    ASSUME NEW c, Runs(c), NEW out \in {"ok", "failed", "unknown", "notSent", "cancelled"},
           Ends(c, call[c], out)
    PROVE  \E t \in Task : Moves(c, t) /\ t.pc = "done"
<1> DEFINE t == [NewTask EXCEPT !.pc = "done", !.out = out, !.used = 0]
<1>1. t \in Task /\ t.pc = "done"
  BY Zeros DEF Task, NewTask, None
<1>2. Goes(c, t) /\ lock' = Unlocked(c) /\ carried' = carried
  BY DEF Ends, Runs
<1>3. carried \in [Reads -> Nat]
  BY DEF Runs, ClientInv, TypeOK
<1>4. c \in Reads => CarriedBy(t, carried'[c])
  BY <1>1, <1>2 DEF CarriedBy, Runs
<1> HIDE DEF t
<1>5. Moves(c, t)
  BY <1>1, <1>2, <1>3, <1>4 DEF Moves, Unlocked
<1> QED
  BY <1>1, <1>5

LEMMA UsesMoves ==
    ASSUME NEW c, Runs(c), NEW s \in 1..MaxSessions, Uses(c, call[c], s)
    PROVE  \E t \in Task : Moves(c, t) /\ t.pc \in {"done", "get"} /\ (t.pc = "get" => t.prev = s)
<1> DEFINE u == call[c]
           t == [u EXCEPT !.pc = "get", !.used = @ + 1, !.prev = s, !.since = 0,
                          !.reauth = @ \/ u.prev \notin {None, s}]
<1>1. CASE \E out \in {"ok", "failed"} : Ends(c, u, out)
  <2>1. PICK out \in {"ok", "failed"} : Ends(c, u, out)
    BY <1>1
  <2> QED
    BY <2>1, EndsMoves
<1>2. CASE /\ c \notin Prepares /\ ~Worn(u, s) /\ Goes(c, t) /\ lock' = Unlocked(c)
           /\ carried' = [carried EXCEPT ![c] = IF s = u.prev THEN @ ELSE @ + 1]
  <2>1. c \in Reads /\ u \in Task /\ u.pc # "done" /\ carried \in [Reads -> Nat] /\ CarriedBy(u, carried[c])
    BY <1>2 DEF Runs, ClientInv, TypeOK, Calls
  <2>2. u.used + 1 \in 0..Limit
    BY <1>2, <2>1, BoundsAssumption DEF Worn, Task
  <2>3. t \in Task /\ t.pc = "get" /\ t.prev = s /\ t.reauth = (u.reauth \/ u.prev \notin {None, s})
    <3>1. /\ s \in 0..MaxSessions /\ (u.reauth \/ u.prev \notin {None, s}) \in BOOLEAN
      BY BoundsAssumption
    <3> QED
      BY <2>1, <2>2, <3>1, Zeros DEF Task
  <2>4. carried' \in [Reads -> Nat] /\ carried'[c] = (IF s = u.prev THEN carried[c] ELSE carried[c] + 1)
    BY <1>2, <2>1
  <2>5. u.reauth => s = u.prev
    BY <1>2 DEF Worn
  <2>6. CarriedBy(t, carried'[c])
    <3>1. carried[c] \in Nat /\ carried[c] <= 2
          /\ (u.prev = None => carried[c] = 0) /\ (~u.reauth => carried[c] <= 1) /\ s # None
      BY <2>1 DEF CarriedBy, None
    <3>2. CASE s = u.prev
      BY <2>3, <2>4, <3>1, <3>2 DEF CarriedBy
    <3>3. CASE s # u.prev
      <4>1. ~u.reauth /\ carried'[c] = carried[c] + 1 /\ carried[c] <= 1
        BY <2>4, <2>5, <3>1, <3>3
      <4>2. ~t.reauth => carried[c] = 0
        BY <2>3, <3>1, <3>3
      <4> HIDE DEF t
      <4>3. carried'[c] <= 2 /\ (~t.reauth => carried'[c] <= 1)
        BY <3>1, <4>1, <4>2
      <4> QED
        BY <2>3, <3>1, <4>3 DEF CarriedBy
    <3> QED
      BY <3>2, <3>3
  <2> HIDE DEF t
  <2>7. Moves(c, t)
    BY <1>2, <2>1, <2>3, <2>4, <2>6 DEF Moves, Unlocked
  <2> QED
    BY <2>3, <2>7
<1> QED
  BY <1>1, <1>2 DEF Uses

LEMMA RefreshesMoves ==
    ASSUME NEW c, Runs(c), NEW s, Refreshes(c, call[c], s), lock \in {c, Nobody}, ~Valid(s)
    PROVE  \E t \in Task : Moves(c, t) /\ t.pc \in {"done", "auth"} /\ Keeps(s)
<1> DEFINE u == call[c]
           t == [u EXCEPT !.pc = "auth", !.used = @ + 1, !.since = now]
<1>0. Keeps(s)
  BY DEF Refreshes, Keeps
<1>1. CASE Ends(c, u, "failed")
  BY <1>0, <1>1, EndsMoves
<1>2. CASE /\ u.used < Limit /\ session' = None
           /\ Goes(c, t) /\ lock' = c /\ UNCHANGED carried
  <2>1. u \in Task /\ u.pc # "done" /\ carried \in [Reads -> Nat] /\ now \in 0..MaxTime
    BY DEF Runs, ClientInv, TypeOK
  <2>2. u.used + 1 \in 0..Limit
    BY <1>2, <2>1, BoundsAssumption DEF Task
  <2>3. t \in Task /\ t.pc = "auth" /\ t.prev = u.prev /\ t.reauth = u.reauth
    BY <2>1, <2>2 DEF Task
  <2>4. c \in Reads => CarriedBy(t, carried'[c])
    BY <1>2, <2>1, <2>3 DEF Runs, CarriedBy
  <2> HIDE DEF t
  <2>5. Moves(c, t)
    BY <1>2, <2>1, <2>3, <2>4 DEF Moves
  <2> QED
    BY <1>0, <2>3, <2>5
<1>3. u.used \in Int /\ Limit \in Int
  BY BoundsAssumption DEF Runs, Task
<1> QED
  BY <1>1, <1>2, <1>3 DEF Refreshes

LEMMA LoopsMoves ==
    ASSUME NEW c, Runs(c), NEW s \in 0..MaxSessions, Loops(c, call[c], s)
    PROVE  \E t \in Task : /\ Moves(c, t) /\ Keeps(s)
                           /\ t.pc \in {"done", "get", "auth", "lock"}
                           /\ t.pc = "get" => Valid(s) /\ t.prev = s
                           /\ lock \notin {c, Nobody} => session' = s
<1> DEFINE u == call[c]
           t == [u EXCEPT !.pc = "lock"]
<1>1. CASE ~Check(c)
  BY <1>1, EndsMoves DEF Loops, Keeps
<1>2. CASE Check(c) /\ Valid(s)
  <2>1. s \in 1..MaxSessions
    BY <1>2 DEF Valid, None
  <2>2. Uses(c, u, s) /\ session' = s
    BY <1>2 DEF Loops
  <2> QED
    BY <1>2, <2>1, <2>2, UsesMoves DEF Keeps
<1>3. CASE Check(c) /\ ~Valid(s) /\ LockFree(c)
  <2>1. Refreshes(c, u, s) /\ lock \in {c, Nobody}
    BY <1>3 DEF Loops, LockFree
  <2> QED
    BY <1>3, <2>1, RefreshesMoves
<1>4. CASE Goes(c, t) /\ session' = s /\ UNCHANGED <<lock, carried>>
  <2>1. u \in Task /\ u.pc # "done" /\ carried \in [Reads -> Nat]
    BY DEF Runs, ClientInv, TypeOK
  <2>2. t \in Task /\ t.pc = "lock" /\ t.prev = u.prev /\ t.reauth = u.reauth
    BY <2>1 DEF Task
  <2>3. c \in Reads => CarriedBy(t, carried'[c])
    BY <1>4, <2>1, <2>2 DEF Runs, CarriedBy
  <2> HIDE DEF t
  <2>4. Moves(c, t)
    BY <1>4, <2>1, <2>2, <2>3 DEF Moves
  <2> QED
    BY <1>4, <2>2, <2>4 DEF Keeps
<1> QED
  BY <1>1, <1>2, <1>3, <1>4 DEF Loops

LEMMA BacksOffMoves ==
    ASSUME NEW c, Runs(c), BacksOff(c, call[c])
    PROVE  \E t \in Task : Moves(c, t) /\ t.pc \in {"done", "wait"}
<1> DEFINE u == call[c]
           t == [u EXCEPT !.pc = "wait", !.since = 0]
<1>1. CASE Ends(c, u, "failed")
  BY <1>1, EndsMoves
<1>2. CASE Goes(c, t) /\ lock' = Unlocked(c) /\ UNCHANGED carried
  <2>1. u \in Task /\ u.pc # "done" /\ carried \in [Reads -> Nat]
    BY DEF Runs, ClientInv, TypeOK
  <2>2. t \in Task /\ t.pc = "wait" /\ t.prev = u.prev /\ t.reauth = u.reauth
    BY <2>1, Zeros DEF Task
  <2>3. c \in Reads => CarriedBy(t, carried'[c])
    BY <1>2, <2>1, <2>2 DEF Runs, CarriedBy
  <2> HIDE DEF t
  <2>4. Moves(c, t)
    BY <1>2, <2>1, <2>2, <2>3 DEF Moves, Unlocked
  <2> QED
    BY <2>2, <2>4
<1> QED
  BY <1>1, <1>2 DEF BacksOff

-----------------------------------------------------------------------------
(* The invariant is kept, one lemma per kind of step *)

Billed == <<now, told, expired, shutdown, left>>

LEMMA TaskStep ==
    ASSUME ClientInv, NEW c \in Calls \ Creates, NEW t \in Task, Moves(c, t), t.pc # "new", UNCHANGED Billed,
           opened' \in Seq([expires : Nat, ends : Nat]), Len(opened') <= MaxSessions, LivesAreTrue',
           session' \in 0..Len(opened'), lock \notin {c, Nobody} /\ session = None => session' = None
    PROVE  ClientInv'
<1>0. /\ c \in Calls \ Creates /\ call \in [Calls -> Task] /\ call' = [call EXCEPT ![c] = t]
      /\ c # Nobody
  BY CallsAssumption DEF ClientInv, TypeOK, Moves, Goes
<1>1. call'[c] = t /\ \A d \in Calls \ {c} : call'[d] = call[d]
  BY <1>0
<1>2. lock' \in Calls \cup {Nobody}
  BY <1>0 DEF ClientInv, TypeOK, Moves
<1>3. TypeOK'
  BY <1>0, <1>2 DEF ClientInv, TypeOK, Moves, Billed
<1>4. OneAuthentication'
  <2> SUFFICES ASSUME NEW d \in Calls, call'[d].pc = "auth" PROVE lock' = d /\ session' = None
    BY DEF OneAuthentication
  <2>1. CASE d = c
    BY <1>1, <2>1 DEF Moves
  <2>2. CASE d # c
    <3>1. lock = d /\ session = None
      BY <1>1, <2>2 DEF ClientInv, OneAuthentication
    <3>2. lock \notin {c, Nobody}
      BY <2>2, <3>1, CallsAssumption
    <3> QED
      BY <3>1, <3>2 DEF Moves
  <2> QED
    BY <2>1, <2>2
<1>5. ReadsCarry'
  <2> SUFFICES ASSUME NEW d \in Reads PROVE CarriedBy(call'[d], carried'[d])
    BY DEF ReadsCarry
  <2>1. CASE d = c
    BY <1>1, <2>1 DEF Moves
  <2>2. CASE d # c
    BY <1>1, <2>2 DEF Moves, ClientInv, ReadsCarry, Calls
  <2> QED
    BY <2>1, <2>2
<1>6. InPlace'
  BY <1>0, <1>1 DEF InPlace, ClientInv, Moves
<1>7. CreatesStand'
  BY <1>0, <1>1 DEF CreatesStand, ClientInv, Calls, Billed
<1> QED
  BY <1>3, <1>4, <1>5, <1>6, <1>7 DEF ClientInv

\* A step of a create or of its caller.
LEMMA CreateStep ==
    ASSUME ClientInv, NEW c \in Creates, NEW t \in Task, Goes(c, t), t.pc \in CreatePlaces,
           UNCHANGED <<now, opened, session, expired, shutdown, carried>>,
           lock' \in {lock, Nobody}, lock # c => lock' = lock,
           left' \in [Creates -> 0..1],
           told' \in [Creates -> Answers \cup {"none", "asked", "draining", "leaving"}],
           \A d \in Creates \ {c} : left'[d] = left[d] /\ told'[d] = told[d],
           CreateStands(t, left'[c], told'[c])
    PROVE  ClientInv'
<1>0. /\ c \in Calls /\ c \notin Reads /\ call \in [Calls -> Task] /\ call' = [call EXCEPT ![c] = t]
  BY CallsAssumption DEF ClientInv, TypeOK, Goes, Calls
<1>1. call'[c] = t /\ \A d \in Calls \ {c} : call'[d] = call[d]
  BY <1>0
<1>2. TypeOK'
  BY <1>0 DEF ClientInv, TypeOK
<1>3. OneAuthentication'
  BY <1>0, <1>1 DEF ClientInv, OneAuthentication, CreatePlaces
<1>4. ReadsCarry'
  BY <1>0, <1>1 DEF ClientInv, ReadsCarry, Calls
<1>5. InPlace'
  BY <1>0, <1>1 DEF ClientInv, InPlace, CreatePlaces
<1>6. CreatesStand'
  BY <1>0, <1>1 DEF ClientInv, CreatesStand, Calls
<1>7. LivesAreTrue'
  BY DEF ClientInv, LivesAreTrue
<1> QED
  BY <1>2, <1>3, <1>4, <1>5, <1>6, <1>7 DEF ClientInv

\* Some calls are cancelled; budgets expire, time passes, the client closes.
LEMMA OtherStep ==
    ASSUME ClientInv, NEW S, CancelTasks(S) \/ call' = call,
           UNCHANGED <<opened, lock, told, left, carried>>, session' \in {session, None},
           now' \in 0..MaxTime, expired' \in SUBSET Calls,
           shutdown' \in {"no", "billing", "billingPending", "offers", "offersPending", "closed"}
    PROVE  ClientInv'
<1>1. call' \in [Calls -> Task]
  <2>0. call \in [Calls -> Task]
    BY DEF ClientInv, TypeOK
  <2>1. \A c \in Calls : [call[c] EXCEPT !.cancelled = TRUE] \in Task
    BY <2>0 DEF Task
  <2> QED
    BY <2>1, Zenon DEF ClientInv, TypeOK, CancelTasks
<1>2. \A c \in Calls :
         /\ call'[c].pc = call[c].pc /\ call'[c].used = call[c].used /\ call'[c].prev = call[c].prev
         /\ call'[c].reauth = call[c].reauth /\ call'[c].out = call[c].out
  <2> SUFFICES ASSUME NEW c \in Calls
               PROVE  /\ call'[c].pc = call[c].pc /\ call'[c].used = call[c].used
                      /\ call'[c].prev = call[c].prev
                      /\ call'[c].reauth = call[c].reauth /\ call'[c].out = call[c].out
    OBVIOUS
  <2>1. call[c] \in Task
    BY DEF ClientInv, TypeOK
  <2>2. call'[c] \in {call[c], [call[c] EXCEPT !.cancelled = TRUE]}
    BY Zenon DEF CancelTasks
  <2> QED
    BY <2>1, <2>2 DEF Task
<1>3. session' \in 0..Len(opened)
  BY DEF ClientInv, TypeOK, None
<1>4. TypeOK'
  BY <1>1, <1>3 DEF ClientInv, TypeOK
<1>5. OneAuthentication'
  BY <1>2 DEF ClientInv, OneAuthentication
<1>6. ReadsCarry'
  BY <1>2 DEF ClientInv, ReadsCarry, CarriedBy, Calls
<1>7. InPlace'
  BY <1>2 DEF ClientInv, InPlace
<1>8. CreatesStand'
  <2> SUFFICES ASSUME NEW c \in Creates PROVE CreateStands(call'[c], left'[c], told'[c])
    BY DEF CreatesStand
  <2>1. CreateStands(call[c], left[c], told[c]) /\ c \in Calls
    BY DEF ClientInv, CreatesStand, Calls
  <2> QED
    BY <1>2, <2>1 DEF CreateStands
<1>9. LivesAreTrue'
  BY DEF ClientInv, LivesAreTrue
<1> QED
  BY <1>4, <1>5, <1>6, <1>7, <1>8, <1>9 DEF ClientInv

-----------------------------------------------------------------------------
(* The steps of reads and prepares *)

\* Task c goes on to t: a session that lives is lost only to a 401 about it,
\* and a request is sent only with one that lives.
LeadsOn(c, t) ==
    /\ Moves(c, t) /\ t.pc # "new" /\ UNCHANGED Billed
    /\ opened' \in Seq([expires : Nat, ends : Nat]) /\ Len(opened') <= MaxSessions /\ LivesAreTrue'
    /\ session' \in 0..Len(opened')
    /\ lock \notin {c, Nobody} /\ session = None => session' = None
    /\ session # None /\ session' # session =>
          ~Valid(session) \/ (call[c].pc = "get" /\ call[c].prev = session /\ t.pc # "get")
    /\ t.pc = "get" => now < opened'[t.prev].ends

LEMMA Element == ASSUME NEW S, NEW q \in Seq(S), NEW n \in 1..Len(q) PROVE q[n] \in S
  OBVIOUS

LEMMA Elsewhere_Billed == ASSUME Elsewhere PROVE UNCHANGED Billed
  BY DEF Elsewhere, Billed

LEMMA StaysLeadsOn ==
    ASSUME NEW c, Runs(c), NEW t \in Task, Moves(c, t), t.pc \notin {"new", "get"},
           UNCHANGED <<opened, session>>, Elsewhere
    PROVE  \E u \in Task : LeadsOn(c, u)
<1>1. LeadsOn(c, t)
  BY Elsewhere_Billed DEF LeadsOn, Runs, ClientInv, TypeOK, LivesAreTrue
<1> QED
  BY <1>1

LEMMA LoopsLeadsOn ==
    ASSUME NEW c, Runs(c), NEW s \in {session, None}, Loops(c, call[c], s), UNCHANGED opened, Elsewhere,
           s # session => call[c].pc = "get" /\ call[c].prev = session
    PROVE  \E t \in Task : LeadsOn(c, t)
<1>1. session \in 0..Len(opened) /\ Len(opened) \in Nat /\ Len(opened) <= MaxSessions /\ s \in 0..Len(opened)
  BY DEF Runs, ClientInv, TypeOK, None
<1>2. s \in 0..MaxSessions
  BY <1>1, BoundsAssumption
<1>3. PICK t \in Task : /\ Moves(c, t) /\ Keeps(s)
                        /\ t.pc \in {"done", "get", "auth", "lock"}
                        /\ t.pc = "get" => Valid(s) /\ t.prev = s
  BY <1>2, LoopsMoves
<1>4. session' \in 0..Len(opened) /\ (session = None => session' = None)
  BY <1>1, <1>3 DEF Keeps, None
<1>5. session # None /\ session' # session =>
        ~Valid(session) \/ (call[c].pc = "get" /\ call[c].prev = session /\ t.pc # "get")
  BY <1>3 DEF Keeps, Valid
<1>6. t.pc = "get" => now < opened'[t.prev].ends
  <2> SUFFICES ASSUME t.pc = "get" PROVE now < opened[s].ends
    BY <1>3
  <2>1. s \in 1..Len(opened) /\ now < opened[s].expires
    BY <1>1, <1>3 DEF Valid, None
  <2>2. opened[s].expires <= opened[s].ends /\ opened[s].expires \in Nat /\ opened[s].ends \in Nat
    <3>1. LivesAreTrue /\ opened \in Seq([expires : Nat, ends : Nat])
      BY DEF Runs, ClientInv, TypeOK
    <3>2. opened[s] \in [expires : Nat, ends : Nat]
      BY <2>1, <3>1, Element
    <3> QED
      BY <2>1, <3>1, <3>2 DEF LivesAreTrue
  <2>3. now \in Nat
    BY BoundsAssumption DEF Runs, ClientInv, TypeOK
  <2> QED
    BY <2>1, <2>2, <2>3
<1>7. LeadsOn(c, t)
  BY <1>1, <1>3, <1>4, <1>5, <1>6, Elsewhere_Billed DEF LeadsOn, Runs, ClientInv, TypeOK, LivesAreTrue
<1> QED
  BY <1>7

LEMMA EndsLeadsOn ==
    ASSUME NEW c, Runs(c), NEW out \in {"ok", "failed", "unknown", "notSent", "cancelled"},
           Ends(c, call[c], out), UNCHANGED <<opened, session>>, Elsewhere
    PROVE  \E t \in Task : LeadsOn(c, t)
  BY EndsMoves, StaysLeadsOn

LEMMA BacksOffLeadsOn ==
    ASSUME NEW c, Runs(c), BacksOff(c, call[c]), UNCHANGED <<opened, session>>, Elsewhere
    PROVE  \E t \in Task : LeadsOn(c, t)
  BY BacksOffMoves, StaysLeadsOn

\* What waits at an await is a read or a prepare.
LEMMA RunsAt ==
    ASSUME ClientInv, NEW c \in Calls, call[c].pc \notin {"new", "done"},
           c \notin Creates \/ call[c].pc \notin CreatePlaces
    PROVE  Runs(c)
  BY DEF ClientInv, TypeOK, InPlace, ReadsCarry, Runs

LEMMA BeginStep ==
    ASSUME ClientInv, NEW c \in Calls, Begin(c) \/ WaitEnds(c) PROVE \E t \in Task : LeadsOn(c, t)
<1>1. Runs(c)
  BY RunsAt DEF Begin, WaitEnds, CreatePlaces
<1> QED
  BY <1>1, LoopsLeadsOn DEF Begin, WaitEnds

LEMMA LockStep ==
    ASSUME ClientInv, NEW c \in Calls, LockGranted(c) PROVE \E t \in Task : LeadsOn(c, t)
<1>1. Runs(c) /\ session \in 0..Len(opened) /\ Len(opened) \in Nat /\ Len(opened) <= MaxSessions
  BY RunsAt DEF LockGranted, CreatePlaces, ClientInv, TypeOK
<1>2. UNCHANGED opened /\ Elsewhere /\ lock = Nobody /\ call[c].pc = "lock"
  BY DEF LockGranted
<1>3. CASE Ends(c, call[c], "failed") /\ UNCHANGED session
  BY <1>1, <1>2, <1>3, EndsLeadsOn
<1>4. CASE Valid(session) /\ Check(c) /\ Uses(c, call[c], session) /\ UNCHANGED session
  <2>1. Loops(c, call[c], session)
    BY <1>4 DEF Loops
  <2> QED
    BY <1>1, <1>2, <2>1, LoopsLeadsOn
<1>5. CASE ~Valid(session) /\ Refreshes(c, call[c], session)
  <2>1. PICK t \in Task : Moves(c, t) /\ t.pc \in {"done", "auth"} /\ Keeps(session)
    BY <1>1, <1>2, <1>5, RefreshesMoves
  <2>2. LeadsOn(c, t)
    BY <1>1, <1>2, <1>5, <2>1, Elsewhere_Billed DEF LeadsOn, Keeps, None, ClientInv, TypeOK, LivesAreTrue
  <2> QED
    BY <2>2
<1> QED
  BY <1>3, <1>4, <1>5 DEF LockGranted, Recheck

LEMMA AuthStep ==
    ASSUME ClientInv, NEW c \in Calls, AuthOpens(c) PROVE \E t \in Task : LeadsOn(c, t)
<1> DEFINE n == Len(opened) + 1
<1>1. /\ Runs(c) /\ call[c].pc = "auth" /\ lock = c /\ session = None /\ Elsewhere
      /\ c # Nobody /\ n \in Nat /\ n <= MaxSessions /\ n \in 1..MaxSessions /\ now \in Nat
      /\ call[c].since \in Nat /\ opened \in Seq([expires : Nat, ends : Nat])
  BY RunsAt, CallsAssumption, BoundsAssumption
     DEF AuthOpens, CreatePlaces, ClientInv, TypeOK, OneAuthentication, Task
<1>2. PICK life \in Lifetimes :
        /\ opened' = Append(opened, [expires |-> Expiry(call[c], life), ends |-> call[c].since + life])
        /\ \/ Ends(c, call[c], "failed") /\ UNCHANGED session
           \/ ~(now >= Expiry(call[c], life)) /\ session' = n /\ Uses(c, call[c], n)
  BY DEF AuthOpens
<1> DEFINE row == [expires |-> Expiry(call[c], life), ends |-> call[c].since + life]
<1>3. row \in [expires : Nat, ends : Nat] /\ row.expires = row.ends /\ row.expires = Expiry(call[c], life)
  BY <1>1, BoundsAssumption DEF Expiry
<1> HIDE DEF row
<1>4. /\ opened' = Append(opened, row)
      /\ opened' \in Seq([expires : Nat, ends : Nat]) /\ Len(opened') = n /\ opened'[n] = row
      /\ \A s \in 1..Len(opened) : opened'[s] = opened[s]
  BY <1>1, <1>2, <1>3 DEF row
<1>5. LivesAreTrue'
  <2> SUFFICES ASSUME NEW s \in 1..Len(opened') PROVE opened'[s].expires <= opened'[s].ends
    BY DEF LivesAreTrue
  <2>1. CASE s = n
    <3>1. row.expires \in Nat /\ row.expires <= row.ends
      BY <1>3
    <3> QED
      BY <1>4, <2>1, <3>1
  <2>2. CASE s # n
    <3>1. s \in 1..Len(opened)
      BY <1>1, <1>4, <2>2
    <3> QED
      BY <1>4, <3>1 DEF ClientInv, LivesAreTrue
  <2> QED
    BY <2>1, <2>2
<1>6. CASE Ends(c, call[c], "failed") /\ UNCHANGED session
  <2>1. PICK t \in Task : Moves(c, t) /\ t.pc = "done"
    BY <1>1, <1>6, EndsMoves
  <2>2. LeadsOn(c, t)
    BY <1>1, <1>4, <1>5, <1>6, <2>1, Elsewhere_Billed DEF LeadsOn, None
  <2> QED
    BY <2>2
<1>7. CASE ~(now >= Expiry(call[c], life)) /\ session' = n /\ Uses(c, call[c], n)
  <2>1. PICK t \in Task : Moves(c, t) /\ t.pc \in {"done", "get"} /\ (t.pc = "get" => t.prev = n)
    BY <1>1, <1>7, UsesMoves
  <2>2. now < row.ends
    BY <1>1, <1>3, <1>7
  <2>3. LeadsOn(c, t)
    BY <1>1, <1>4, <1>5, <1>7, <2>1, <2>2, Elsewhere_Billed DEF LeadsOn, None
  <2> QED
    BY <2>3
<1> QED
  BY <1>2, <1>6, <1>7

LEMMA AnswerStep ==
    ASSUME ClientInv, NEW c \in Calls, AuthFails(c) \/ ReadAnswered(c) PROVE \E t \in Task : LeadsOn(c, t)
<1>1. Runs(c) /\ UNCHANGED <<opened, session>> /\ Elsewhere
  BY RunsAt DEF AuthFails, ReadAnswered, CreatePlaces
<1>2. Meanings["read"] \subseteq {"ok", "retry", "failed", "denied"}
  BY MeaningsKnown DEF Models
<1>3. BacksOff(c, call[c]) \/ \E out \in {"ok", "failed"} : Ends(c, call[c], out)
  BY <1>2 DEF AuthFails, ReadAnswered
<1> QED
  BY <1>1, <1>3, EndsLeadsOn, BacksOffLeadsOn

LEMMA DeniedStep ==
    ASSUME ClientInv, NEW c \in Calls, ReadDenied(c) PROVE \E t \in Task : LeadsOn(c, t)
<1> DEFINE s == Dropped(call[c].prev)
<1>1. Runs(c) /\ UNCHANGED opened /\ Elsewhere /\ call[c].pc = "get"
  BY RunsAt DEF ReadDenied, CreatePlaces
<1>2. s \in {session, None} /\ (s # session => call[c].prev = session)
  BY DEF Dropped
<1>3. CASE Loops(c, call[c], s)
  BY <1>1, <1>2, <1>3, LoopsLeadsOn
<1>4. CASE Ends(c, call[c], "failed") /\ session' = s
  <2>1. PICK t \in Task : Moves(c, t) /\ t.pc = "done"
    BY <1>1, <1>4, EndsMoves
  <2>2. LeadsOn(c, t)
    BY <1>1, <1>2, <1>4, <2>1, Elsewhere_Billed DEF LeadsOn, None, ClientInv, TypeOK, LivesAreTrue
  <2> QED
    BY <2>2
<1> QED
  BY <1>3, <1>4 DEF ReadDenied

LEMMA StopStep ==
    ASSUME ClientInv, NEW c \in Calls \ Creates, TaskStops(c) PROVE \E t \in Task : LeadsOn(c, t)
<1>1. Runs(c) /\ Ends(c, call[c], "cancelled") /\ UNCHANGED <<opened, session>> /\ Elsewhere
  BY RunsAt DEF TaskStops, Live
<1> QED
  BY <1>1, EndsLeadsOn

-----------------------------------------------------------------------------
(* The steps of creates and of their callers *)

PostUnchanged == UNCHANGED <<now, opened, session, expired, shutdown, carried>>

\* What the abstract specification of a create sees of a step: nothing, or that
\* the request leaves, or that the caller is told.
ToldTo(c) == IF told[c] \in Answers THEN told[c] ELSE "none"

Sees(c) ==
    \/ left'[c] = left[c] /\ ToldTo(c)' = ToldTo(c)
    \/ left[c] = 0 /\ left'[c] = 1 /\ ToldTo(c) \notin {"notSent", "ok"} /\ ToldTo(c)' = ToldTo(c)
    \/ /\ left'[c] = left[c] /\ ToldTo(c) = "none" /\ ToldTo(c)' \in Answers
       /\ ToldTo(c)' = "notSent" => left[c] = 0
       /\ ToldTo(c)' = "ok" => left[c] = 1

\* Create c goes on to t.
Posts(c, t) ==
    /\ Goes(c, t) /\ t.pc \in CreatePlaces /\ PostUnchanged
    /\ lock' \in {lock, Nobody} /\ (lock # c => lock' = lock)
    /\ left' \in [Creates -> 0..1]
    /\ told' \in [Creates -> Answers \cup {"none", "asked", "draining", "leaving"}]
    /\ \A d \in Creates \ {c} : left'[d] = left[d] /\ told'[d] = told[d]
    /\ CreateStands(t, left'[c], told'[c])
    /\ Sees(c)

LEMMA CreateFacts ==
    ASSUME ClientInv, NEW c \in Creates
    PROVE  /\ c \in Calls /\ call \in [Calls -> Task] /\ call[c] \in Task /\ call[c].pc \in CreatePlaces
           /\ left \in [Creates -> 0..1] /\ left[c] \in 0..1
           /\ told \in [Creates -> Answers \cup {"none", "asked", "draining", "leaving"}]
           /\ told[c] \in Answers \cup {"none", "asked", "draining", "leaving"}
           /\ CreateStands(call[c], left[c], told[c])
  BY DEF ClientInv, TypeOK, InPlace, CreatesStand, Calls

\* The task of a create ends.
LEMMA EndsPosts ==
    ASSUME ClientInv, NEW c \in Creates, Live(c), NEW out \in Answers, Ends(c, call[c], out),
           UNCHANGED <<opened, session>>, Elsewhere,
           out = "ok" => left[c] = 1, out = "notSent" => left[c] = 0
    PROVE  \E t \in Task : Posts(c, t)
<1> DEFINE t == [NewTask EXCEPT !.pc = "done", !.out = out, !.used = call[c].used]
<1>1. /\ t \in Task /\ t.pc = "done" /\ t.out = out /\ t.used = call[c].used
  BY CreateFacts, Zeros DEF Task, NewTask, None, Answers
<1>2. Goes(c, t) /\ PostUnchanged /\ UNCHANGED <<left, told>> /\ lock' = Unlocked(c)
  BY DEF Ends, Elsewhere, PostUnchanged
<1>3. CreateStands(t, left[c], told[c])
  BY <1>1, CreateFacts DEF CreateStands, Live, Answers
<1> HIDE DEF t
<1>4. Sees(c)
  BY <1>2 DEF Sees, ToldTo
<1>5. Posts(c, t)
  BY <1>1, <1>2, <1>3, <1>4, CreateFacts DEF Posts, Unlocked, CreatePlaces
<1> QED
  BY <1>1, <1>5

LEMMA PostStep ==
    ASSUME ClientInv, NEW c \in Creates,
           PostBegins(c) \/ PostLeaves(c) \/ PostFails(c) \/ PostAnswered(c) \/ TaskStops(c)
    PROVE  \E t \in Task : Posts(c, t)
<1>0. /\ call[c] \in Task /\ call[c].pc \in CreatePlaces /\ left[c] \in 0..1
      /\ CreateStands(call[c], left[c], told[c])
  BY CreateFacts
<1>1. CASE PostBegins(c)
  <2>1. CASE Ends(c, call[c], "notSent")
    BY <1>0, <1>1, <2>1, EndsPosts DEF PostBegins, Live, CreateStands, Answers
  <2>2. CASE Goes(c, [call[c] EXCEPT !.pc = "queued", !.used = 1, !.prev = session]) /\ UNCHANGED <<lock, carried>>
    <3> DEFINE t == [call[c] EXCEPT !.pc = "queued", !.used = 1, !.prev = session]
    <3>1. session \in 0..MaxSessions /\ 1 \in 0..Limit
      BY BoundsAssumption DEF ClientInv, TypeOK
    <3>2. t \in Task /\ t.pc = "queued" /\ t.used = 1
      BY <1>0, <3>1 DEF Task
    <3>3. CreateStands(t, left[c], told[c])
      BY <1>0, <1>1, <3>2 DEF CreateStands, PostBegins
    <3> HIDE DEF t
    <3>4. Goes(c, t) /\ PostUnchanged /\ UNCHANGED <<left, told, lock>>
      BY <1>1, <2>2 DEF PostBegins, Elsewhere, PostUnchanged, t
    <3>5. Sees(c)
      BY <3>4 DEF Sees, ToldTo
    <3>6. Posts(c, t)
      BY <3>2, <3>3, <3>4, <3>5, CreateFacts DEF Posts, CreatePlaces
    <3> QED
      BY <3>2, <3>6
  <2> QED
    BY <1>1, <2>1, <2>2 DEF PostBegins
<1>2. CASE PostLeaves(c)
  <2> DEFINE t == [call[c] EXCEPT !.pc = "wire"]
  <2>1. t \in Task /\ t.pc = "wire" /\ t.used = call[c].used
    BY <1>0 DEF Task
  <2>2. left[c] = 0 /\ call[c].used > 0 /\ told[c] \notin {"notSent", "ok"}
    BY <1>0, <1>2 DEF PostLeaves, CreateStands
  <2>3. left' \in [Creates -> 0..1] /\ left'[c] = 1 /\ \A d \in Creates \ {c} : left'[d] = left[d]
    BY <1>2, <2>2, CreateFacts DEF PostLeaves
  <2>4. PostUnchanged /\ Goes(c, t) /\ UNCHANGED <<told, lock>>
    BY <1>2 DEF PostLeaves, PostUnchanged
  <2>5. CreateStands(t, left'[c], told'[c])
    BY <1>0, <1>2, <2>1, <2>2, <2>3, <2>4 DEF CreateStands, PostLeaves
  <2>6. Sees(c)
    BY <2>2, <2>3, <2>4 DEF Sees, ToldTo
  <2> HIDE DEF t
  <2>7. Posts(c, t)
    BY <2>1, <2>3, <2>4, <2>5, <2>6, CreateFacts DEF Posts, CreatePlaces
  <2> QED
    BY <2>1, <2>7
<1>3. CASE PostFails(c)
  <2>1. PICK out \in TransportFailure(call[c].pc) : Ends(c, call[c], out)
    BY <1>3 DEF PostFails
  <2>2. out \in {"notSent", "unknown"} /\ (out = "notSent" => left[c] = 0)
    BY <1>0, <1>3, <2>1 DEF PostFails, TransportFailure, CreateStands
  <2> QED
    BY <1>3, <2>1, <2>2, EndsPosts DEF PostFails, Live, Answers
<1>4. CASE PostAnswered(c)
  <2>1. PICK out \in {"ok", "unknown"} : Ends(c, call[c], out)
    BY <1>4 DEF PostAnswered
  <2>2. left[c] = 1
    BY <1>0, <1>4 DEF PostAnswered, CreateStands
  <2> QED
    BY <1>4, <2>1, <2>2, EndsPosts DEF PostAnswered, Live, Answers
<1>5. CASE TaskStops(c)
  BY <1>5, EndsPosts DEF TaskStops, Answers
<1> QED
  BY <1>1, <1>2, <1>3, <1>4, <1>5

\* The caller is told something, and the task stays.
LEMMA TellPosts ==
    ASSUME ClientInv, NEW c \in Creates, NEW t \in Task, Goes(c, t), t.pc \in CreatePlaces,
           NEW a \in Answers \cup {"none", "asked", "draining", "leaving"}, Tells(c, a),
           UNCHANGED <<session, lock>>, Untouched, CreateStands(t, left[c], a),
           told[c] \notin Answers,
           a = "notSent" => left[c] = 0, a = "ok" => left[c] = 1
    PROVE  Posts(c, t)
<1>1. /\ told' \in [Creates -> Answers \cup {"none", "asked", "draining", "leaving"}] /\ told'[c] = a
      /\ \A d \in Creates \ {c} : told'[d] = told[d]
  BY CreateFacts DEF Tells
<1>2. PostUnchanged /\ UNCHANGED <<left, lock>>
  BY DEF Untouched, PostUnchanged
<1>3. Sees(c)
  BY <1>1, <1>2 DEF Sees, ToldTo, Answers
<1> QED
  BY <1>1, <1>2, <1>3, CreateFacts DEF Posts

LEMMA CallerStep ==
    ASSUME ClientInv, NEW c \in Creates, CallerNext(c) PROVE \E t \in Task : Posts(c, t)
<1>0. /\ c \in Calls /\ call \in [Calls -> Task] /\ call[c] \in Task /\ call[c].pc \in CreatePlaces /\ left[c] \in 0..1
      /\ CreateStands(call[c], left[c], told[c]) /\ UNCHANGED <<session, lock>> /\ Untouched
  BY CreateFacts DEF CallerNext, Ask, Refused, Answered, Interrupted, Drained
<1>1. Refusal(c) \in {"notSent", "unknown"} /\ (Refusal(c) = "notSent" => left[c] = 0 /\ call[c].pc \in {"new", "done"})
  BY <1>0 DEF Refusal, ProvedUnsent, Dispatched, CreateStands, Task
<1>2. CASE Ask(c)
  <2> DEFINE t == [NewTask EXCEPT !.pc = "scheduled"]
  <2>1. t \in Task /\ t.pc = "scheduled"
    BY NewTaskFits DEF Task
  <2>2. Goes(c, t) /\ Tells(c, "asked") /\ told[c] = "none" /\ call[c].pc = "new"
    BY <1>2 DEF Ask
  <2>3. CreateStands(t, left[c], "asked")
    BY <1>0, <2>1, <2>2 DEF CreateStands
  <2> HIDE DEF t
  <2>4. Posts(c, t)
    BY <1>0, <2>1, <2>2, <2>3, TellPosts DEF CreatePlaces, Answers
  <2> QED
    BY <2>1, <2>4
<1>3. CASE Interrupted(c)
  <2> DEFINE t == [call[c] EXCEPT !.cancelled = TRUE]
  <2>1. /\ t \in Task /\ t.pc = call[c].pc /\ t.used = call[c].used /\ t.out = call[c].out
    BY <1>0 DEF Task
  <2>2. PICK a \in {"leaving", "draining"} : Tells(c, a)
    BY <1>3 DEF Interrupted
  <2>3. Goes(c, t) /\ told[c] = "asked" /\ call[c].pc \notin {"new", "done"}
    BY <1>3 DEF Interrupted, Live
  <2>4. CreateStands(t, left[c], a)
    BY <1>0, <2>1, <2>3 DEF CreateStands
  <2> HIDE DEF t
  <2>5. Posts(c, t)
    BY <1>0, <2>1, <2>2, <2>3, <2>4, TellPosts DEF Answers
  <2> QED
    BY <2>1, <2>5
<1>4. CASE UNCHANGED call
  <2>1. Goes(c, call[c])
    BY <1>0, <1>4 DEF Goes
  <2>2. PICK a \in Answers : /\ Tells(c, a) /\ told[c] \notin Answers
                             /\ a \in {"notSent", "ok"} => call[c].pc \in {"new", "done"}
                             /\ a = "notSent" => left[c] = 0
                             /\ a = "ok" => left[c] = 1
    <3>1. CASE Refused(c)
      BY <1>1, <3>1 DEF Refused, Answers
    <3>2. CASE Drained(c)
      BY <1>1, <3>2 DEF Drained, Answers
    <3>3. CASE Answered(c)
      <4>1. call[c].out \in Answers
        BY <1>0, <3>3 DEF Answered, CreateStands, Task, Answers
      <4>2. PICK a \in {Refusal(c), call[c].out} : Tells(c, a)
        BY <3>3 DEF Answered
      <4>3. a \in Answers /\ (a = "notSent" => left[c] = 0) /\ (a = "ok" => left[c] = 1)
        BY <1>0, <1>1, <3>3, <4>1, <4>2 DEF Answered, CreateStands, Answers
      <4> QED
        BY <3>3, <4>2, <4>3 DEF Answered, Answers
    <3>4. ~Ask(c) /\ ~Interrupted(c)
      <4>1. \A t : call' = [call EXCEPT ![c] = t] => t = call[c]
        BY <1>0, <1>4
      <4>2. ~Ask(c)
        BY <4>1 DEF Ask, Goes, NewTask
      <4>3. ~Interrupted(c)
        BY <1>0, <4>1 DEF Interrupted, Goes, Task
      <4> QED
        BY <4>2, <4>3
    <3> QED
      BY <3>1, <3>2, <3>3, <3>4 DEF CallerNext
  <2>3. CreateStands(call[c], left[c], a)
    BY <1>0, <2>2 DEF CreateStands, Answers
  <2>4. Posts(c, call[c])
    BY <1>0, <2>1, <2>2, <2>3, TellPosts
  <2> QED
    BY <1>0, <2>4
<1>5. Ask(c) \/ Interrupted(c) \/ UNCHANGED call
  BY DEF CallerNext, Refused, Answered, Drained
<1> QED
  BY <1>2, <1>3, <1>4, <1>5

-----------------------------------------------------------------------------
(* Every step is one of four kinds *)

\* A caller of a read or a prepare asks or gives up.
Asks(c) == c \notin Creates /\ (Ask(c) \/ Interrupted(c))

\* Nothing but the cancellation of some tasks, the clock, budgets and shutdown.
Aside ==
    /\ \E S : CancelTasks(S) \/ call' = call
    /\ UNCHANGED <<opened, lock, told, left, carried>>
    /\ session' = session \/ (session' = None /\ shutdown' = "closed")
    /\ now' \in 0..MaxTime /\ expired' \in SUBSET Calls
    /\ shutdown' \in {"no", "billing", "billingPending", "offers", "offersPending", "closed"}

LEMMA StepKinds ==
    ASSUME ClientInv, [Next]_vars
    PROVE  \/ \E c \in Calls \ Creates, t \in Task : Runs(c) /\ LeadsOn(c, t)
           \/ \E c \in Creates, t \in Task : Posts(c, t)
           \/ \E c \in Calls : Asks(c)
           \/ Aside
<1>1. ASSUME NEW c \in Calls, TaskNext(c)
      PROVE  \/ c \notin Creates /\ Runs(c) /\ \E t \in Task : LeadsOn(c, t)
             \/ c \in Creates /\ \E t \in Task : Posts(c, t)
  <2>1. CASE Begin(c) \/ LockGranted(c) \/ AuthOpens(c) \/ AuthFails(c) \/ WaitEnds(c)
             \/ ReadAnswered(c) \/ ReadDenied(c)
    <3>1. Runs(c)
      BY <2>1, RunsAt DEF Begin, LockGranted, AuthOpens, AuthFails, WaitEnds, ReadAnswered, ReadDenied, CreatePlaces
    <3>2. \E t \in Task : LeadsOn(c, t)
      BY <2>1, BeginStep, LockStep, AuthStep, AnswerStep, DeniedStep
    <3> QED
      BY <3>1, <3>2 DEF Runs
  <2>2. CASE c \in Creates /\ (PostBegins(c) \/ PostLeaves(c) \/ PostFails(c) \/ PostAnswered(c) \/ TaskStops(c))
    BY <2>2, PostStep
  <2>3. CASE c \notin Creates /\ TaskStops(c)
    BY <2>3, StopStep, RunsAt DEF TaskStops, Live
  <2> QED
    BY <1>1, <2>1, <2>2, <2>3 DEF TaskNext, PostBegins, PostLeaves, PostFails, PostAnswered
<1>2. ASSUME NEW c \in Calls, CallerNext(c)
      PROVE  Asks(c) \/ (c \in Creates /\ \E t \in Task : Posts(c, t))
  BY <1>2, CallerStep DEF CallerNext, Asks, Refused, Answered, Drained
<1>3. ASSUME \/ \E c \in Calls : Expire(c)
             \/ Tick \/ CloseBilling \/ CloseOffers \/ CloseClient \/ CleanupPending \/ UNCHANGED vars
      PROVE  Aside
  <2>1. now \in 0..MaxTime /\ expired \in SUBSET Calls /\ MaxTime \in Nat
        /\ shutdown \in {"no", "billing", "billingPending", "offers", "offersPending", "closed"}
    BY BoundsAssumption DEF ClientInv, TypeOK
  <2>2. CASE (\E c \in Calls : Expire(c)) \/ Tick \/ UNCHANGED vars
    BY <2>1, <2>2 DEF Aside, Expire, Tick, vars
  <2>3. CASE CloseBilling \/ CloseOffers \/ CloseClient \/ CleanupPending
    BY <2>1, <2>3 DEF Aside, CloseBilling, CloseOffers, CloseClient, CleanupPending, Reaches
  <2> QED
    BY <1>3, <2>2, <2>3
<1> QED
  BY <1>1, <1>2, <1>3 DEF Next

LEMMA AsksKeeps == ASSUME ClientInv, NEW c \in Calls, Asks(c) PROVE ClientInv'
<1> DEFINE q == [NewTask EXCEPT !.pc = "scheduled"]
           u == [call[c] EXCEPT !.cancelled = TRUE]
<1>0. /\ c \in Calls \ Creates /\ call[c] \in Task /\ (c \in Reads => CarriedBy(call[c], carried[c]))
      /\ carried \in [Reads -> Nat] /\ session \in 0..Len(opened) /\ UNCHANGED <<session, lock>> /\ Untouched
      /\ UNCHANGED told /\ (call[c].pc = "auth" => lock = c /\ session = None) /\ (call[c].pc = "get" => c \in Reads)
      /\ opened \in Seq([expires : Nat, ends : Nat]) /\ Len(opened) <= MaxSessions /\ LivesAreTrue
  BY DEF Asks, Ask, Interrupted, ClientInv, TypeOK, OneAuthentication, ReadsCarry, InPlace
<1>1. PICK t \in Task : /\ Goes(c, t) /\ t.pc \notin {"new"} /\ t.pc \in {"scheduled", call[c].pc}
                        /\ c \in Reads => CarriedBy(t, carried[c])
  <2>1. CASE Ask(c)
    <3>1. q \in Task /\ q.pc = "scheduled" /\ q.prev = None /\ ~q.reauth
      BY NewTaskFits DEF Task, NewTask
    <3>2. c \in Reads => CarriedBy(q, carried[c])
      BY <1>0, <2>1, <3>1 DEF Ask, CarriedBy
    <3> HIDE DEF q
    <3> QED
      BY <2>1, <3>1, <3>2 DEF Ask, q
  <2>2. CASE Interrupted(c)
    <3>1. u \in Task /\ u.pc = call[c].pc /\ u.prev = call[c].prev /\ u.reauth = call[c].reauth /\ u.pc # "new"
      BY <1>0, <2>2 DEF Task, Interrupted, Live
    <3>2. c \in Reads => CarriedBy(u, carried[c])
      BY <1>0, <3>1 DEF CarriedBy
    <3> HIDE DEF u
    <3> QED
      BY <2>2, <3>1, <3>2 DEF Interrupted, u
  <2> QED
    BY <2>1, <2>2 DEF Asks
<1>2. Moves(c, t)
  BY <1>0, <1>1 DEF Moves, Untouched
\* The frame of a step does not ask where the task was.
<1>3. opened' = opened /\ UNCHANGED Billed /\ LivesAreTrue'
  BY <1>0 DEF Untouched, Billed, LivesAreTrue
<1> QED
  BY <1>0, <1>1, <1>2, <1>3, TaskStep

LEMMA ClientInvariant == Spec => []ClientInv
<1>1. Init => ClientInv
  <2> SUFFICES ASSUME Init PROVE ClientInv
    OBVIOUS
  <2>0. /\ call \in [Calls -> Task]
        /\ \A c \in Calls : /\ call[c].pc \in {"new", "done"} /\ call[c].prev = None /\ ~call[c].reauth
                            /\ call[c].used = 0 /\ call[c].out = "none"
    <3>1. NewTask \in Task /\ [NewTask EXCEPT !.pc = "done"] \in Task
      BY NewTaskFits DEF Task
    <3> QED
      BY <3>1 DEF Init, NewTask
  <2>1. TypeOK
    BY <2>0, BoundsAssumption DEF Init, TypeOK, None
  <2>2. OneAuthentication /\ InPlace /\ LivesAreTrue
    BY <2>0 DEF Init, OneAuthentication, InPlace, LivesAreTrue, CreatePlaces
  <2>3. ReadsCarry /\ CreatesStand
    <3>1. ASSUME NEW c \in Reads PROVE CarriedBy(call[c], carried[c])
      BY <2>0 DEF Init, CarriedBy, Calls
    <3>2. ASSUME NEW c \in Creates PROVE CreateStands(call[c], left[c], told[c])
      <4>1. c \in Calls /\ left[c] = 0 /\ told[c] = "none"
        BY DEF Init, Calls
      <4> QED
        BY <2>0, <4>1 DEF CreateStands
    <3> QED
      BY <3>1, <3>2 DEF ReadsCarry, CreatesStand
  <2> QED
    BY <2>1, <2>2, <2>3 DEF ClientInv
<1>2. ClientInv /\ [Next]_vars => ClientInv'
  <2> SUFFICES ASSUME ClientInv, [Next]_vars PROVE ClientInv'
    OBVIOUS
  <2>1. ASSUME NEW c \in Calls \ Creates, NEW t \in Task, Runs(c), LeadsOn(c, t) PROVE ClientInv'
    BY <2>1, TaskStep DEF LeadsOn, Runs
  <2>2. ASSUME NEW c \in Creates, NEW t \in Task, Posts(c, t) PROVE ClientInv'
    BY <2>2, CreateStep DEF Posts, PostUnchanged
  <2>3. CASE Aside
    BY <2>3, OtherStep DEF Aside
  <2> QED
    BY <2>1, <2>2, <2>3, StepKinds, AsksKeeps
<1> QED
  BY <1>1, <1>2, PTL DEF Spec

-----------------------------------------------------------------------------
(* The billing client: what it promises *)

\* However many calls overlap, LBX is asked for one session at a time, and no
\* read sends its request with more than two.
THEOREM FewSessions == Spec => []SessionsAreShared
<1>1. ClientInv => SessionsAreShared
  BY DEF ClientInv, SessionsAreShared, ReadsCarry, CarriedBy, TwoSessionsAtMost
<1> QED
  BY <1>1, ClientInvariant, PTL

\* The session of the others is lost only to a 401 about it, or to the shutdown.
THEOREM LostForCause == Spec => SessionLostForCause
<1>1. ASSUME ClientInv, [Next]_vars, NEW s \in Sessions, session = s, session' # s, now < opened[s].expires
      PROVE  \/ shutdown' = "closed"
             \/ \E c \in Reads : call[c].pc = "get" /\ call[c].prev = s /\ call'[c] # call[c]
  <2>0. s # None /\ Valid(s) /\ s = session
    BY <1>1, BoundsAssumption DEF Sessions, None, Valid
  <2>1. ASSUME NEW c \in Calls \ Creates, NEW t \in Task, Runs(c), LeadsOn(c, t)
        PROVE  c \in Reads /\ call[c].pc = "get" /\ call[c].prev = s /\ call'[c] # call[c]
    <3>1. call[c].pc = "get" /\ call[c].prev = s /\ t.pc # "get"
      BY <1>1, <2>0, <2>1 DEF LeadsOn
    <3>2. call'[c] = t
      BY <1>1, <2>1 DEF LeadsOn, Moves, Goes, ClientInv, TypeOK
    <3> QED
      BY <1>1, <3>1, <3>2 DEF ClientInv, InPlace
  <2>2. ASSUME NEW c \in Creates, NEW t \in Task, Posts(c, t) PROVE FALSE
    BY <1>1, <2>2 DEF Posts, PostUnchanged
  <2>3. ASSUME NEW c \in Calls, Asks(c) PROVE FALSE
    BY <1>1, <2>3 DEF Asks, Ask, Interrupted
  <2>4. CASE Aside
    BY <1>1, <2>4 DEF Aside
  <2> QED
    BY <1>1, <2>1, <2>2, <2>3, <2>4, StepKinds
<1>2. ClientInv /\ [Next]_vars =>
        [\A s \in Sessions : session = s /\ session' # s /\ now < opened[s].expires =>
           \/ shutdown' = "closed"
           \/ \E c \in Reads : call[c].pc = "get" /\ call[c].prev = s /\ call'[c] # call[c]]_vars
  BY <1>1
<1> QED
  BY <1>2, ClientInvariant, PTL DEF Spec, SessionLostForCause

\* A request of a read is sent with a session that LBX still keeps.
THEOREM SentInTime == Spec => SentWhileItLives
<1>1. ASSUME ClientInv, [Next]_vars, NEW d \in Reads, call'[d].pc = "get", call'[d] # call[d], ~call'[d].cancelled
      PROVE  now < opened'[call'[d].prev].ends
  <2>0. d \in Calls /\ d \notin Creates /\ call \in [Calls -> Task]
    BY <1>1, CallsAssumption DEF Calls, ClientInv, TypeOK
  <2>1. ASSUME NEW c \in Calls \ Creates, NEW t \in Task, Runs(c), LeadsOn(c, t)
        PROVE  now < opened'[call'[d].prev].ends
    <3>1. d = c /\ call'[d] = t
      BY <1>1, <2>0, <2>1 DEF LeadsOn, Moves, Goes
    <3> QED
      BY <1>1, <2>1, <3>1 DEF LeadsOn
  <2>2. ASSUME NEW c \in Creates, NEW t \in Task, Posts(c, t) PROVE FALSE
    BY <1>1, <2>0, <2>2 DEF Posts, Goes
  <2>3. ASSUME NEW c \in Calls, Asks(c) PROVE FALSE
    <3>1. d = c
      BY <1>1, <2>0, <2>3 DEF Asks, Ask, Interrupted, Goes
    <3>2. call'[d].pc = "scheduled" \/ call'[d].cancelled
      BY <2>0, <2>3, <3>1 DEF Asks, Ask, Interrupted, Goes, NewTask, Task
    <3> QED
      BY <1>1, <3>2
  <2>4. CASE Aside
    <3>1. PICK S : CancelTasks(S) \/ call' = call
      BY <2>4 DEF Aside
    <3>2. call'[d] = [call[d] EXCEPT !.cancelled = TRUE]
      BY <1>1, <2>0, <3>1 DEF CancelTasks
    <3> QED
      BY <1>1, <2>0, <3>2 DEF Task
  <2> QED
    BY <1>1, <2>1, <2>2, <2>3, <2>4, StepKinds
<1>2. ClientInv /\ [Next]_vars =>
        [\A c \in Reads : call'[c].pc = "get" /\ call'[c] # call[c] /\ ~call'[c].cancelled =>
           now < opened'[call'[c].prev].ends]_vars
  BY <1>1
<1> QED
  BY <1>2, ClientInvariant, PTL DEF Spec, SentWhileItLives

\* Both: a session serves while it lives, and no longer.
THEOREM LivedOut == Spec => SessionsLiveOut
  BY LostForCause, SentInTime, PTL DEF SessionsLiveOut

\* A create leaves once, and what its caller is told of it is true for good:
\* the client implements the promise, step by step.
THEOREM PromiseKept == Spec => CreatePromiseKept
<1>1. Init => Promise!Init
  BY DEF Init, Promise!Init, Answers
<1>2. ClientInv /\ [Next]_vars => [Promise!Next]_(Promise!vars)
  <2> SUFFICES ASSUME ClientInv, [Next]_vars PROVE [Promise!Next]_(Promise!vars)
    OBVIOUS
  <2> DEFINE Told == [c \in Creates |-> ToldTo(c)]
  <2>1. ASSUME UNCHANGED <<left, told>> PROVE UNCHANGED (Promise!vars)
    BY <2>1 DEF Promise!vars
  <2>2. ASSUME NEW c \in Creates, NEW t \in Task, Posts(c, t) PROVE [Promise!Next]_(Promise!vars)
    <3>0. /\ left \in [Creates -> 0..1] /\ left' \in [Creates -> 0..1]
          /\ \A d \in Creates \ {c} : left'[d] = left[d] /\ ToldTo(d)' = ToldTo(d)
      BY <2>2, CreateFacts DEF Posts, ToldTo
    <3>1. CASE left'[c] = left[c] /\ ToldTo(c)' = ToldTo(c)
      <4>1. left' = left /\ Told' = Told
        BY <3>0, <3>1
      <4> QED
        BY <4>1 DEF Promise!vars, ToldTo
    <3>2. CASE left[c] = 0 /\ left'[c] = 1 /\ ToldTo(c) \notin {"notSent", "ok"} /\ ToldTo(c)' = ToldTo(c)
      <4>1. left' = [left EXCEPT ![c] = 1] /\ Told' = Told /\ Told[c] = ToldTo(c)
        BY <3>0, <3>2
      <4>2. Promise!Leave(c)
        BY <3>2, <4>1 DEF Promise!Leave, ToldTo
      <4> QED
        BY <4>2 DEF Promise!Next
    <3>3. ASSUME left'[c] = left[c], ToldTo(c) = "none", ToldTo(c)' \in Answers,
                 ToldTo(c)' = "notSent" => left[c] = 0, ToldTo(c)' = "ok" => left[c] = 1
          PROVE  Promise!Next
      <4>1. PICK answer \in Answers : answer = ToldTo(c)'
        BY <3>3
      <4>2. /\ left' = left /\ Told[c] = ToldTo(c)
            /\ Told' = [Told EXCEPT ![c] = answer]
        <5>1. left' = left
          BY <3>0, <3>3
        <5>2. \A d \in Creates : ToldTo(d)' = IF d = c THEN answer ELSE ToldTo(d)
          BY <3>0, <4>1
        <5>3. Told' = [d \in Creates |-> IF d = c THEN answer ELSE ToldTo(d)]
          BY <5>2
        <5>4. [Told EXCEPT ![c] = answer] = [d \in Creates |-> IF d = c THEN answer ELSE ToldTo(d)]
          OBVIOUS
        <5> QED
          BY <5>1, <5>3, <5>4
      <4>3. Promise!Tell(c, answer)
        BY <3>3, <4>1, <4>2 DEF Promise!Tell, ToldTo
      <4> QED
        BY <4>3 DEF Promise!Next
    <3> QED
      BY <2>2, <3>1, <3>2, <3>3 DEF Posts, Sees
  <2>3. ASSUME NEW c \in Calls \ Creates, NEW t \in Task, LeadsOn(c, t) PROVE UNCHANGED <<left, told>>
    BY <2>3 DEF LeadsOn, Billed
  <2>4. ASSUME NEW c \in Calls, Asks(c) PROVE UNCHANGED <<left, told>>
    BY <2>4 DEF Asks, Ask, Interrupted, Untouched
  <2>5. ASSUME Aside PROVE UNCHANGED <<left, told>>
    BY <2>5 DEF Aside
  <2> QED
    BY <2>1, <2>2, <2>3, <2>4, <2>5, StepKinds
<1> QED
  BY <1>1, <1>2, ClientInvariant, PTL DEF Spec, CreatePromiseKept, Promise!Spec

-----------------------------------------------------------------------------
(* The catalog: two equal read sets are a snapshot.  An offer that is shown *)
(* did stand at one moment, for any number of edits, previews and attempts. *)

Sellers == [tariff : SourceRecord, period : SourceRecord, service : SourceRecord,
            edits : Nat, prices : SUBSET PriceRecord]

Pcs == {"idle", "manifest", "link", "ended"} \cup OfferReads

Requests == [pc : Pcs, fetches : Nat, day : Nat,
             tariff : SourceRecord, period : SourceRecord, service : SourceRecord,
             inline : SUBSET PriceRecord,
             first : SUBSET [tariff : Nat, period : Nat, service : Nat, price : PriceRecord],
             result : Results,
             shown : SUBSET [tariff : Nat, period : Nat, service : Nat, price : PriceRecord]]

CatalogTypes ==
    /\ seller \in Sellers
    /\ today \in Nat
    /\ preview \in [Previews -> Requests]
    /\ DOMAIN stood = Previews

\* Terms are numbered by the edits that brought them.
ByEdits(s) == s.tariff.terms <= s.edits /\ s.period.terms <= s.edits /\ s.service.terms <= s.edits

\* A record read earlier is the present one, or has older terms.
NotNewer(old, new) == old = new \/ old.terms < new.terms

HasTariff == {"periods", "services", "prices"}
HasPeriod == {"services", "prices"}

TakenEarlier(p) ==
    LET t == preview[p] IN
    /\ t.pc \in HasTariff => NotNewer(t.tariff, seller.tariff)
    /\ t.pc \in HasPeriod => NotNewer(t.period, seller.period)
    /\ t.pc = "prices" => NotNewer(t.service, seller.service)

\* Offer o of the first set mixes records: one of them was replaced since, and
\* the second set will not see it again.
Mixed(o, p) ==
    LET t == preview[p] IN
    \/ o.tariff < seller.tariff.terms /\ (t.pc \in HasTariff => o.tariff < t.tariff.terms)
    \/ o.period < seller.period.terms /\ (t.pc \in HasPeriod => o.period < t.period.terms)
    \/ o.service < seller.service.terms /\ (t.pc = "prices" => o.service < t.service.terms)

FirstStoodOrMixed(p) == \A o \in preview[p].first : o \in stood[p] \/ Mixed(o, p)

Recorded(p) == preview[p].pc \in OfferReads => Amounts(seller, preview[p].day) \subseteq stood[p]

Empty(p) ==
    /\ preview[p].pc \notin OfferReads => preview[p].first = {}
    /\ preview[p].pc # "ended" => preview[p].shown = {}
    /\ preview[p].shown \subseteq stood[p]

CatalogInv ==
    /\ CatalogTypes /\ ByEdits(seller)
    /\ \A p \in Previews : TakenEarlier(p) /\ FirstStoodOrMixed(p) /\ Recorded(p) /\ Empty(p)

-----------------------------------------------------------------------------
LEMMA Records == Blank \in SourceRecord /\ Sold \in SourceRecord /\ NewPreview \in Requests
  BY DEF Blank, Sold, NewPreview, SourceRecord, Flags, DiscountLists, Requests, Pcs, OfferReads, Results,
         Current, Unsupported, Incomplete

\* What an edit leaves: a record stays or gets newer terms.
LEMMA EditedFacts ==
    ASSUME NEW s \in Sellers, ByEdits(s), NEW e \in Edited(s)
    PROVE  /\ e \in Sellers /\ ByEdits(e)
           /\ NotNewer(s.tariff, e.tariff) /\ NotNewer(s.period, e.period) /\ NotNewer(s.service, e.service)
<1> DEFINE n == s.edits + 1
           b == [s EXCEPT !.edits = n]
           Fresh == {[f EXCEPT !.terms = n] : f \in Profiles}
<1>0. /\ n \in Nat /\ b \in Sellers /\ b.edits = n /\ b.tariff = s.tariff /\ b.period = s.period
      /\ b.service = s.service /\ b.prices = s.prices
      /\ s.tariff.terms \in Nat /\ s.period.terms \in Nat /\ s.service.terms \in Nat /\ s.edits \in Nat
  BY DEF Sellers, SourceRecord
<1>1. \A r \in Fresh : r \in SourceRecord /\ r.terms = n
  BY <1>0, CatalogAssumption DEF SourceRecord
<1> HIDE DEF n, b, Fresh
<1>2. ASSUME NEW q \in SUBSET PriceRecord, e = [b EXCEPT !.prices = q]
      PROVE  e \in Sellers /\ e.edits = n /\ e.tariff = s.tariff /\ e.period = s.period /\ e.service = s.service
  BY <1>0, <1>2 DEF Sellers
<1>3. CASE \E r \in Fresh : e = [b EXCEPT !.tariff = r]
  <2> PICK r \in Fresh : e = [b EXCEPT !.tariff = r]
    BY <1>3
  <2>1. e \in Sellers /\ e.edits = n /\ e.tariff = r /\ e.period = s.period /\ e.service = s.service
    BY <1>0, <1>1 DEF Sellers
  <2> QED
    BY <1>0, <1>1, <2>1 DEF ByEdits, NotNewer, n
<1>4. CASE \E r \in Fresh : e = [b EXCEPT !.period = r]
  <2> PICK r \in Fresh : e = [b EXCEPT !.period = r]
    BY <1>4
  <2>1. e \in Sellers /\ e.edits = n /\ e.period = r /\ e.tariff = s.tariff /\ e.service = s.service
    BY <1>0, <1>1 DEF Sellers
  <2> QED
    BY <1>0, <1>1, <2>1 DEF ByEdits, NotNewer, n
<1>5. CASE \E r \in Fresh : e = [b EXCEPT !.service = r]
  <2> PICK r \in Fresh : e = [b EXCEPT !.service = r]
    BY <1>5
  <2>1. e \in Sellers /\ e.edits = n /\ e.service = r /\ e.tariff = s.tariff /\ e.period = s.period
    BY <1>0, <1>1 DEF Sellers
  <2> QED
    BY <1>0, <1>1, <2>1 DEF ByEdits, NotNewer, n
<1>6. CASE \E d \in 0..MaxToday : e = [b EXCEPT !.prices = @ \cup {[id |-> n, start |-> d, amount |-> n]}]
  <2> PICK d \in 0..MaxToday : e = [b EXCEPT !.prices = @ \cup {[id |-> n, start |-> d, amount |-> n]}]
    BY <1>6
  <2>1. [id |-> n, start |-> d, amount |-> n] \in PriceRecord
    BY <1>0, CatalogAssumption DEF PriceRecord
  <2>2. s.prices \cup {[id |-> n, start |-> d, amount |-> n]} \in SUBSET PriceRecord
    BY <2>1 DEF Sellers
  <2>3. e = [b EXCEPT !.prices = s.prices \cup {[id |-> n, start |-> d, amount |-> n]}]
    BY <1>0
  <2>4. e \in Sellers /\ e.edits = n /\ e.tariff = s.tariff /\ e.period = s.period /\ e.service = s.service
    BY <1>2, <2>2, <2>3
  <2> QED
    BY <1>0, <2>4 DEF ByEdits, NotNewer, n
<1>7. CASE \E r \in s.prices : e = [b EXCEPT !.prices = (@ \ {r}) \cup {[r EXCEPT !.amount = n]}]
  <2> PICK r \in s.prices : e = [b EXCEPT !.prices = (@ \ {r}) \cup {[r EXCEPT !.amount = n]}]
    BY <1>7
  <2>1. r \in PriceRecord /\ [r EXCEPT !.amount = n] \in PriceRecord
    BY <1>0 DEF PriceRecord, Sellers
  <2>2. (s.prices \ {r}) \cup {[r EXCEPT !.amount = n]} \in SUBSET PriceRecord
    BY <2>1 DEF Sellers
  <2>3. e = [b EXCEPT !.prices = (s.prices \ {r}) \cup {[r EXCEPT !.amount = n]}]
    BY <1>0
  <2>4. e \in Sellers /\ e.edits = n /\ e.tariff = s.tariff /\ e.period = s.period /\ e.service = s.service
    BY <1>2, <2>2, <2>3
  <2> QED
    BY <1>0, <2>4 DEF ByEdits, NotNewer, n
<1>8. CASE \E r \in s.prices : e = [b EXCEPT !.prices = @ \ {r}]
  <2> PICK r \in s.prices : e = [b EXCEPT !.prices = @ \ {r}]
    BY <1>8
  <2>1. s.prices \ {r} \in SUBSET PriceRecord
    BY DEF Sellers
  <2>2. e = [b EXCEPT !.prices = s.prices \ {r}]
    BY <1>0
  <2>3. e \in Sellers /\ e.edits = n /\ e.tariff = s.tariff /\ e.period = s.period /\ e.service = s.service
    BY <1>2, <2>1, <2>2
  <2> QED
    BY <1>0, <2>3 DEF ByEdits, NotNewer, n
<1> QED
  BY <1>3, <1>4, <1>5, <1>6, <1>7, <1>8 DEF Edited, n, b, Fresh

\* A complete set has one offer, made of the terms of its records.
LEMMA OfferOfSet ==
    ASSUME NEW t \in SourceRecord, NEW q \in SourceRecord, NEW s \in SourceRecord,
           NEW i \in SUBSET PriceRecord, NEW r \in SUBSET PriceRecord, NEW d \in Nat,
           Normalized(t, q, s, i, r, d).as = Current
    PROVE  /\ \A x : x \in Normalized(t, q, s, i, r, d).offers <=> x = Offer(t, q, s, PriceOf(r, d))
           /\ \A x : x \in Normalized(t, q, s, r, r, d).offers <=> x = Offer(t, q, s, PriceOf(r, d))
           /\ Offer(t, q, s, PriceOf(r, d)) \in [tariff : Nat, period : Nat, service : Nat, price : PriceRecord]
<1>1. Complete(t, q, s, i, r, d) /\ Sellable(t, q, s)
  BY DEF Normalized, Current, Incomplete, Unsupported
<1>2. Complete(t, q, s, r, r, d)
  BY <1>1 DEF Complete, PricesAgree
<1>3. Applicable(r, d) # {}
  <2> SUFFICES ASSUME Applicable(r, d) = {} PROVE FALSE
    OBVIOUS
  <2>1. Cardinality({}) = 0
    BY FS_EmptySet
  <2> QED
    BY <1>2, <2>1 DEF Complete, PricesAgree, IsPriced
<1>4. PriceOf(r, d) \in PriceRecord
  BY <1>3 DEF PriceOf, Applicable, Started
<1> QED
  BY <1>1, <1>2, <1>4 DEF Normalized, Offer, SourceRecord

-----------------------------------------------------------------------------
(* The invariant *)

\* Steps of preview p say nothing of the others.
LEMMA OthersKeep ==
    ASSUME CatalogInv, NEW p \in Previews, NEW q \in Previews, q # p,
           NEW t \in Requests, CatalogTo(p, t), UNCHANGED seller,
           stood'[q] = stood[q]
    PROVE  (TakenEarlier(q) /\ FirstStoodOrMixed(q) /\ Recorded(q) /\ Empty(q))'
<1>1. preview'[q] = preview[q]
  BY DEF CatalogInv, CatalogTypes, CatalogTo
<1> QED
  BY <1>1 DEF CatalogInv, TakenEarlier, FirstStoodOrMixed, Mixed, Recorded, Empty

\* A step that changes one preview, and neither records nor history.
LEMMA OneMoves ==
    ASSUME CatalogInv, NEW p \in Previews, NEW t \in Requests, CatalogTo(p, t),
           UNCHANGED <<seller, today, stood>>,
           (TakenEarlier(p) /\ FirstStoodOrMixed(p) /\ Recorded(p) /\ Empty(p))'
    PROVE  CatalogInv'
<1>1. CatalogTypes' /\ ByEdits(seller)'
  BY DEF CatalogInv, CatalogTypes, CatalogTo, ByEdits
<1>2. ASSUME NEW q \in Previews, q # p
      PROVE  (TakenEarlier(q) /\ FirstStoodOrMixed(q) /\ Recorded(q) /\ Empty(q))'
  BY <1>2, OthersKeep
<1> QED
  BY <1>1, <1>2 DEF CatalogInv

\* A preview that ends without an offer keeps nothing.
LEMMA Ended ==
    ASSUME CatalogInv, NEW p \in Previews, NEW r \in Results, EndsAs(p, r), UNCHANGED <<seller, today, stood>>
    PROVE  CatalogInv'
<1> DEFINE t == [NewPreview EXCEPT !.pc = "ended", !.result = r]
<1>1. t \in Requests /\ t.pc = "ended" /\ t.first = {} /\ t.shown = {}
  BY Records DEF Requests, NewPreview, Pcs
<1>2. CatalogTo(p, t) /\ preview'[p] = t
  BY DEF EndsAs, CatalogTo, CatalogInv, CatalogTypes
<1>3. (TakenEarlier(p) /\ FirstStoodOrMixed(p) /\ Recorded(p) /\ Empty(p))'
  BY <1>1, <1>2 DEF TakenEarlier, FirstStoodOrMixed, Recorded, Empty, HasTariff, HasPeriod, OfferReads
<1> QED
  BY <1>1, <1>2, <1>3, OneMoves

LEMMA EnquireStep == ASSUME CatalogInv, NEW p \in Previews, Enquire(p) PROVE CatalogInv'
<1> DEFINE t == [preview[p] EXCEPT !.pc = "manifest"]
<1>1. preview[p] \in Requests /\ preview[p].first = {} /\ preview[p].shown = {}
  BY DEF CatalogInv, CatalogTypes, Empty, Enquire, OfferReads
<1>2. t \in Requests /\ t.pc = "manifest" /\ t.first = {} /\ t.shown = {}
  BY <1>1 DEF Requests, Pcs
<1>3. CatalogTo(p, t) /\ preview'[p] = t
  BY DEF Enquire, CatalogTo, CatalogInv, CatalogTypes
<1>4. (TakenEarlier(p) /\ FirstStoodOrMixed(p) /\ Recorded(p) /\ Empty(p))'
  BY <1>2, <1>3 DEF TakenEarlier, FirstStoodOrMixed, Recorded, Empty, HasTariff, HasPeriod, OfferReads
<1> QED
  BY <1>2, <1>3, <1>4, OneMoves DEF Enquire

LEMMA FetchStep == ASSUME CatalogInv, NEW p \in Previews, FetchManifest(p) PROVE CatalogInv'
<1>0. preview[p] \in Requests /\ preview[p].first = {} /\ preview[p].shown = {} /\ preview[p].pc = "manifest"
  BY DEF CatalogInv, CatalogTypes, Empty, FetchManifest, OfferReads
<1>1. CASE \E r \in {"unavailable", "listed", "notFound"} : EndsAs(p, r)
  BY <1>1, Ended DEF FetchManifest, Results
<1>2. ASSUME NEW t \in Requests, CatalogTo(p, t), t.pc \in {"manifest", "link"}, t.first = {}, t.shown = {}
      PROVE  CatalogInv'
  <2>1. preview'[p] = t
    BY <1>2 DEF CatalogTo, CatalogInv, CatalogTypes
  <2>2. (TakenEarlier(p) /\ FirstStoodOrMixed(p) /\ Recorded(p) /\ Empty(p))'
    BY <1>2, <2>1 DEF TakenEarlier, FirstStoodOrMixed, Recorded, Empty, HasTariff, HasPeriod, OfferReads
  <2> QED
    BY <1>2, <2>2, OneMoves DEF FetchManifest
<1>3. CASE CatalogTo(p, [preview[p] EXCEPT !.fetches = @ + 1])
  <2> DEFINE t == [preview[p] EXCEPT !.fetches = @ + 1]
  <2>1. t \in Requests /\ t.pc = "manifest" /\ t.first = {} /\ t.shown = {}
    BY <1>0 DEF Requests
  <2> QED
    BY <1>2, <1>3, <2>1
<1>4. CASE CatalogTo(p, [NewPreview EXCEPT !.pc = "link"])
  <2> DEFINE t == [NewPreview EXCEPT !.pc = "link"]
  <2>1. t \in Requests /\ t.pc = "link" /\ t.first = {} /\ t.shown = {}
    BY Records DEF Requests, Pcs, NewPreview
  <2> QED
    BY <1>2, <1>4, <2>1
<1> QED
  BY <1>1, <1>3, <1>4 DEF FetchManifest

LEMMA LinkStep == ASSUME CatalogInv, NEW p \in Previews, ReadProductLink(p) PROVE CatalogInv'
<1>1. CASE \E r \in {Incomplete, "UNMAPPED", "unavailable"} : EndsAs(p, r) /\ UNCHANGED stood
  BY <1>1, Ended DEF ReadProductLink, Results
<1>2. CASE /\ CatalogTo(p, [preview[p] EXCEPT !.pc = "tariff", !.day = today])
           /\ stood' = [stood EXCEPT ![p] = Amounts(seller, today)]
  <2> DEFINE t == [preview[p] EXCEPT !.pc = "tariff", !.day = today]
  <2>1. preview[p] \in Requests /\ preview[p].first = {} /\ preview[p].shown = {} /\ today \in Nat
    BY DEF CatalogInv, CatalogTypes, Empty, ReadProductLink, OfferReads
  <2>2. t \in Requests /\ t.pc = "tariff" /\ t.first = {} /\ t.shown = {} /\ t.day = today
    BY <2>1 DEF Requests, Pcs, OfferReads
  <2>3. preview'[p] = t /\ stood'[p] = Amounts(seller, today) /\ UNCHANGED <<seller, today>>
    BY <1>2 DEF CatalogTo, CatalogInv, CatalogTypes, ReadProductLink
  <2>4. (TakenEarlier(p) /\ FirstStoodOrMixed(p) /\ Recorded(p) /\ Empty(p))'
    BY <2>2, <2>3 DEF TakenEarlier, FirstStoodOrMixed, Recorded, Empty, HasTariff, HasPeriod, OfferReads, Amounts
  <2>5. ASSUME NEW q \in Previews, q # p
        PROVE  (TakenEarlier(q) /\ FirstStoodOrMixed(q) /\ Recorded(q) /\ Empty(q))'
    <3>1. stood'[q] = stood[q]
      BY <1>2, <2>5 DEF CatalogInv, CatalogTypes
    <3> QED
      BY <1>2, <2>2, <2>3, <2>5, <3>1, OthersKeep
  <2>6. CatalogTypes' /\ ByEdits(seller)'
    BY <1>2, <2>2, <2>3 DEF CatalogInv, CatalogTypes, CatalogTo, ByEdits
  <2> QED
    BY <2>4, <2>5, <2>6 DEF CatalogInv
<1> QED
  BY <1>1, <1>2 DEF ReadProductLink

\* A read: the record taken is the present one.
LEMMA TariffStep == ASSUME CatalogInv, NEW p \in Previews, GetTariff(p) PROVE CatalogInv'
<1> DEFINE t == [preview[p] EXCEPT !.pc = "periods", !.tariff = seller.tariff]
<1>1. preview[p] \in Requests /\ preview[p].pc = "tariff" /\ seller \in Sellers /\ preview[p].pc \in OfferReads
  BY DEF CatalogInv, CatalogTypes, GetTariff, Gets, OfferReads
<1>2. /\ t \in Requests /\ t.pc = "periods" /\ t.tariff = seller.tariff /\ t.day = preview[p].day
      /\ t.first = preview[p].first /\ t.shown = preview[p].shown
  BY <1>1 DEF Requests, Pcs, OfferReads, Sellers
<1>3. CatalogTo(p, t) /\ preview'[p] = t /\ UNCHANGED <<seller, today, stood>>
  BY DEF GetTariff, Gets, CatalogTo, CatalogInv, CatalogTypes
<1>4. TakenEarlier(p)'
  BY <1>2, <1>3 DEF TakenEarlier, NotNewer, HasTariff, HasPeriod
<1>5. FirstStoodOrMixed(p)'
  <2>1. \A o \in preview[p].first : Mixed(o, p) => Mixed(o, p)'
    BY <1>1, <1>2, <1>3 DEF Mixed, HasTariff, HasPeriod
  <2> QED
    BY <1>2, <1>3, <2>1 DEF CatalogInv, FirstStoodOrMixed
<1>6. (Recorded(p) /\ Empty(p))'
  BY <1>1, <1>2, <1>3 DEF CatalogInv, Recorded, Empty, OfferReads, Amounts
<1> QED
  BY <1>2, <1>3, <1>4, <1>5, <1>6, OneMoves

LEMMA PeriodStep == ASSUME CatalogInv, NEW p \in Previews, ListPeriods(p) PROVE CatalogInv'
<1> DEFINE t == [preview[p] EXCEPT !.pc = "services", !.period = seller.period]
<1>1. preview[p] \in Requests /\ preview[p].pc = "periods" /\ seller \in Sellers /\ preview[p].pc \in OfferReads
  BY DEF CatalogInv, CatalogTypes, ListPeriods, Gets, OfferReads
<1>2. /\ t \in Requests /\ t.pc = "services" /\ t.period = seller.period /\ t.tariff = preview[p].tariff
      /\ t.day = preview[p].day /\ t.first = preview[p].first /\ t.shown = preview[p].shown
  BY <1>1 DEF Requests, Pcs, OfferReads, Sellers
<1>3. CatalogTo(p, t) /\ preview'[p] = t /\ UNCHANGED <<seller, today, stood>>
  BY DEF ListPeriods, Gets, CatalogTo, CatalogInv, CatalogTypes
<1>4. TakenEarlier(p)'
  BY <1>1, <1>2, <1>3 DEF CatalogInv, TakenEarlier, NotNewer, HasTariff, HasPeriod
<1>5. FirstStoodOrMixed(p)'
  <2>1. \A o \in preview[p].first : Mixed(o, p) => Mixed(o, p)'
    BY <1>1, <1>2, <1>3 DEF Mixed, HasTariff, HasPeriod
  <2> QED
    BY <1>2, <1>3, <2>1 DEF CatalogInv, FirstStoodOrMixed
<1>6. (Recorded(p) /\ Empty(p))'
  BY <1>1, <1>2, <1>3 DEF CatalogInv, Recorded, Empty, OfferReads, Amounts
<1> QED
  BY <1>2, <1>3, <1>4, <1>5, <1>6, OneMoves

LEMMA ServiceStep == ASSUME CatalogInv, NEW p \in Previews, ListServices(p) PROVE CatalogInv'
<1> DEFINE t == [preview[p] EXCEPT !.pc = "prices", !.service = seller.service, !.inline = seller.prices]
<1>1. preview[p] \in Requests /\ preview[p].pc = "services" /\ seller \in Sellers /\ preview[p].pc \in OfferReads
  BY DEF CatalogInv, CatalogTypes, ListServices, Gets, OfferReads
<1>2. /\ t \in Requests /\ t.pc = "prices" /\ t.service = seller.service
      /\ t.tariff = preview[p].tariff /\ t.period = preview[p].period
      /\ t.day = preview[p].day /\ t.first = preview[p].first /\ t.shown = preview[p].shown
  BY <1>1 DEF Requests, Pcs, OfferReads, Sellers
<1>3. CatalogTo(p, t) /\ preview'[p] = t /\ UNCHANGED <<seller, today, stood>>
  BY DEF ListServices, Gets, CatalogTo, CatalogInv, CatalogTypes
<1>4. TakenEarlier(p)'
  BY <1>1, <1>2, <1>3 DEF CatalogInv, TakenEarlier, NotNewer, HasTariff, HasPeriod
<1>5. FirstStoodOrMixed(p)'
  <2>1. \A o \in preview[p].first : Mixed(o, p) => Mixed(o, p)'
    BY <1>1, <1>2, <1>3 DEF Mixed, HasTariff, HasPeriod
  <2> QED
    BY <1>2, <1>3, <2>1 DEF CatalogInv, FirstStoodOrMixed
<1>6. (Recorded(p) /\ Empty(p))'
  BY <1>1, <1>2, <1>3 DEF CatalogInv, Recorded, Empty, OfferReads, Amounts
<1> QED
  BY <1>2, <1>3, <1>4, <1>5, <1>6, OneMoves

\* The heart of it.  The first set either is what the records amount to now, at
\* its last read, or holds terms that were replaced; then the second set, which
\* has no older records than these, differs.
LEMMA PriceStep == ASSUME CatalogInv, NEW p \in Previews, ListPrices(p) PROVE CatalogInv'
<1> DEFINE u == preview[p]
           set == Normalized(u.tariff, u.period, u.service, u.inline, seller.prices, u.day)
           o == Offer(u.tariff, u.period, u.service, PriceOf(seller.prices, u.day))
<1>1. u \in Requests /\ u.pc = "prices" /\ seller \in Sellers /\ u.pc \in OfferReads
  BY DEF CatalogInv, CatalogTypes, ListPrices, Gets, OfferReads
<1>2. UNCHANGED <<seller, today, stood>>
  BY DEF ListPrices, Gets
<1>3. CASE \E r \in Results : EndsAs(p, r)
  BY <1>2, <1>3, Ended
<1>4. ASSUME set.as = Current
      PROVE  /\ set.offers = {o} /\ o \in [tariff : Nat, period : Nat, service : Nat, price : PriceRecord]
             /\ Normalized(u.tariff, u.period, u.service, seller.prices, seller.prices, u.day).offers = {o}
             /\ o.tariff = u.tariff.terms /\ o.period = u.period.terms /\ o.service = u.service.terms
  <2>1. /\ u.tariff \in SourceRecord /\ u.period \in SourceRecord /\ u.service \in SourceRecord
        /\ u.inline \in SUBSET PriceRecord /\ seller.prices \in SUBSET PriceRecord /\ u.day \in Nat
    BY <1>1 DEF Requests, Sellers
  <2>2. o.tariff = u.tariff.terms /\ o.period = u.period.terms /\ o.service = u.service.terms
    BY DEF Offer
  <2>3. /\ \A x : x \in set.offers <=> x = o
        /\ \A x : x \in Normalized(u.tariff, u.period, u.service, seller.prices, seller.prices, u.day).offers <=> x = o
        /\ o \in [tariff : Nat, period : Nat, service : Nat, price : PriceRecord]
    BY <1>4, <2>1, OfferOfSet
  <2> QED
    BY <2>2, <2>3
\* At its last read a set stands, or one of its records is out of date.
<1>5. ASSUME set.as = Current
      PROVE  o \in stood[p] \/ u.tariff.terms < seller.tariff.terms
                \/ u.period.terms < seller.period.terms \/ u.service.terms < seller.service.terms
  <2>1. NotNewer(u.tariff, seller.tariff) /\ NotNewer(u.period, seller.period) /\ NotNewer(u.service, seller.service)
    BY <1>1 DEF CatalogInv, TakenEarlier, HasTariff, HasPeriod
  <2>2. CASE u.tariff = seller.tariff /\ u.period = seller.period /\ u.service = seller.service
    <3>1. Amounts(seller, u.day) = {o}
      BY <1>4, <1>5, <2>2 DEF Amounts
    <3> QED
      BY <1>1, <3>1 DEF CatalogInv, Recorded
  <2> QED
    BY <2>1, <2>2 DEF NotNewer
<1>6. CASE set.as = Current /\ u.first = {} /\ CatalogTo(p, [u EXCEPT !.pc = "tariff", !.first = set.offers])
  <2> DEFINE t == [u EXCEPT !.pc = "tariff", !.first = set.offers]
  <2>1. /\ t \in Requests /\ t.pc = "tariff" /\ t.first = {o} /\ t.day = u.day /\ t.shown = u.shown
    BY <1>1, <1>4, <1>6 DEF Requests, Pcs, OfferReads
  <2>2. preview'[p] = t
    BY <1>6 DEF CatalogTo, CatalogInv, CatalogTypes
  <2>3. TakenEarlier(p)'
    BY <2>1, <2>2 DEF TakenEarlier, HasTariff, HasPeriod
  <2>4. ASSUME NEW x, x = o PROVE x \in stood[p] \/ Mixed(x, p)'
    <3>1. o.tariff = u.tariff.terms /\ o.period = u.period.terms /\ o.service = u.service.terms
      BY <1>4, <1>6
    <3>2. o \in stood[p] \/ o.tariff < seller.tariff.terms
             \/ o.period < seller.period.terms \/ o.service < seller.service.terms
      BY <1>5, <1>6, <3>1
    <3> HIDE DEF t, u, o, set
    <3> QED
      BY <1>2, <2>1, <2>2, <2>4, <3>2 DEF Mixed, HasTariff, HasPeriod
  <2>5. (FirstStoodOrMixed(p) /\ Recorded(p) /\ Empty(p))'
    BY <1>1, <1>2, <2>1, <2>2, <2>4 DEF CatalogInv, FirstStoodOrMixed, Recorded, Empty, OfferReads, Amounts
  <2> QED
    BY <1>2, <1>6, <2>1, <2>3, <2>5, OneMoves
<1>7. CASE /\ set.as = Current /\ u.first # {} /\ Unchanged(u.first, set.offers)
           /\ CatalogTo(p, [NewPreview EXCEPT !.pc = "ended", !.result = Current, !.shown = set.offers])
  <2> DEFINE t == [NewPreview EXCEPT !.pc = "ended", !.result = Current, !.shown = set.offers]
  <2>1. t \in Requests /\ t.pc = "ended" /\ t.first = {} /\ t.shown = {o}
    BY <1>4, <1>7, Records DEF Requests, NewPreview, Pcs, Results
  <2>2. preview'[p] = t
    BY <1>7 DEF CatalogTo, CatalogInv, CatalogTypes
  <2>3. o \in stood[p]
    <3>1. o \in u.first
      BY <1>4, <1>7 DEF Unchanged
    <3>2. ~Mixed(o, p)
      <4>1. o.tariff = u.tariff.terms /\ o.period = u.period.terms /\ o.service = u.service.terms
        BY <1>4, <1>7
      <4>2. u.tariff.terms \in Nat /\ u.period.terms \in Nat /\ u.service.terms \in Nat
        BY <1>1 DEF Requests, SourceRecord
      <4>3. u.pc = "prices" /\ u = preview[p]
        BY <1>1
      <4> HIDE DEF t, u, o, set
      <4> QED
        BY <4>1, <4>2, <4>3 DEF Mixed, HasTariff, HasPeriod
    <3> QED
      BY <3>1, <3>2 DEF CatalogInv, FirstStoodOrMixed
  <2>4. (TakenEarlier(p) /\ FirstStoodOrMixed(p) /\ Recorded(p) /\ Empty(p))'
    BY <1>2, <2>1, <2>2, <2>3 DEF TakenEarlier, FirstStoodOrMixed, Recorded, Empty, HasTariff, HasPeriod, OfferReads
  <2> QED
    BY <1>2, <1>7, <2>1, <2>4, OneMoves
<1>8. set.as \in Results
  BY DEF Normalized, Results
<1>9. "unavailable" \in Results
  BY DEF Results
<1> QED
  BY <1>3, <1>6, <1>7, <1>8, <1>9 DEF ListPrices, Gets, EndsAs

LEMMA EditStep == ASSUME CatalogInv, EditOffer PROVE CatalogInv'
<1>1. PICK s \in Edited(seller) : seller' = s
  BY DEF EditOffer
<1>2. /\ seller' \in Sellers /\ ByEdits(seller')
      /\ NotNewer(seller.tariff, seller'.tariff) /\ NotNewer(seller.period, seller'.period)
      /\ NotNewer(seller.service, seller'.service)
  BY <1>1, EditedFacts DEF CatalogInv, CatalogTypes
<1>3. UNCHANGED <<today, preview>> /\ DOMAIN stood' = Previews
  BY DEF EditOffer
<1>4. ASSUME NEW p \in Previews PROVE (TakenEarlier(p) /\ FirstStoodOrMixed(p) /\ Recorded(p) /\ Empty(p))'
  <2>0. preview[p] \in Requests /\ seller \in Sellers
    BY DEF CatalogInv, CatalogTypes
  <2>1. stood[p] \subseteq stood'[p]
    BY <1>3 DEF EditOffer
  <2>2. preview[p].pc \in OfferReads => Amounts(seller', preview[p].day) \subseteq stood'[p]
    BY <1>1, <1>3 DEF EditOffer, Reading
  <2>3. TakenEarlier(p)'
    BY <1>2, <1>3, <2>0 DEF CatalogInv, TakenEarlier, NotNewer, Requests, Sellers, SourceRecord
  <2>4. \A o \in preview[p].first : Mixed(o, p) => Mixed(o, p)'
    BY <1>2, <1>3, <2>0 DEF Mixed, NotNewer, Requests, Sellers, SourceRecord
  <2> QED
    BY <1>3, <2>1, <2>2, <2>3, <2>4 DEF CatalogInv, FirstStoodOrMixed, Recorded, Empty
<1> QED
  BY <1>2, <1>3, <1>4 DEF CatalogInv, CatalogTypes, ByEdits

\* Kernel and calendar touch no offer.
LEMMA AsideStep ==
    ASSUME CatalogInv, UNCHANGED <<seller, preview, stood>>, today' \in Nat PROVE CatalogInv'
  BY DEF CatalogInv, CatalogTypes, ByEdits, TakenEarlier, FirstStoodOrMixed, Mixed, Recorded, Empty, Amounts

LEMMA CatalogInvariant == CatalogSpec => []CatalogInv
<1>1. CatalogInit => CatalogInv
  <2> SUFFICES ASSUME CatalogInit PROVE CatalogInv
    OBVIOUS
  <2>1. [id |-> 0, start |-> 0, amount |-> 0] \in PriceRecord
    BY DEF PriceRecord
  <2>2. seller \in Sellers /\ ByEdits(seller)
    BY <2>1, Records DEF CatalogInit, Sellers, ByEdits, Sold
  <2>3. CatalogTypes
    BY <2>2, Records DEF CatalogInit, CatalogTypes
  <2>4. ASSUME NEW p \in Previews PROVE TakenEarlier(p) /\ FirstStoodOrMixed(p) /\ Recorded(p) /\ Empty(p)
    BY DEF CatalogInit, NewPreview, TakenEarlier, FirstStoodOrMixed, Recorded, Empty, HasTariff, HasPeriod, OfferReads
  <2> QED
    BY <2>2, <2>3, <2>4 DEF CatalogInv
<1>2. CatalogInv /\ [CatalogNext]_catalogVars => CatalogInv'
  <2> SUFFICES ASSUME CatalogInv, [CatalogNext]_catalogVars PROVE CatalogInv'
    OBVIOUS
  <2>1. ASSUME NEW p \in Previews, PreviewNext(p) PROVE CatalogInv'
    <3>1. CASE PreviewFails(p)
      BY <3>1, Ended DEF PreviewFails, Results
    <3> QED
      BY <2>1, <3>1, EnquireStep, FetchStep, LinkStep, TariffStep, PeriodStep, ServiceStep, PriceStep DEF PreviewNext
  <2>2. CASE Release
    BY <2>2, AsideStep DEF Release, CatalogInv, CatalogTypes
  <2>3. CASE Midnight
    BY <2>3, AsideStep DEF Midnight, CatalogInv, CatalogTypes
  <2>4. CASE UNCHANGED catalogVars
    BY <2>4, AsideStep DEF catalogVars, CatalogInv, CatalogTypes
  <2> QED
    BY <2>1, <2>2, <2>3, <2>4, EditStep DEF CatalogNext
<1> QED
  BY <1>1, <1>2, PTL DEF CatalogSpec

\* An offer that is shown was the seller's at one moment of its request.
THEOREM OffersStood == CatalogSpec => []OfferStood
<1>1. CatalogInv => OfferStood
  BY DEF CatalogInv, OfferStood, Empty
<1> QED
  BY <1>1, CatalogInvariant, PTL

-----------------------------------------------------------------------------
(* Revisions of a mapping: whoever is about to insert one, or has sent a     *)
(* COMMIT that is undecided, still has the lock of the scope, so what he     *)
(* compared with the earlier revisions is still true when his row appears.   *)

\* Terms that apply on the day.
InForce(terms, day) ==
    terms.price.start <= day /\ day < terms.until /\ Configured(terms.policy, day)

Numbered == \E n \in Nat : {r.number : r \in revisions} = 1..n

\* A row may be the next one.
IsNext(number, document) == number = LatestNumber + 1 /\ \A doc \in document : Approved(doc)

RowStands(r) == \A doc \in r.document : InForce(doc.terms, r.published)

NoRowOf(p) == \A r \in revisions \cup unsettled : r.by # p

IsReported(c) == \E r \in revisions : r.number = c.number /\ r.document = c.document

\* The lease lies within the day of the command and within what was proven.
LeaseStands(c, doc) ==
    InForce(doc.terms, c.day) /\ c.lease <= c.day + 1 /\ c.lease <= doc.terms.until
    /\ c.lease <= doc.terms.policy.until

CommandStands(p) ==
    LET c == command[p] IN
    /\ c.day <= today
    /\ c.pc = "idle" => c.read = {} /\ c.document = {}
    /\ \A terms \in c.read : InForce(terms, c.day)
    /\ c.pc # "ended" => c.result = "none" /\ \A doc \in c.document : LeaseStands(c, doc)
    /\ c.pc \in Holding => holder = p
    /\ c.pc \in {"append", "commit"} => IsNext(c.number, c.document)
    /\ c.pc = "commit" => c.day <= c.published /\ c.published <= today
    /\ c.pc \notin {"recover", "ended"} \/ c.result \in {"refused", "existing"} => NoRowOf(p)
    /\ c.result \in Known => IsReported(c)

UnsettledStands ==
    /\ \A r \in unsettled : /\ r.by \in Publishers /\ r.by = holder
                            /\ RowStands(r) /\ IsNext(r.number, r.document)
    /\ \A r, s \in unsettled : r = s

RevisionsStand == Numbered /\ RevisionsAreSound

MappingInv ==
    /\ MappingTypeOK
    /\ today \in 0..MaxToday
    /\ RevisionsStand /\ UnsettledStands
    /\ \A p \in Publishers : CommandStands(p)

-----------------------------------------------------------------------------
(* The selected offer *)

\* What is selected applies on the day, and until a later one.
LEMMA SelectedFacts ==
    ASSUME NEW s \in Sellers, NEW inline, NEW policy \in Policies, NEW day \in 0..MaxToday,
           NEW t \in Selected(s, inline, policy, day)
    PROVE  t \in Terms /\ InForce(t, day)
<1> DEFINE price == PriceOf(s.prices, day)
<1>1. /\ Configured(policy, day) /\ InlineAgrees(inline, s.prices, day)
      /\ t \in TermsOf(s, policy, day)
  BY DEF Selected
<1>2. s.prices \subseteq PriceRecord /\ day \in Nat /\ policy \in Policy
  BY CatalogAssumption, MappingAssumption DEF Sellers
<1>3. Applicable(s.prices, day) # {}
  <2> SUFFICES ASSUME Applicable(s.prices, day) = {} PROVE FALSE
    OBVIOUS
  <2>1. Cardinality({}) = 0
    BY FS_EmptySet
  <2> QED
    BY <1>1, <2>1 DEF InlineAgrees, IsPriced
<1>4. price \in Applicable(s.prices, day)
  BY <1>3 DEF PriceOf
<1>5. /\ price \in PriceRecord /\ price.start \in Int /\ price.start <= day
      /\ \A q \in s.prices : q.start <= day => q.start <= price.start
  BY <1>2, <1>4 DEF Applicable, Started, PriceRecord
<1> HIDE DEF price
<1>6. PICK end \in EndsOf(s.prices, price) :
         t = [tariff |-> s.tariff.terms, period |-> s.period.terms, service |-> s.service.terms,
              price |-> price, until |-> end, policy |-> policy]
  BY <1>1 DEF TermsOf, price
<1>7. end \in Int /\ day < end
  <2>1. CASE end = Never
    BY <2>1, CatalogAssumption DEF Never
  <2>2. ASSUME NEW q \in s.prices, q.start > price.start, end = q.start PROVE end \in Int /\ day < end
    <3>1. q.start \in Int
      BY <1>2 DEF PriceRecord
    <3> QED
      BY <1>2, <1>5, <2>2, <3>1
  <2> QED
    BY <2>1, <2>2 DEF EndsOf, LaterStarts
<1>8. s.tariff.terms \in Nat /\ s.period.terms \in Nat /\ s.service.terms \in Nat
  BY DEF Sellers, SourceRecord
<1>9. t \in Terms
  BY <1>2, <1>5, <1>6, <1>7, <1>8 DEF Terms
<1>10. t.price = price /\ t.until = end /\ t.policy = policy
  BY <1>6
<1> QED
  BY <1>1, <1>5, <1>7, <1>9, <1>10 DEF InForce

\* The lease ends with the first of the three.
LEMMA LeaseFacts ==
    ASSUME NEW t \in Terms, NEW day \in Nat, InForce(t, day)
    PROVE  LET end == LeaseEnds(t, day) IN
           end \in Nat /\ end <= day + 1 /\ end <= t.until /\ end <= t.policy.until
<1> DEFINE Firsts == {d \in {day + 1, t.until, t.policy.until} :
                         d <= day + 1 /\ d <= t.until /\ d <= t.policy.until}
<1>1. t.until \in Int /\ t.policy.until \in Nat /\ day < t.until /\ day < t.policy.until
  BY DEF Terms, Policy, InForce, Configured
<1>2. Firsts # {}
  BY <1>1
<1>3. LeaseEnds(t, day) \in Firsts
  <2>1. LeaseEnds(t, day) = CHOOSE d \in Firsts : TRUE
    BY DEF LeaseEnds
  <2> QED
    BY <1>2
    DEF LeaseEnds
<1> QED
  BY <1>1, <1>3

LEMMA LatestFacts ==
    ASSUME Numbered, revisions \in SUBSET Row
    PROVE  /\ LatestNumber \in Nat /\ {r.number : r \in revisions} = 1..LatestNumber
           /\ \A r \in revisions : r.number \in 1..LatestNumber
<1>1. PICK n \in Nat : {r.number : r \in revisions} = 1..n
  BY DEF Numbered
<1> DEFINE Greatest(m) == m \in {r.number : r \in revisions} \cup {0} /\ \A r \in revisions : r.number <= m
<1>2. \A r \in revisions : r.number \in 1..n
  BY <1>1
<1>3. Greatest(n)
  <2>1. CASE n = 0
    BY <1>1, <1>2, <2>1
  <2>2. CASE n # 0
    BY <1>1, <1>2, <2>2
  <2> QED
    BY <2>1, <2>2
<1>4. ASSUME NEW m, Greatest(m) PROVE m = n
  <2>1. m \in 0..n
    BY <1>1, <1>4
  <2>2. CASE n = 0
    BY <2>1, <2>2
  <2>3. CASE n # 0
    <3>1. PICK r \in revisions : r.number = n
      BY <1>1, <2>3
    <3> QED
      BY <1>4, <2>1, <3>1
  <2> QED
    BY <2>2, <2>3
<1>5. LatestNumber = n
  BY <1>3, <1>4 DEF LatestNumber
<1> QED
  BY <1>1, <1>2, <1>5

-----------------------------------------------------------------------------
(* The invariant *)

\* A new row under the next number takes nothing from the earlier ones.
LEMMA NextRow ==
    ASSUME RevisionsStand, revisions \in SUBSET Row, NEW row \in Row, RowStands(row),
           IsNext(row.number, row.document), revisions' = revisions \cup {row}
    PROVE  RevisionsStand'
<1>1. /\ LatestNumber \in Nat /\ {r.number : r \in revisions} = 1..LatestNumber
      /\ \A r \in revisions : r.number \in 1..LatestNumber
  BY LatestFacts DEF RevisionsStand
<1>2. row.number = LatestNumber + 1 /\ \A doc \in row.document : Approved(doc)
  BY DEF IsNext
<1> DEFINE n == LatestNumber
<1>3. n \in Nat /\ {r.number : r \in revisions} = 1..n /\ row.number = n + 1
      /\ \A r \in revisions : r.number \in 1..n
  BY <1>1, <1>2
<1> HIDE DEF n
<1>4. Numbered'
  <2>1. {r.number : r \in revisions'} = {r.number : r \in revisions} \cup {row.number}
    OBVIOUS
  <2>2. (1..n) \cup {n + 1} = 1..(n + 1)
    BY <1>3
  <2>3. n + 1 \in Nat /\ {r.number : r \in revisions'} = 1..(n + 1)
    BY <1>3, <2>1, <2>2
  <2> QED
    BY <2>3 DEF Numbered
<1>5. PublishedInForce'
  <2>1. \A r \in revisions : r.number # row.number
    BY <1>3
  <2> QED
    BY <2>1 DEF RevisionsStand, RevisionsAreSound, PublishedInForce, RowStands, InForce
<1>6. ApprovalsPin'
  <2> SUFFICES ASSUME NEW r \in revisions', NEW s \in revisions', r.number < s.number,
                      NEW old \in r.document, NEW doc \in s.document
               PROVE  Replaces(doc, old)
    BY DEF ApprovalsPin
  <2>1. CASE r \in revisions /\ s \in revisions
    BY <2>1 DEF RevisionsStand, RevisionsAreSound, ApprovalsPin
  <2>2. CASE r \in revisions /\ s = row
    BY <1>2, <2>2 DEF Approved
  <2>3. CASE r = row
    <3>1. s = row \/ s.number \in 1..n
      BY <1>3
    <3> QED
      BY <1>3, <2>3, <3>1
  <2> QED
    BY <2>1, <2>2, <2>3
<1> QED
  BY <1>4, <1>5, <1>6 DEF RevisionsStand, RevisionsAreSound

\* Command p goes on and may take or leave the lock; nothing is written.
Proceeds(p, c) ==
    /\ Turns(p, c) /\ c \in Command
    /\ holder' \in {holder, p, Free}
    /\ holder' # holder => unsettled = {} /\ holder \in {p, Free}
    /\ UNCHANGED <<catalogVars, revisions, unsettled>>

LEMMA ProceedsKeeps ==
    ASSUME MappingInv, NEW p \in Publishers, NEW c, Proceeds(p, c), CommandStands(p)'
    PROVE  MappingInv'
<1>1. /\ command \in [Publishers -> Command] /\ command' = [command EXCEPT ![p] = c]
      /\ c \in Command /\ holder \in Publishers \cup {Free}
  BY DEF MappingInv, MappingTypeOK, Proceeds, Turns
<1>2. MappingTypeOK'
  BY <1>1 DEF MappingInv, MappingTypeOK, Proceeds
<1>3. today' \in 0..MaxToday
  BY DEF MappingInv, Proceeds, catalogVars
<1>4. RevisionsStand'
  BY DEF MappingInv, Proceeds, RevisionsStand, Numbered, RevisionsAreSound, PublishedInForce, ApprovalsPin
<1>5. UnsettledStands'
  BY DEF MappingInv, Proceeds, UnsettledStands, IsNext, LatestNumber, Approved, RowStands
<1>6. ASSUME NEW q \in Publishers, q # p PROVE CommandStands(q)'
  <2>1. command'[q] = command[q] /\ UNCHANGED <<revisions, unsettled, today>>
    BY <1>1, <1>6 DEF Proceeds, catalogVars
  <2>2. holder = q => holder' = q
    BY <1>6, MappingAssumption DEF Proceeds
  <2>3. CommandStands(q)
    BY DEF MappingInv
  <2> QED
    BY <2>1, <2>2, <2>3 DEF CommandStands, IsNext, LatestNumber, Approved, NoRowOf, IsReported
<1> QED
  BY <1>2, <1>3, <1>4, <1>5, <1>6 DEF MappingInv

LEMMA NewCommandFacts ==
    /\ NewCommand \in Command /\ NewCommand.pc = "idle" /\ NewCommand.day = 0 /\ NewCommand.result = "none"
    /\ NewCommand.read = {} /\ NewCommand.document = {}
<1>1. (CHOOSE policy \in Policies : TRUE) \in Policies
  BY MappingAssumption
<1> QED
  BY <1>1 DEF NewCommand, Command, Places, Reports, Known

LEMMA ReportedFacts ==
    ASSUME NEW c \in Command, NEW result \in Reports \ {"none"}
    PROVE  LET t == Reported(c, result) IN
           /\ t \in Command /\ t.pc = "ended" /\ t.result = result /\ t.day = 0 /\ t.read = {}
           /\ result \in Known => t.number = c.number /\ t.document = c.document
<1> DEFINE n == IF result \in Known THEN c.number ELSE 0
           d == IF result \in Known THEN c.document ELSE {}
<1>1. n \in Nat /\ d \in SUBSET Document
  BY DEF Command
<1>2. result \in Known => n = c.number /\ d = c.document
  OBVIOUS
<1> HIDE DEF n, d
<1> DEFINE t == [NewCommand EXCEPT !.pc = "ended", !.result = result, !.number = n, !.document = d]
<1>3. Reported(c, result) = t
  BY DEF Reported, n, d
<1>4. NewCommand \in Command /\ "ended" \in Places /\ result \in Reports
  BY NewCommandFacts DEF Places
<1> HIDE DEF NewCommand
<1>5. t \in Command /\ t.pc = "ended" /\ t.result = result /\ t.number = n /\ t.document = d
      /\ t.day = NewCommand.day /\ t.read = NewCommand.read
  BY <1>1, <1>4 DEF Command
<1> HIDE DEF t
<1> QED
  BY <1>2, <1>3, <1>5, NewCommandFacts

\* A command that is told of nothing it published.
LEMMA ReportedStands ==
    ASSUME MappingInv, NEW p \in Publishers, NEW result \in Reports \ {"none"}, NEW c \in Command,
           Turns(p, Reported(c, result)), UNCHANGED <<today, revisions, unsettled>>,
           result \in {"refused", "existing"} => NoRowOf(p),
           result \in Known => IsReported(c)
    PROVE  CommandStands(p)' /\ Reported(c, result) \in Command
<1> DEFINE t == Reported(c, result)
<1>1. /\ t \in Command /\ t.pc = "ended" /\ t.result = result /\ t.day = 0 /\ t.read = {}
      /\ result \in Known => t.number = c.number /\ t.document = c.document
  BY ReportedFacts
<1>2. command'[p] = t
  BY DEF Turns, MappingInv, MappingTypeOK
<1>3. 0 <= today
  BY CatalogAssumption DEF MappingInv
<1> HIDE DEF t
<1> QED
  BY <1>1, <1>2, <1>3 DEF CommandStands, Holding, NoRowOf, IsReported, t

\* Before it has sent its COMMIT a command has no row, and with the lock it is alone.
LEMMA HolderIsAlone ==
    ASSUME MappingInv, NEW p \in Publishers
    PROVE  /\ command[p] \in Command /\ CommandStands(p)
           /\ command[p].pc \notin {"recover", "ended"} => NoRowOf(p)
           /\ command[p].pc \in Holding => holder = p /\ unsettled = {}
           /\ holder = p /\ command[p].pc \notin {"recover", "ended"} => unsettled = {}
           /\ holder = Free => unsettled = {}
<1>1. command[p] \in Command /\ CommandStands(p)
  BY DEF MappingInv, MappingTypeOK
<1>2. command[p].pc \notin {"recover", "ended"} => NoRowOf(p)
  BY <1>1 DEF CommandStands
<1>3. command[p].pc \in Holding => holder = p
  BY <1>1 DEF CommandStands
<1>4. \A r \in unsettled : r.by = holder /\ r.by # Free
  BY MappingAssumption DEF MappingInv, UnsettledStands
<1> QED
  BY <1>1, <1>2, <1>3, <1>4 DEF NoRowOf, Holding

LEMMA CommandBegins == ASSUME MappingInv, NEW p \in Publishers, BeginCommand(p), UNCHANGED catalogVars PROVE MappingInv'
<1>1. PICK policy \in Policies :
         Turns(p, [command[p] EXCEPT !.pc = "first", !.day = today, !.policy = policy])
  BY DEF BeginCommand
<1> DEFINE t == [command[p] EXCEPT !.pc = "first", !.day = today, !.policy = policy]
<1>2. command[p] \in Command /\ CommandStands(p) /\ NoRowOf(p) /\ command[p].pc = "idle" /\ today \in Nat
  BY HolderIsAlone, CatalogAssumption DEF BeginCommand, MappingInv
<1>3. /\ t \in Command /\ t.pc = "first" /\ t.day = today /\ t.read = command[p].read
      /\ t.document = command[p].document /\ t.result = command[p].result
  BY <1>2 DEF Command, Places
<1> HIDE DEF t
<1>4. Turns(p, t) /\ UNCHANGED <<revisions, holder, unsettled>>
  BY <1>1 DEF t, BeginCommand, Outside
<1>5. command'[p] = t
  BY <1>4 DEF Turns, MappingInv, MappingTypeOK
<1>6. CommandStands(p)'
  BY <1>2, <1>3, <1>4, <1>5 DEF CommandStands, Holding, Known, NoRowOf, catalogVars
<1> QED
  BY <1>3, <1>4, <1>6, ProceedsKeeps DEF Proceeds

LEMMA RefusedEarly ==
    ASSUME MappingInv, NEW p \in Publishers, command[p].pc \notin {"idle", "recover", "ended"},
           Turns(p, Reported(command[p], "refused")),
           holder' = IF holder = p THEN Free ELSE holder,
           UNCHANGED <<catalogVars, revisions, unsettled>>
    PROVE  MappingInv'
<1>1. "refused" \in Reports \ {"none"} /\ "refused" \notin Known
  BY DEF Reports, Known
<1>2. command[p] \in Command /\ NoRowOf(p) /\ (holder = p => unsettled = {})
  BY HolderIsAlone
<1>3. CommandStands(p)' /\ Reported(command[p], "refused") \in Command
  BY <1>1, <1>2, ReportedStands DEF catalogVars
<1> QED
  BY <1>2, <1>3, ProceedsKeeps DEF Proceeds

LEMMA OfferIsRead ==
    ASSUME MappingInv, CatalogInv, NEW p \in Publishers, ReadOffer(p), UNCHANGED catalogVars PROVE MappingInv'
<1> DEFINE c == command[p]
<1>1. c \in Command /\ CommandStands(p) /\ NoRowOf(p) /\ c.pc \in {"first", "second"}
      /\ UNCHANGED <<revisions, holder, unsettled>>
  BY HolderIsAlone DEF ReadOffer, Outside
<1>2. PICK offers \in Sets(p) :
         Turns(p, IF offers = {} \/ (c.pc = "second" /\ offers # c.read) THEN Reported(c, "refused")
                  ELSE [c EXCEPT !.pc = IF @ = "first" THEN "second" ELSE "evaluate", !.read = offers])
  BY DEF ReadOffer
<1>3. \A terms \in offers : terms \in Terms /\ InForce(terms, c.day)
  <2>1. PICK inline : offers = Selected(seller, inline, c.policy, c.day)
    BY <1>2 DEF Sets
  <2>2. seller \in Sellers /\ c.policy \in Policies /\ c.day \in 0..MaxToday
    BY <1>1, CatalogAssumption DEF CatalogInv, CatalogTypes, Command, MappingInv, CommandStands
  <2> HIDE DEF c
  <2> QED
    BY <2>1, <2>2, SelectedFacts
<1>4. CASE Turns(p, Reported(c, "refused"))
  <2>1. "refused" \in Reports \ {"none"} /\ "refused" \notin Known
    BY DEF Reports, Known
  <2>2. CommandStands(p)' /\ Reported(c, "refused") \in Command
    BY <1>1, <1>4, <2>1, ReportedStands DEF catalogVars
  <2> QED
    BY <1>1, <1>4, <2>2, ProceedsKeeps DEF Proceeds
<1>5. ASSUME NEW pc \in {"second", "evaluate"}, Turns(p, [c EXCEPT !.pc = pc, !.read = offers])
      PROVE  MappingInv'
  <2> DEFINE t == [c EXCEPT !.pc = pc, !.read = offers]
  <2>1. /\ t \in Command /\ t.pc = pc /\ t.day = c.day /\ t.read = offers /\ t.document = c.document
        /\ t.lease = c.lease /\ t.result = c.result
    BY <1>1, <1>3 DEF Command, Places
  <2> HIDE DEF t
  <2>2. Turns(p, t)
    BY <1>5 DEF t
  <2>3. command'[p] = t
    BY <2>2 DEF Turns, MappingInv, MappingTypeOK
  <2>4. CommandStands(p)'
    BY <1>1, <1>3, <2>1, <2>3 DEF CommandStands, LeaseStands, Holding, Known, NoRowOf, catalogVars
  <2> QED
    BY <1>1, <2>1, <2>2, <2>4, ProceedsKeeps DEF Proceeds
<1>6. CASE Turns(p, [c EXCEPT !.pc = IF @ = "first" THEN "second" ELSE "evaluate", !.read = offers])
  <2>1. PICK pc \in {"second", "evaluate"} : pc = IF c.pc = "first" THEN "second" ELSE "evaluate"
    OBVIOUS
  <2>2. [c EXCEPT !.pc = IF @ = "first" THEN "second" ELSE "evaluate", !.read = offers]
        = [c EXCEPT !.pc = pc, !.read = offers]
    BY <1>1, <2>1 DEF Command
  <2> QED
    BY <1>5, <1>6, <2>2
<1> QED
  BY <1>2, <1>4, <1>6

LEMMA IsEvaluated ==
    ASSUME MappingInv, NEW p \in Publishers, Evaluate(p), UNCHANGED catalogVars PROVE MappingInv'
<1> DEFINE c == command[p]
<1>1. c \in Command /\ CommandStands(p) /\ NoRowOf(p) /\ c.pc = "evaluate"
      /\ UNCHANGED <<revisions, holder, unsettled>>
  BY HolderIsAlone DEF Evaluate, Outside
<1>2. PICK technical \in Technicals, approvals \in Approvals, terms \in c.read :
         Turns(p, [c EXCEPT !.pc = "publish", !.read = {}, !.lease = LeaseEnds(terms, c.day),
                            !.document = {[terms |-> terms, technical |-> technical, approvals |-> approvals]}])
  BY DEF Evaluate
<1> DEFINE end == LeaseEnds(terms, c.day)
           doc == [terms |-> terms, technical |-> technical, approvals |-> approvals]
           t == [c EXCEPT !.pc = "publish", !.read = {}, !.lease = end, !.document = {doc}]
<1>3. terms \in Terms /\ InForce(terms, c.day) /\ c.day \in Nat
  BY <1>1, <1>2 DEF Command, CommandStands
<1>4. end \in Nat /\ end <= c.day + 1 /\ end <= terms.until /\ end <= terms.policy.until
  BY <1>3, LeaseFacts
<1>5. doc \in Document /\ doc.terms = terms
  BY <1>3, MappingAssumption DEF Document
<1> HIDE DEF end, doc
<1>6. /\ t \in Command /\ t.pc = "publish" /\ t.day = c.day /\ t.read = {} /\ t.document = {doc}
      /\ t.lease = end /\ t.result = c.result
  BY <1>1, <1>4, <1>5 DEF Command, Places
<1>7. Turns(p, t)
  BY <1>2 DEF end, doc
<1> HIDE DEF t
<1>8. command'[p] = t
  BY <1>7 DEF Turns, MappingInv, MappingTypeOK
<1>9. CommandStands(p)'
  BY <1>1, <1>3, <1>4, <1>5, <1>6, <1>8 DEF CommandStands, LeaseStands, Holding, Known, NoRowOf, catalogVars
<1> QED
  BY <1>1, <1>6, <1>7, <1>9, ProceedsKeeps DEF Proceeds

LEMMA LockIsTaken == ASSUME MappingInv, NEW p \in Publishers, Lock(p), UNCHANGED catalogVars PROVE MappingInv'
<1> DEFINE c == command[p]
           t == [c EXCEPT !.pc = "locked"]
<1>1. c \in Command /\ CommandStands(p) /\ NoRowOf(p) /\ unsettled = {} /\ c.pc = "publish"
      /\ holder = Free /\ holder' = p /\ UNCHANGED <<revisions, unsettled>> /\ Turns(p, t)
  BY HolderIsAlone DEF Lock
<1>2. /\ t \in Command /\ t.pc = "locked" /\ t.day = c.day /\ t.read = c.read /\ t.document = c.document
      /\ t.lease = c.lease /\ t.result = c.result
  BY <1>1 DEF Command, Places
<1> HIDE DEF t
<1>3. command'[p] = t
  BY <1>1 DEF Turns, MappingInv, MappingTypeOK
<1>4. CommandStands(p)'
  BY <1>1, <1>2, <1>3 DEF CommandStands, LeaseStands, Holding, Known, NoRowOf, catalogVars
<1> QED
  BY <1>1, <1>2, <1>4, ProceedsKeeps DEF Proceeds

LEMMA IsDecided == ASSUME MappingInv, NEW p \in Publishers, Decide(p), UNCHANGED catalogVars PROVE MappingInv'
<1> DEFINE c == command[p]
           n == LatestNumber
<1>1. c \in Command /\ CommandStands(p) /\ NoRowOf(p) /\ unsettled = {} /\ holder = p /\ c.pc = "locked"
      /\ UNCHANGED <<revisions, unsettled>>
  BY HolderIsAlone DEF Decide, Holding
<1>2. n \in Nat /\ n + 1 \in Nat
  BY LatestFacts DEF MappingInv, RevisionsStand, MappingTypeOK
<1>3. CASE /\ \E r \in Latest : r.document = c.document
           /\ Turns(p, Reported([c EXCEPT !.number = LatestNumber], "existing")) /\ holder' = Free
  <2> DEFINE d == [c EXCEPT !.number = n]
  <2>1. d \in Command /\ d.number = n /\ d.document = c.document
    BY <1>1, <1>2 DEF Command
  <2>2. Turns(p, Reported(d, "existing"))
    BY <1>3
  <2> HIDE DEF d
  <2>3. "existing" \in Reports \ {"none"} /\ IsReported(d)
    BY <1>3, <2>1 DEF Reports, Known, IsReported, Latest
  <2>4. CommandStands(p)' /\ Reported(d, "existing") \in Command
    BY <1>1, <2>1, <2>2, <2>3, ReportedStands DEF catalogVars
  <2> QED
    BY <1>1, <1>3, <2>2, <2>4, ProceedsKeeps DEF Proceeds
<1>4. CASE /\ \A doc \in c.document : Approved(doc)
           /\ Turns(p, [c EXCEPT !.pc = "append", !.number = LatestNumber + 1]) /\ UNCHANGED holder
  <2> DEFINE t == [c EXCEPT !.pc = "append", !.number = n + 1]
  <2>1. Turns(p, t)
    BY <1>4
  <2> HIDE DEF n
  <2>2. /\ t \in Command /\ t.pc = "append" /\ t.day = c.day /\ t.read = c.read /\ t.document = c.document
        /\ t.lease = c.lease /\ t.result = c.result /\ t.number = n + 1
    BY <1>1, <1>2 DEF Command, Places
  <2> HIDE DEF t
  <2>3. command'[p] = t
    BY <2>1 DEF Turns, MappingInv, MappingTypeOK
  <2>4. IsNext(command[p].number, command[p].document)'
    BY <1>1, <1>4, <2>2, <2>3 DEF IsNext, n, LatestNumber, Approved
  <2>5. CommandStands(p)'
    BY <1>1, <1>4, <2>2, <2>3, <2>4 DEF CommandStands, LeaseStands, Holding, Known, NoRowOf, catalogVars
  <2> QED
    BY <1>1, <1>4, <2>1, <2>2, <2>5, ProceedsKeeps DEF Proceeds
<1> QED
  BY <1>3, <1>4 DEF Decide

LEMMA RowIsAppended ==
    ASSUME MappingInv, NEW p \in Publishers, AppendRow(p), UNCHANGED catalogVars PROVE MappingInv'
<1> DEFINE c == command[p]
           t == [c EXCEPT !.pc = "commit", !.published = today]
<1>1. c \in Command /\ CommandStands(p) /\ NoRowOf(p) /\ c.pc = "append" /\ today \in Nat
      /\ UNCHANGED <<revisions, holder, unsettled>> /\ Turns(p, t)
  BY HolderIsAlone, CatalogAssumption DEF AppendRow, MappingInv
<1>2. /\ t \in Command /\ t.pc = "commit" /\ t.day = c.day /\ t.read = c.read /\ t.document = c.document
      /\ t.lease = c.lease /\ t.result = c.result /\ t.number = c.number /\ t.published = today
  BY <1>1 DEF Command, Places
<1> HIDE DEF t
<1>3. command'[p] = t
  BY <1>1 DEF Turns, MappingInv, MappingTypeOK
<1>4. IsNext(command[p].number, command[p].document)'
  BY <1>1, <1>2, <1>3 DEF CommandStands, IsNext, LatestNumber, Approved
<1>5. CommandStands(p)'
  BY <1>1, <1>2, <1>3, <1>4 DEF CommandStands, LeaseStands, Holding, Known, NoRowOf, catalogVars
<1> QED
  BY <1>1, <1>2, <1>5, ProceedsKeeps DEF Proceeds

LEMMA IsRecovered ==
    ASSUME MappingInv, NEW p \in Publishers, Recover(p), UNCHANGED catalogVars PROVE MappingInv'
<1>1. command[p] \in Command /\ UNCHANGED <<revisions, holder, unsettled>>
  BY HolderIsAlone DEF Recover, Outside
<1>2. PICK result \in {"recovered", "uncertain"} :
         Turns(p, Reported(command[p], result)) /\ (result = "recovered" => Recovers(command[p]))
  BY DEF Recover
<1>3. result \in Reports \ {"none"} /\ result \notin {"refused", "existing"}
      /\ (result \in Known => IsReported(command[p]))
  BY <1>2 DEF Reports, Known, Recovers, IsReported
<1>4. CommandStands(p)' /\ Reported(command[p], result) \in Command
  BY <1>1, <1>2, <1>3, ReportedStands DEF catalogVars
<1> QED
  BY <1>1, <1>2, <1>4, ProceedsKeeps DEF Proceeds

-----------------------------------------------------------------------------
\* The table grows, or a midnight passes, while command q does nothing.
LEMMA OthersStand ==
    ASSUME MappingInv, NEW q \in Publishers, command'[q] = command[q], command[q].pc \notin Holding,
           revisions \subseteq revisions', NoRowOf(q) => NoRowOf(q)', UNCHANGED today
    PROVE  CommandStands(q)'
<1>1. CommandStands(q)
  BY DEF MappingInv
<1> QED
  BY <1>1 DEF CommandStands, Holding, IsReported

LEMMA CommitStep == ASSUME MappingInv, NEW p \in Publishers, Commit(p), UNCHANGED catalogVars PROVE MappingInv'
<1> DEFINE c == command[p]
           row == RowOf(p)
<1>1. c \in Command /\ CommandStands(p) /\ NoRowOf(p) /\ unsettled = {} /\ holder = p /\ c.pc = "commit"
      /\ today < c.lease /\ UNCHANGED today /\ today \in Nat
  BY HolderIsAlone, CatalogAssumption DEF Commit, Holding, InWindow, catalogVars, MappingInv
<1>2. /\ row \in Row /\ row.by = p /\ row.number = c.number /\ row.document = c.document
      /\ row.published = c.published
  BY <1>1 DEF RowOf, Row, Command
<1>3. RowStands(row)
  <2> SUFFICES ASSUME NEW doc \in c.document PROVE InForce(doc.terms, c.published)
    BY <1>2 DEF RowStands
  <2>1. LeaseStands(c, doc) /\ c.day <= c.published /\ c.published <= today
    BY <1>1 DEF CommandStands
  <2>2. /\ doc.terms \in Terms /\ c.day \in Nat /\ c.published \in Nat /\ c.lease \in Nat
    BY <1>1 DEF Command, Document
  <2>3. /\ doc.terms.price.start \in Int /\ doc.terms.until \in Int
        /\ doc.terms.policy.from \in Nat /\ doc.terms.policy.until \in Nat
    BY <2>2 DEF Terms, PriceRecord, Policy
  <2> HIDE DEF c
  <2> QED
    BY <1>1, <2>1, <2>2, <2>3 DEF LeaseStands, InForce, Configured
<1>4. IsNext(row.number, row.document)
  BY <1>1, <1>2 DEF CommandStands
<1>5. revisions \in SUBSET Row /\ RevisionsStand /\ command \in [Publishers -> Command]
  BY DEF MappingInv, MappingTypeOK
<1> HIDE DEF row
<1>6. ASSUME NEW q \in Publishers, q # p, command'[q] = command[q], revisions \subseteq revisions',
             revisions' \cup unsettled' = revisions \cup {row}
      PROVE  CommandStands(q)'
  <2>1. command[q].pc \notin Holding
    BY <1>1, <1>6, HolderIsAlone
  <2>2. NoRowOf(q) => NoRowOf(q)'
    BY <1>1, <1>2, <1>6 DEF NoRowOf
  <2> QED
    BY <1>1, <1>6, <2>1, <2>2, OthersStand
<1>7. CASE /\ revisions' = revisions \cup {row} /\ holder' = Free
           /\ Turns(p, Reported(c, "inserted")) /\ UNCHANGED unsettled
  <2> DEFINE t == Reported(c, "inserted")
  <2>1. /\ t \in Command /\ t.pc = "ended" /\ t.result = "inserted" /\ t.day = 0 /\ t.read = {}
        /\ t.number = c.number /\ t.document = c.document
    BY <1>1, ReportedFacts DEF Reports, Known
  <2>2. Turns(p, t)
    BY <1>7
  <2> HIDE DEF t
  <2>3. command'[p] = t /\ \A q \in Publishers : q # p => command'[q] = command[q]
    BY <1>5, <2>2 DEF Turns
  <2>4. MappingTypeOK'
    BY <1>1, <1>2, <1>5, <1>7, <2>1, <2>2 DEF MappingTypeOK, Turns
  <2>5. RevisionsStand'
    BY <1>2, <1>3, <1>4, <1>5, <1>7, NextRow
  <2>6. UnsettledStands'
    BY <1>1, <1>7 DEF UnsettledStands
  <2>7. CommandStands(p)'
    BY <1>1, <1>2, <1>7, <2>1, <2>3, CatalogAssumption DEF CommandStands, Holding, IsReported, MappingInv
  <2>8. \A q \in Publishers : q # p => CommandStands(q)'
    BY <1>1, <1>6, <1>7, <2>3
  <2> QED
    BY <1>1, <2>4, <2>5, <2>6, <2>7, <2>8 DEF MappingInv
<1>8. CASE /\ unsettled' = unsettled \cup {row} /\ Turns(p, [c EXCEPT !.pc = "recover"])
           /\ UNCHANGED <<revisions, holder>>
  <2> DEFINE t == [c EXCEPT !.pc = "recover"]
  <2>1. /\ t \in Command /\ t.pc = "recover" /\ t.day = c.day /\ t.read = c.read /\ t.document = c.document
        /\ t.lease = c.lease /\ t.result = c.result
    BY <1>1 DEF Command, Places
  <2>2. Turns(p, t)
    BY <1>8
  <2> HIDE DEF t
  <2>3. command'[p] = t /\ \A q \in Publishers : q # p => command'[q] = command[q]
    BY <1>5, <2>2 DEF Turns
  <2>4. MappingTypeOK'
    BY <1>1, <1>2, <1>5, <1>8, <2>1, <2>2 DEF MappingInv, MappingTypeOK, Turns
  <2>5. RevisionsStand'
    BY <1>5, <1>8 DEF RevisionsStand, Numbered, RevisionsAreSound, PublishedInForce, ApprovalsPin
  <2>6. UnsettledStands'
    BY <1>1, <1>2, <1>3, <1>4, <1>8 DEF UnsettledStands, RowStands, IsNext, LatestNumber, Approved
  <2>7. CommandStands(p)'
    BY <1>1, <2>1, <2>3 DEF CommandStands, LeaseStands, Holding, Known
  <2>8. \A q \in Publishers : q # p => CommandStands(q)'
    BY <1>1, <1>6, <1>8, <2>3
  <2> QED
    BY <1>1, <2>4, <2>5, <2>6, <2>7, <2>8 DEF MappingInv
<1> QED
  BY <1>7, <1>8 DEF Commit, row

LEMMA SettleStep == ASSUME MappingInv, Settle, UNCHANGED catalogVars PROVE MappingInv'
<1>1. PICK r \in unsettled : unsettled' = unsettled \ {r} /\ revisions' \in {revisions, revisions \cup {r}}
  BY DEF Settle
<1>2. /\ r \in Row /\ unsettled = {r} /\ r.by = holder /\ holder \in Publishers
      /\ RowStands(r) /\ IsNext(r.number, r.document)
  BY <1>1 DEF MappingInv, MappingTypeOK, UnsettledStands
<1>3. unsettled' = {} /\ holder' = Free /\ UNCHANGED <<command, today>>
  BY <1>1, <1>2 DEF Settle, catalogVars
<1>4. revisions \in SUBSET Row /\ RevisionsStand
  BY DEF MappingInv, MappingTypeOK
<1>5. RevisionsStand'
  <2>1. CASE revisions' = revisions
    BY <1>4, <2>1 DEF RevisionsStand, Numbered, RevisionsAreSound, PublishedInForce, ApprovalsPin
  <2>2. CASE revisions' = revisions \cup {r}
    BY <1>2, <1>4, <2>2, NextRow
  <2> QED
    BY <1>1, <2>1, <2>2
<1>6. MappingTypeOK'
  BY <1>1, <1>2, <1>3 DEF MappingInv, MappingTypeOK
<1>7. ASSUME NEW q \in Publishers PROVE CommandStands(q)'
  <2>1. command[q].pc \notin Holding
    BY <1>2, HolderIsAlone
  <2>2. NoRowOf(q) => NoRowOf(q)'
    BY <1>1, <1>3 DEF NoRowOf
  <2> QED
    BY <1>1, <1>3, <2>1, <2>2, OthersStand
<1> QED
  BY <1>3, <1>5, <1>6, <1>7 DEF MappingInv, UnsettledStands

LEMMA LinkPublished == ASSUME MappingInv, PublishLink, UNCHANGED catalogVars PROVE MappingInv'
<1> DEFINE row == [number |-> LatestNumber + 1, document |-> {}, by |-> Free, published |-> today]
<1>1. /\ holder = Free /\ revisions' = revisions \cup {row} /\ UNCHANGED <<holder, unsettled, command, today>>
      /\ today \in Nat /\ RevisionsStand /\ revisions \in SUBSET Row
  BY CatalogAssumption DEF PublishLink, catalogVars, MappingInv, MappingTypeOK
<1>2. row \in Row /\ row.by = Free /\ row.document = {} /\ row.number = LatestNumber + 1
  BY <1>1, LatestFacts DEF Row, RevisionsStand
<1>3. unsettled = {}
  BY <1>1, MappingAssumption DEF MappingInv, UnsettledStands
<1> HIDE DEF row
<1>4. RevisionsStand'
  BY <1>1, <1>2, NextRow DEF RowStands, IsNext
<1>5. MappingTypeOK'
  BY <1>1, <1>2 DEF MappingInv, MappingTypeOK
<1>6. ASSUME NEW q \in Publishers PROVE CommandStands(q)'
  <2>1. command[q].pc \notin Holding
    BY <1>1, HolderIsAlone, MappingAssumption
  <2>2. NoRowOf(q) => NoRowOf(q)'
    BY <1>1, <1>2, MappingAssumption DEF NoRowOf
  <2> QED
    BY <1>1, <2>1, <2>2, OthersStand
<1> QED
  BY <1>1, <1>3, <1>4, <1>5, <1>6 DEF MappingInv, UnsettledStands

LEMMA DaysPass ==
    ASSUME MappingInv, CatalogInv, [CatalogNext]_catalogVars, UNCHANGED mappingLocal PROVE MappingInv'
<1>1. today' = today \/ (today < MaxToday /\ today' = today + 1)
  BY DEF CatalogNext, PreviewNext, Enquire, FetchManifest, ReadProductLink, GetTariff, ListPeriods, ListServices,
         ListPrices, Gets, PreviewFails, Release, EditOffer, Midnight, catalogVars
<1>2. today' \in 0..MaxToday /\ today \in Nat /\ today <= today'
  BY <1>1, CatalogAssumption DEF MappingInv
<1>3. MappingTypeOK' /\ RevisionsStand' /\ UnsettledStands'
  BY DEF mappingLocal, MappingInv, MappingTypeOK, RevisionsStand, Numbered, RevisionsAreSound, PublishedInForce,
         ApprovalsPin, UnsettledStands, RowStands, IsNext, LatestNumber, Approved
<1>4. ASSUME NEW q \in Publishers PROVE CommandStands(q)'
  <2>1. CommandStands(q) /\ command[q].day \in Nat /\ command[q].published \in Nat
    BY DEF MappingInv, MappingTypeOK, Command
  <2>2. command[q].day <= today' /\ (command[q].published <= today => command[q].published <= today')
    BY <1>2, <2>1 DEF CommandStands
  <2> QED
    BY <2>1, <2>2 DEF CommandStands, mappingLocal, IsNext, LatestNumber, Approved, NoRowOf, IsReported
<1> QED
  BY <1>2, <1>3, <1>4 DEF MappingInv

-----------------------------------------------------------------------------
\* The offers a command reads are those of the catalog.
LEMMA MappingImplementsCatalog == MappingSpec => CatalogSpec
<1>1. MappingInit => CatalogInit
  BY DEF MappingInit
<1>2. [MappingNext]_mappingVars => [CatalogNext]_catalogVars
  BY DEF MappingNext, mappingVars
<1> QED
  BY <1>1, <1>2, PTL DEF MappingSpec, CatalogSpec

LEMMA MappingStarts == ASSUME MappingInit, CatalogInv PROVE MappingInv
<1>1. /\ today = 0 /\ seller \in Sellers /\ holder = Free /\ unsettled = {}
      /\ command = [p \in Publishers |-> NewCommand] /\ revisions \in {{}} \cup Earlier
      /\ 0 \in 0..MaxToday
  BY CatalogAssumption DEF MappingInit, CatalogInit, CatalogInv, CatalogTypes
<1>2. ASSUME NEW r, revisions = {r}, r \in Row, r.number = 1, r.by = Free, RowStands(r)
      PROVE  RevisionsStand
  <2>1. {s.number : s \in revisions} = 1..1 /\ 1 \in Nat
    BY <1>2
  <2>2. Numbered
    BY <2>1 DEF Numbered
  <2> QED
    BY <1>2, <2>2 DEF RevisionsStand, RevisionsAreSound, PublishedInForce, ApprovalsPin, RowStands, InForce
<1>3. /\ RevisionsStand /\ revisions \in SUBSET Row /\ \A r \in revisions : r.by = Free
  <2>1. CASE revisions = {}
    <3>1. {s.number : s \in revisions} = 1..0 /\ 0 \in Nat
      BY <2>1
    <3> QED
      BY <2>1, <3>1 DEF RevisionsStand, Numbered, RevisionsAreSound, PublishedInForce, ApprovalsPin
  <2>2. CASE revisions \in Earlier
    <3>1. PICK technical \in Technicals, approvals \in Approvals,
               terms \in UNION {Selected(seller, seller.prices, policy, 0) : policy \in Policies} :
            revisions = {[number |-> 1, by |-> Free, published |-> 0, document |->
                {[terms |-> terms, technical |-> technical, approvals |-> approvals]}]}
      BY <2>2 DEF Earlier
    <3> DEFINE doc == [terms |-> terms, technical |-> technical, approvals |-> approvals]
               r == [number |-> 1, by |-> Free, published |-> 0, document |-> {doc}]
    <3>2. terms \in Terms /\ InForce(terms, 0)
      BY <1>1, <3>1, SelectedFacts
    <3>3. doc \in Document /\ doc.terms = terms
      BY <3>2, MappingAssumption DEF Document
    <3> HIDE DEF doc
    <3>4. /\ r \in Row /\ r.number = 1 /\ r.by = Free /\ r.published = 0 /\ r.document = {doc}
      BY <3>3 DEF Row
    <3>5. revisions = {r}
      BY <3>1 DEF doc
    <3> HIDE DEF r
    <3>6. RowStands(r)
      BY <3>2, <3>3, <3>4 DEF RowStands
    <3> QED
      BY <1>2, <3>4, <3>5, <3>6
  <2> QED
    BY <1>1, <2>1, <2>2
<1>4. MappingTypeOK
  BY <1>1, <1>3, NewCommandFacts DEF MappingTypeOK
<1>5. ASSUME NEW p \in Publishers PROVE CommandStands(p)
  <2>1. command[p] = NewCommand
    BY <1>1
  <2>2. NoRowOf(p)
    BY <1>1, <1>3, MappingAssumption DEF NoRowOf
  <2> HIDE DEF NewCommand
  <2> QED
    BY <1>1, <2>1, <2>2, NewCommandFacts DEF CommandStands, Holding, Known
<1> QED
  BY <1>1, <1>3, <1>4, <1>5 DEF MappingInv, UnsettledStands

LEMMA MappingInvariant == MappingSpec => []MappingInv
<1>1. MappingInit /\ CatalogInv => MappingInv
  BY MappingStarts
<1>2. MappingInv /\ CatalogInv /\ [MappingNext]_mappingVars => MappingInv'
  <2> SUFFICES ASSUME MappingInv, CatalogInv, [MappingNext]_mappingVars PROVE MappingInv'
    OBVIOUS
  <2>1. ASSUME NEW p \in Publishers, PublisherNext(p), UNCHANGED catalogVars PROVE MappingInv'
    <3>1. CASE Refuse(p)
      BY <2>1, <3>1, RefusedEarly DEF Refuse
    <3> QED
      BY <2>1, <3>1, CommandBegins, OfferIsRead, IsEvaluated, LockIsTaken, IsDecided, RowIsAppended, CommitStep,
         IsRecovered DEF PublisherNext
  <2>2. CASE CatalogNext /\ UNCHANGED mappingLocal
    BY <2>2, DaysPass
  <2>3. CASE UNCHANGED mappingVars
    BY <2>3, DaysPass DEF mappingVars
  <2> QED
    BY <2>1, <2>2, <2>3, SettleStep, LinkPublished DEF MappingNext, PublicationStep
<1>3. MappingSpec => []CatalogInv
  BY MappingImplementsCatalog, CatalogInvariant, PTL
<1> QED
  BY <1>1, <1>2, <1>3, PTL DEF MappingSpec

\* The table of revisions, the lock and the commands keep their types.
THEOREM MappingTypes == MappingSpec => []MappingTypeOK
<1>1. MappingInv => MappingTypeOK
  BY DEF MappingInv
<1> QED
  BY <1>1, MappingInvariant, PTL

\* Every revision was published under a number of its own, at a moment when its
\* price and its policy applied, and no approval is used for what it was not
\* given for, for any number of commands, edits and days.
THEOREM SoundRevisions == MappingSpec => []RevisionsAreSound
<1>1. MappingInv => RevisionsAreSound
  BY DEF MappingInv, RevisionsStand
<1> QED
  BY <1>1, MappingInvariant, PTL

\* What a command reports of its publication is so, and remains so.
THEOREM TrueReports == MappingSpec => []ReportsAreTrue
<1>1. MappingInv => ReportsAreTrue
  BY DEF MappingInv, CommandStands, IsReported, NoRowOf, ReportsAreTrue
<1> QED
  BY <1>1, MappingInvariant, PTL

-----------------------------------------------------------------------------
(* The sources of the process *)

\* One shutdown for both takes nothing from what each promises by itself.
THEOREM SourcesImplement == SourcesSpec => Spec /\ CatalogSpec
<1>1. SourcesInit => Init /\ CatalogInit
  BY DEF SourcesInit
<1>2. [SourcesNext]_sourceVars => [Next]_vars /\ [CatalogNext]_catalogVars
  BY DEF SourcesNext, sourceVars, ClientStep, CatalogStep, CatalogNext, PreviewNext
<1> QED
  BY <1>1, <1>2, PTL DEF SourcesSpec, Spec, CatalogSpec
=============================================================================
