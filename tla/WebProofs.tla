-------------------------------- MODULE WebProofs --------------------------------
(***************************************************************************)
(* Proofs about the browser's part of WebSession and WebBilling, for every *)
(* number of tabs, logins and purchases.                                   *)
(*                                                                         *)
(* The session: whatever a part of a tab shows fits the stored session, or *)
(* the part has a storage event or an answer coming to it.  This needs to  *)
(* know of every load under way that its part is still waiting for it, and *)
(* of a logout under way that its session is not the stored one and never  *)
(* will be again (SessionInv).  A step of the session is of one of five    *)
(* kinds: it changes no view and no session (Quiet), it shows something    *)
(* else in one part (Turn), it writes the storage (Change), or it is a     *)
(* storage event or a step of a tab that is not modelled.                  *)
(*                                                                         *)
(* The billing parts: they live as long as the page shows one user, and as *)
(* long as they do, the stored session is theirs or an event is coming     *)
(* (SessionStep, CabinetsHold).  A session never comes back, so that of    *)
(* the confirmations of a session that has gone there are never more.      *)
(***************************************************************************)
EXTENDS WebBilling, TLAPS, FiniteSetTheorems

Part == {"header", "page"}

-----------------------------------------------------------------------------
(* The invariant of the session *)

Verified == [Out EXCEPT !.status = "verified"]

\* A view is made of one session that the server has opened; there is one only
\* where something is shown.
ViewsAreMade ==
    \A t \in Tabs, part \in Part :
        /\ \/ view[t][part] \in {Out, Verified}
           \/ \E s \in 1..issued : view[t][part] \in {Shows(s), Waits(s), Failed(s)}
        /\ part \notin Readers(t) => view[t][part] = Out

\* A tab is on its page or away from it; of some nothing is shown.
SitesHold ==
    \A t \in Tabs : /\ page[t] \in {site[t], "away"}
                    /\ site[t] = "any" => page[t] = "any" /\ events[t] = 0 /\ modal[t] = "closed"

IsLoadOf(r, t, part) == r.kind = "load" /\ r.tab = t /\ r.part = part

\* Whoever has asked waits for the answer; the page shows nothing meanwhile.
LoadsAreAwaited ==
    \A r \in sent : r.kind = "load" =>
        /\ r.same /\ r.nth = 0 /\ r.token \in 1..issued
        /\ r.part \in Readers(r.tab)
        /\ view[r.tab][r.part].asked = r.token
        /\ r.part = "page" => view[r.tab]["page"] = Waits(r.token)

\* A login or a verification is asked for where its answer will be shown.
RequestsHavePlaces ==
    \A r \in sent : /\ r.part = "header" => site[r.tab] # "any"
                    /\ r.part = "page" /\ r.kind \in {"auth", "verify"} => "page" \in Readers(r.tab)
                    /\ r.kind \in {"auth", "verify", "load"} => r.part \in Part
                    /\ r.kind \in {"logout", "reset", "resend"} => site[r.tab] # "any"
                    /\ r.kind = "verify" => r.part = "page"
                    /\ r.kind \in {"verify", "resend"} => r.token # None

\* A request carries a session that the server has opened; a logout one that
\* is not stored any more.
TokensAreOld ==
    \A r \in sent : r.token \in 0..issued /\ (r.kind = "logout" => r.token \notin {None, stored})

SessionInv ==
    /\ SessionTypeOK /\ ViewsAreMade /\ SitesHold /\ LoadsAreAwaited
    /\ RequestsHavePlaces /\ TokensAreOld /\ ShownIsStored

-----------------------------------------------------------------------------
(* The invariant of the billing parts *)

BillingTypeOK ==
    /\ panel \in [Tabs -> Panel]
    /\ unsettled \in [Tabs -> SUBSET (Sessions \X (1..MaxKeys))]
    /\ cabinet \in [Tabs -> Cabinet]

\* A confirmation of the stored session that is not settled is that of the
\* review the panel shows, and a request under way goes with its session.
Confirmed(U, p) ==
    \A u \in U :
        /\ u[1] <= issued
        /\ u[1] = stored => /\ p.kind = "review" /\ u[2] = p.key
                            /\ p.ask # "idle" => p.token = stored

ConfirmationsHold == \A t \in Tabs : Confirmed(unsettled[t], panel[t])

One(U)  == \A u, v \in U : u[1] = v[1] => u = v
OneEach == \A t \in Tabs : One(unsettled[t])

\* What a request of a panel needs to know of it.
PanelHolds(p) ==
    /\ p.kind = "review" => p.key \in 1..MaxKeys
    /\ p.ask \in {"confirm", "inspect"} => p.kind = "review"
    /\ p.ask # "idle" => p.token \in 0..issued
    /\ p.ask \notin {"idle", "load"} => p.token # None
    /\ p.ask \in {"before", "terms", "advance", "saved", "load", "status"} => p.kind # "review"

PanelsHold == \A t \in Tabs : PanelHolds(panel[t])

Showing(c) == c.opening \/ c.frame # "none"

\* The widget is of the selected purchase and the stored session, or an event
\* is coming that takes it off the page.
CabinetHolds(t, c) ==
    /\ c.on # "off" => page[t] = "cabinet" /\ view[t]["page"].status = "user"
    /\ c.on = "off" => c = NoCabinet
    /\ c.on = "new" => c = NewCabinet
    /\ Showing(c) => /\ c.on = "on" /\ c.chosen # ByDefault /\ c.shown = c.chosen
                     /\ c.token = stored \/ events[t] > 0
    /\ c.widget # "closed" => c.on = "on"
    /\ c.timer => c.frame # "none"

CabinetsHold == \A t \in Tabs : CabinetHolds(t, cabinet[t])

\* WidgetComesOrFails, of one tab.
WidgetHolds(t, c) ==
    /\ c.widget = "open" /\ c.frame = "none" => events[t] > 0
    /\ c.frame \notin {"none", "mounted"} => c.timer
    /\ c.widget = "loading" /\ ~c.opening => events[t] > 0

BillingInv ==
    /\ BillingTypeOK /\ ConfirmationsHold /\ OneEach /\ PanelsHold
    /\ CabinetsHold /\ WidgetComesOrFails

WebInv == SessionInv /\ BillingInv

-----------------------------------------------------------------------------
(* Facts about views and requests *)

Pages == {"account", "cabinet", "verify", "product", "reset", "any", "away"}

\* What the steps of the session leave to be of its type, and no more.
RestOK ==
    /\ link \in [Tabs -> BOOLEAN] /\ modal \in [Tabs -> {"closed", "form", "pending"}]
    /\ auths \in [Tabs -> Nat]
    /\ \A t \in Tabs : site[t] = "any" => modal[t] = "closed"

LEMMA ReadersAreParts == \A t \in Tabs : Readers(t) \subseteq Part /\ (Readers(t) # {} => site[t] # "any")
BY DEF Readers, Part

LEMMA ViewsAreViews ==
    ASSUME NEW s \in 0..MaxLogins
    PROVE  {Out, Verified, Shows(s), Waits(s), Failed(s)} \subseteq View
BY WebAssumption DEF Out, Verified, Shows, Waits, Failed, View, None

LEMMA Looks ==
    /\ Out = [status |-> "out", user |-> None, asked |-> None]
    /\ Verified = [status |-> "verified", user |-> None, asked |-> None]
    /\ \A s : /\ Shows(s) = [status |-> "user", user |-> s, asked |-> s]
             /\ Waits(s) = [status |-> "loading", user |-> None, asked |-> s]
             /\ Failed(s) = [status |-> "error", user |-> None, asked |-> s]
BY DEF Out, Verified, Shows, Waits, Failed

LEMMA LoadIsRequest ==
    ASSUME NEW t \in Tabs, NEW part \in Part, NEW s \in 0..MaxLogins
    PROVE  Ask(t, part, "load", s) \in Request
BY DEF Ask, Request, Part, Parts

\* What is known of the session after a step, for the billing parts.
Renews == stored' \in {stored, None, issued + 1} /\ issued' \in issued..MaxLogins

\* While the cabinet goes on showing its user, the session is the same or an
\* event is coming.
CabinetsGoOn ==
    \A t \in Tabs :
        page[t] = "cabinet" /\ view[t]["page"].status = "user" /\ view'[t]["page"] = view[t]["page"] =>
            page'[t] = "cabinet" /\ (events'[t] > 0 \/ (stored' = stored /\ events'[t] = events[t]))

\* A set of requests whose loads are those of before.
SameLoads(R) == \A r \in sent \cup R : r.kind = "load" => (r \in R <=> r \in sent)

\* A request that a step adds to those under way.
Placed(r) ==
    /\ r.part = "header" => site[r.tab] # "any"
    /\ r.part = "page" /\ r.kind \in {"auth", "verify"} => "page" \in Readers(r.tab)
    /\ r.kind \in {"auth", "verify", "load"} => r.part \in Part
    /\ r.kind \in {"logout", "reset", "resend"} => site[r.tab] # "any"
    /\ r.kind = "verify" => r.part = "page"
    /\ r.kind \in {"verify", "resend"} => r.token # None

Added(r) == r.kind \notin {"load", "logout"} /\ r.token = stored /\ Placed(r)

-----------------------------------------------------------------------------
(* The kinds of steps of the session *)

\* Nothing is shown or stored that was not.
LEMMA QuietStep ==
    ASSUME SessionInv, UNCHANGED <<stored, events, site, page, view>>, RestOK',
           issued' \in issued..MaxLogins, dead \subseteq dead', dead' \subseteq 1..issued',
           sent' \subseteq Request, SameLoads(sent'),
           \A r \in sent' : r \in sent \/ Added(r)
    PROVE  SessionInv' /\ Renews /\ CabinetsGoOn
<1>0. issued \in 0..MaxLogins /\ stored \in 0..issued /\ MaxLogins \in Nat
  BY WebAssumption DEF SessionInv, SessionTypeOK
<1>1. SessionTypeOK'
  BY <1>0 DEF SessionInv, SessionTypeOK, RestOK
<1>2. ViewsAreMade'
  BY <1>0 DEF SessionInv, ViewsAreMade, Readers
<1>3. SitesHold'
  BY DEF SessionInv, SitesHold, RestOK
<1>4. LoadsAreAwaited'
  BY <1>0 DEF SessionInv, LoadsAreAwaited, SameLoads, Readers
<1>5. RequestsHavePlaces'
  BY DEF SessionInv, RequestsHavePlaces, Added, Placed, Readers
<1>6. TokensAreOld'
  BY <1>0 DEF SessionInv, TokensAreOld, Added
<1>7. ShownIsStored'
  <2> SUFFICES ASSUME NEW t \in Tabs, NEW part \in Readers(t)'
               PROVE  Watched(t, part)' \/ Fits(t, part, stored)'
    BY DEF ShownIsStored
  <2>1. part \in Readers(t)
    BY DEF Readers
  <2>2. Watched(t, part) => Watched(t, part)'
    BY DEF Watched, SameLoads
  <2>3. Fits(t, part, stored) => Fits(t, part, stored)'
    BY DEF Fits
  <2> QED
    BY <2>1, <2>2, <2>3 DEF SessionInv, ShownIsStored
<1>8. Renews /\ CabinetsGoOn
  BY <1>0 DEF Renews, CabinetsGoOn
<1> QED
  BY <1>1, <1>2, <1>3, <1>4, <1>5, <1>6, <1>7, <1>8 DEF SessionInv

\* One part of one tab shows something else, or the tab goes elsewhere.
LEMMA TurnStep ==
    ASSUME SessionInv, NEW t \in Tabs, NEW part \in Part, NEW v,
           UNCHANGED <<stored, issued, events, site>>, RestOK',
           dead \subseteq dead', dead' \subseteq 1..issued,
           page' \in [Tabs -> Pages], \A u \in Tabs \ {t} : page'[u] = page[u],
           page' = page \/ (part = "page" /\ page'[t] \in {site[t], "away"} /\ site[t] # "any"
                            /\ (page[t] = "away" \/ v = Out)
                            /\ \A r \in sent' : r.tab = t /\ r.part = "page" => r.kind \notin {"auth", "verify"}),
           view' = [view EXCEPT ![t][part] = v],
           v = Out \/ (stored # None /\ v \in {Shows(stored), Failed(stored), Waits(stored)}),
           part \notin Readers(t)' => v = Out,
           sent' \subseteq Request,
           \A r \in sent : r.kind = "load" /\ ~(r.tab = t /\ r.part = part) => r \in sent',
           \A r \in sent' : r \in sent \/ IsLoadOf(r, t, part),
           \A r \in sent' : IsLoadOf(r, t, part) =>
               r = Ask(t, part, "load", stored) /\ stored # None /\ v = Waits(stored) /\ part \in Readers(t)',
           \/ part \notin Readers(t)'
           \/ Ask(t, part, "load", stored) \in sent'
           \/ v = Out /\ (stored = None \/ (part = "page" /\ page'[t] = "product" /\ stored \in dead'))
           \/ v \in {Shows(stored), Failed(stored)}
    PROVE  SessionInv' /\ Renews /\ CabinetsGoOn
<1>0. /\ issued \in 0..MaxLogins /\ stored \in 0..issued /\ MaxLogins \in Nat /\ 0..issued \subseteq 0..MaxLogins
      /\ None = 0 /\ site \in [Tabs -> Pages]
  BY WebAssumption DEF SessionInv, SessionTypeOK, None, Pages
<1>1. v \in View /\ (v = Out \/ \E s \in 1..issued : v \in {Shows(s), Waits(s), Failed(s)})
  BY <1>0, ViewsAreViews
<1>2. /\ view'[t][part] = v
      /\ \A u \in Tabs, q \in Part : u # t \/ q # part => view'[u][q] = view[u][q]
      /\ view' \in [Tabs -> [Part -> View]]
  BY <1>1 DEF SessionInv, SessionTypeOK, Part
<1>3. \A u \in Tabs : u # t \/ part = "header" => Readers(u)' = Readers(u)
  BY DEF Readers
<1>4. SessionTypeOK'
  BY <1>0, <1>2 DEF SessionInv, SessionTypeOK, RestOK, Part, Pages
<1>5. ViewsAreMade'
  BY <1>0, <1>1, <1>2, <1>3 DEF SessionInv, ViewsAreMade, Readers
<1>6. SitesHold'
  BY <1>0 DEF SessionInv, SitesHold, RestOK
<1>7. \A r \in sent' : r.kind = "load" =>
         \/ r = Ask(t, part, "load", stored) /\ stored # None /\ v = Waits(stored) /\ part \in Readers(t)'
         \/ r \in sent /\ r.tab \in Tabs /\ r.part \in Part /\ (r.tab # t \/ r.part # part)
  BY DEF IsLoadOf, Request, SessionInv, LoadsAreAwaited, RequestsHavePlaces
<1>8. LoadsAreAwaited'
  <2> SUFFICES ASSUME NEW r \in sent', r.kind = "load"
               PROVE  /\ r.same /\ r.nth = 0 /\ r.token \in 1..issued
                      /\ r.part \in Readers(r.tab)'
                      /\ view'[r.tab][r.part].asked = r.token
                      /\ r.part = "page" => view'[r.tab]["page"] = Waits(r.token)
    BY DEF LoadsAreAwaited
  <2>1. CASE r = Ask(t, part, "load", stored) /\ stored # None /\ v = Waits(stored) /\ part \in Readers(t)'
    BY <2>1, <1>0, <1>2, Looks DEF Ask
  <2>2. CASE r \in sent /\ r.tab \in Tabs /\ r.part \in Part /\ (r.tab # t \/ r.part # part)
    <3>1. view'[r.tab][r.part] = view[r.tab][r.part]
      BY <2>2, <1>2
    <3>2. r.part \in Readers(r.tab)'
      BY <2>2 DEF SessionInv, LoadsAreAwaited, Readers, Part
    <3> QED
      BY <2>2, <3>1, <3>2 DEF SessionInv, LoadsAreAwaited
  <2> QED
    BY <1>7, <2>1, <2>2
<1>9. RequestsHavePlaces'
  <2> SUFFICES ASSUME NEW r \in sent'
               PROVE  Placed(r)'
    BY DEF RequestsHavePlaces, Placed
  <2>1. CASE r \in sent /\ ~IsLoadOf(r, t, part)
    <3>1. Placed(r)
      BY <2>1 DEF SessionInv, RequestsHavePlaces, Placed
    <3>2. r.tab \in Tabs
      BY DEF Request
    <3> QED
      BY <2>1, <3>1, <3>2, <1>3 DEF Placed, Readers, IsLoadOf
  <2>2. CASE IsLoadOf(r, t, part)
    BY <2>2, ReadersAreParts DEF Placed, IsLoadOf, Ask, Readers
  <2> QED
    BY <2>1, <2>2
<1>10. TokensAreOld'
  BY <1>0 DEF SessionInv, TokensAreOld, IsLoadOf, Ask
<1>11. ShownIsStored'
  <2> SUFFICES ASSUME NEW u \in Tabs, NEW q \in Readers(u)'
               PROVE  Watched(u, q)' \/ Fits(u, q, stored)'
    BY DEF ShownIsStored
  <2>1. CASE u = t /\ q = part
    <3>1. Ask(t, part, "load", stored) \in sent' => Watched(u, q)'
      BY <2>1 DEF Watched, Ask
    <3>2. v = Out /\ (stored = None \/ (part = "page" /\ page'[t] = "product" /\ stored \in dead')) => Fits(u, q, stored)'
      BY <2>1, <1>2, Looks DEF Fits
    <3>3. v \in {Shows(stored), Failed(stored)} => Fits(u, q, stored)'
      BY <2>1, <1>2, Looks DEF Fits
    <3> QED
      BY <2>1, <3>1, <3>2, <3>3
  <2>2. CASE u # t \/ q # part
    <3>1. q \in Part /\ q \in Readers(u)
      BY <2>2, <1>3 DEF Readers, Part
    <3>2. Watched(u, q) => Watched(u, q)'
      BY <2>2 DEF Watched
    <3>3. view'[u][q] = view[u][q] /\ (q = "page" => page'[u] = page[u])
      BY <2>2, <1>2, <3>1 DEF Part
    <3>4. Fits(u, q, stored) => Fits(u, q, stored)'
      BY <3>3 DEF Fits
    <3> QED
      BY <3>1, <3>2, <3>4 DEF SessionInv, ShownIsStored
  <2> QED
    BY <2>1, <2>2
<1>12. Renews
  BY <1>0 DEF Renews
<1>13. CabinetsGoOn
  <2> SUFFICES ASSUME NEW u \in Tabs, page[u] = "cabinet", view[u]["page"].status = "user",
                      view'[u]["page"] = view[u]["page"]
               PROVE  page'[u] = "cabinet"
    BY DEF CabinetsGoOn
  <2> QED
    BY <1>2, Looks DEF Part
<1> QED
  BY <1>4, <1>5, <1>6, <1>8, <1>9, <1>10, <1>11, <1>12, <1>13 DEF SessionInv

\* What a part shows when its tab has been told of s.
Told(t, part, v, s, skip) ==
    \/ part \in Woken(t, skip) /\ v = Asks(part, view[t][part], s)
    \/ part \in Woken(t, skip) /\ part = "header" /\ s # None /\ v = Shows(s)
    \/ part \notin Readers(t) /\ v = view[t][part]
    \/ /\ skip /\ part = "page" /\ part \in Readers(t)
       /\ v = Verified \/ (s = None /\ v = Out) \/ (s = issued + 1 /\ v = Shows(s))

\* A tab is told of the stored session, which it may have written itself.
LEMMA WriteStep ==
    ASSUME SessionInv, NEW t \in Tabs, NEW R, NEW s, NEW skip \in BOOLEAN, NEW w,
           site[t] # "any", UNCHANGED <<site, page>>, RestOK',
           stored' = s, sent' = SentAfter(t, R, s, skip), view' = [view EXCEPT ![t] = w],
           DOMAIN w = Part, w = [part \in Part |-> w[part]],
           \A part \in Part : Told(t, part, w[part], s, skip),
           events' \in [Tabs -> Nat],
           \A u \in Tabs : /\ site[u] = "any" => events'[u] = events[u]
                           /\ u # t /\ s = stored => events'[u] = events[u]
                           /\ u # t /\ s # stored /\ site[u] # "any" => events'[u] > 0,
           issued' \in issued..MaxLogins, dead \subseteq dead', dead' \subseteq 1..issued',
           s \in {None, stored} \/ (s = issued + 1 /\ s = issued'),
           R \subseteq Request,
           \A r \in R : \/ r \in sent
                       \/ /\ r.kind # "load" /\ r.token = stored /\ Placed(r)
                          /\ r.kind = "logout" => stored # None /\ s = None,
           \A r \in sent : r.kind = "load" /\ r.tab # t => r \in R
    PROVE  SessionInv' /\ Renews /\ CabinetsGoOn
<1>0. /\ issued \in 0..MaxLogins /\ stored \in 0..issued /\ MaxLogins \in Nat /\ 0..issued \subseteq 0..MaxLogins
      /\ None = 0 /\ site \in [Tabs -> Pages] /\ issued' \in Nat /\ issued <= issued' /\ issued' <= MaxLogins
      /\ s \in 0..issued' /\ 1..issued \subseteq 1..issued'
  BY WebAssumption DEF SessionInv, SessionTypeOK, None, Pages
<1>1. \A part \in Part : /\ part \in Woken(t, skip) => part \in Readers(t)
                        /\ part \in Readers(t) /\ part \notin Woken(t, skip) => skip /\ part = "page"
  BY DEF Woken, Part
<1>2. \A part \in Part :
         /\ w[part] \in {Out, Verified} \/ \E x \in 1..issued' : w[part] \in {Shows(x), Waits(x), Failed(x)}
         /\ part \notin Readers(t) => w[part] = Out
         /\ w[part] \in View
  <2> SUFFICES ASSUME NEW part \in Part
               PROVE  /\ w[part] \in {Out, Verified} \/ \E x \in 1..issued' : w[part] \in {Shows(x), Waits(x), Failed(x)}
                      /\ part \notin Readers(t) => w[part] = Out
                      /\ w[part] \in View
    OBVIOUS
  <2>1. /\ view[t][part] \in {Out, Verified} \/ \E x \in 1..issued' : view[t][part] \in {Shows(x), Waits(x), Failed(x)}
        /\ part \notin Readers(t) => view[t][part] = Out
    BY <1>0 DEF SessionInv, ViewsAreMade
  <2>2. /\ w[part] \in {Out, Verified} \/ \E x \in 1..issued' : w[part] \in {Shows(x), Waits(x), Failed(x)}
        /\ part \notin Readers(t) => w[part] = Out
    <3>1. CASE part \in Woken(t, skip) /\ w[part] = Asks(part, view[t][part], s)
      <4>1. part \in Readers(t)
        BY <3>1 DEF Woken
      <4>2. w[part] = Out \/ w[part] = view[t][part] \/ (s # None /\ w[part] = Waits(s))
        BY <3>1 DEF Asks
      <4>3. s # None => s \in 1..issued'
        BY <1>0
      <4> QED
        BY <2>1, <4>1, <4>2, <4>3
    <3>2. CASE part \in Woken(t, skip) /\ part = "header" /\ s # None /\ w[part] = Shows(s)
      <4>1. s \in 1..issued' /\ part \in Readers(t)
        BY <3>2, <1>0 DEF Woken
      <4> QED
        BY <3>2, <4>1
    <3>3. CASE part \notin Readers(t) /\ w[part] = view[t][part]
      BY <3>3, <2>1
    <3>4. CASE /\ skip /\ part = "page" /\ part \in Readers(t)
               /\ w[part] = Verified \/ (s = None /\ w[part] = Out) \/ (s = issued + 1 /\ w[part] = Shows(s))
      BY <3>4, <1>0
    <3> QED
      BY <3>1, <3>2, <3>3, <3>4 DEF Told
  <2>3. \A x \in 1..issued' : x \in 0..MaxLogins
    BY <1>0
  <2>4. 0 \in 0..MaxLogins
    BY <1>0
  <2> QED
    BY <2>2, <2>3, <2>4, ViewsAreViews
<1>3. /\ view'[t] = w
      /\ \A u \in Tabs \ {t} : view'[u] = view[u]
      /\ view' \in [Tabs -> [Part -> View]]
  BY <1>2 DEF SessionInv, SessionTypeOK, Part
<1>4. \A u \in Tabs : Readers(u)' = Readers(u)
  BY DEF Readers
<1>5. \A r \in sent' :
         \/ \E q \in R : /\ ~(q.tab = t /\ q.kind = "load")
                        /\ r = IF q.tab = t THEN [q EXCEPT !.same = FALSE] ELSE q
         \/ \E part \in Woken(t, skip) : s # None /\ r = Ask(t, part, "load", s)
  <2> DEFINE H(q) == IF q.tab = t THEN [q EXCEPT !.same = FALSE] ELSE q
  <2>1. \A q \in R : H(q).tab = q.tab /\ H(q).kind = q.kind
    BY DEF Request
  <2> SUFFICES ASSUME NEW r \in sent'
               PROVE  \/ \E q \in R : ~(q.tab = t /\ q.kind = "load") /\ r = H(q)
                      \/ \E part \in Woken(t, skip) : s # None /\ r = Ask(t, part, "load", s)
    OBVIOUS
  <2>2. \/ r \in {H(q) : q \in R} /\ ~(r.tab = t /\ r.kind = "load")
        \/ r \in Loads(t, Woken(t, skip), s)
    BY DEF SentAfter
  <2> HIDE DEF H
  <2> QED
    BY <2>1, <2>2 DEF Loads
<1>6. \A r \in sent : r.kind = "load" /\ r.tab # t => r \in sent'
  BY DEF SentAfter
<1>7. \A part \in Woken(t, skip) : s # None => Ask(t, part, "load", s) \in sent'
  BY DEF SentAfter, Loads
<1>8. sent' \subseteq Request
  <2>1. \A q \in R : [q EXCEPT !.same = FALSE] \in Request
    BY DEF Request
  <2>2. \A part \in Woken(t, skip) : Ask(t, part, "load", s) \in Request
    BY <1>0, ReadersAreParts, LoadIsRequest DEF Woken
  <2> QED
    BY <1>5, <2>1, <2>2
<1>9. SessionTypeOK'
  BY <1>0, <1>3, <1>8 DEF SessionInv, SessionTypeOK, RestOK, Part
<1>10. ViewsAreMade'
  <2> SUFFICES ASSUME NEW u \in Tabs, NEW part \in Part
               PROVE  /\ \/ view'[u][part] \in {Out, Verified}
                         \/ \E x \in 1..issued' : view'[u][part] \in {Shows(x), Waits(x), Failed(x)}
                      /\ part \notin Readers(u) => view'[u][part] = Out
    BY <1>4 DEF ViewsAreMade
  <2>1. CASE u = t
    BY <2>1, <1>2, <1>3
  <2>2. CASE u # t
    BY <2>2, <1>0, <1>3 DEF SessionInv, ViewsAreMade
  <2> QED
    BY <2>1, <2>2
<1>11. SitesHold'
  BY DEF SessionInv, SitesHold, RestOK
<1>12. LoadsAreAwaited'
  <2> SUFFICES ASSUME NEW r \in sent', r.kind = "load"
               PROVE  /\ r.same /\ r.nth = 0 /\ r.token \in 1..issued'
                      /\ r.part \in Readers(r.tab)
                      /\ view'[r.tab][r.part].asked = r.token
                      /\ r.part = "page" => view'[r.tab]["page"] = Waits(r.token)
    <3>1. \A r \in sent' : Readers(r.tab)' = Readers(r.tab)
      BY DEF Readers
    <3> QED
      BY <3>1 DEF LoadsAreAwaited
  <2>1. ASSUME NEW q \in R, ~(q.tab = t /\ q.kind = "load"),
               r = IF q.tab = t THEN [q EXCEPT !.same = FALSE] ELSE q
        PROVE  r \in sent /\ r.tab \in Tabs /\ r.tab # t
    BY <2>1 DEF Request
  <2>2. CASE r \in sent /\ r.tab \in Tabs /\ r.tab # t
    BY <2>2, <1>0, <1>3 DEF SessionInv, LoadsAreAwaited
  <2>3. ASSUME NEW part \in Woken(t, skip), s # None, r = Ask(t, part, "load", s)
        PROVE  /\ r.same /\ r.nth = 0 /\ r.token \in 1..issued'
               /\ r.part \in Readers(r.tab)
               /\ view'[r.tab][r.part].asked = r.token
               /\ r.part = "page" => view'[r.tab]["page"] = Waits(r.token)
    <3>1. r.same /\ r.nth = 0 /\ r.token = s /\ r.part = part /\ r.tab = t
      BY <2>3 DEF Ask
    <3>2. part \in Part /\ part \in Readers(t) /\ (skip => part # "page")
      BY ReadersAreParts DEF Woken
    <3>3. w[part] = Asks(part, view[t][part], s) \/ (part = "header" /\ w[part] = Shows(s))
      BY <2>3, <3>2 DEF Told
    <3>4. w[part].asked = s /\ (part = "page" => w[part] = Waits(s))
      BY <2>3, <3>3, Looks DEF Asks
    <3> QED
      BY <1>0, <1>3, <2>3, <3>1, <3>2, <3>4
  <2> QED
    BY <1>5, <2>1, <2>2, <2>3
<1>13. RequestsHavePlaces'
  <2> SUFFICES ASSUME NEW r \in sent' PROVE Placed(r)
    <3>1. \A r \in sent' : Readers(r.tab)' = Readers(r.tab)
      BY DEF Readers
    <3> QED
      BY <3>1 DEF RequestsHavePlaces, Placed
  <2>1. ASSUME NEW q \in R, r = IF q.tab = t THEN [q EXCEPT !.same = FALSE] ELSE q
        PROVE  Placed(r)
    <3>1. Placed(q)
      BY DEF SessionInv, RequestsHavePlaces, Placed
    <3>2. r.tab = q.tab /\ r.part = q.part /\ r.kind = q.kind /\ r.token = q.token
      BY <2>1 DEF Request
    <3> QED
      BY <3>1, <3>2 DEF Placed
  <2>2. ASSUME NEW part \in Woken(t, skip), r = Ask(t, part, "load", s)
        PROVE  Placed(r)
    BY <2>2, ReadersAreParts DEF Placed, Ask, Woken
  <2> QED
    BY <1>5, <2>1, <2>2
<1>14. TokensAreOld'
  <2> SUFFICES ASSUME NEW r \in sent'
               PROVE  r.token \in 0..issued' /\ (r.kind = "logout" => r.token \notin {None, s})
    BY DEF TokensAreOld
  <2>1. ASSUME NEW q \in R, r = IF q.tab = t THEN [q EXCEPT !.same = FALSE] ELSE q
        PROVE  r.token \in 0..issued' /\ (r.kind = "logout" => r.token \notin {None, s})
    <3>1. q.token \in 0..issued /\ (q.kind = "logout" => q.token \notin {None, s})
      BY <1>0 DEF SessionInv, TokensAreOld
    <3>2. r.token = q.token /\ r.kind = q.kind
      BY <2>1 DEF Request
    <3> QED
      BY <1>0, <3>1, <3>2
  <2>2. ASSUME NEW part \in Woken(t, skip), r = Ask(t, part, "load", s)
        PROVE  r.token \in 0..issued' /\ (r.kind = "logout" => r.token \notin {None, s})
    BY <2>2, <1>0 DEF Ask
  <2> QED
    BY <1>5, <2>1, <2>2
<1>15. ShownIsStored'
  <2> SUFFICES ASSUME NEW u \in Tabs, NEW q \in Readers(u)
               PROVE  Watched(u, q)' \/ Fits(u, q, stored)'
    BY <1>4 DEF ShownIsStored
  <2>1. q \in Part /\ site[u] # "any"
    BY ReadersAreParts
  <2>2. CASE u # t /\ s # stored
    BY <2>1, <2>2 DEF Watched
  <2>3. CASE u # t /\ s = stored
    <3>1. Watched(u, q) => Watched(u, q)'
      BY <2>3, <1>6 DEF Watched
    <3>2. Fits(u, q, stored) => Fits(u, q, stored)'
      BY <2>3, <1>3 DEF Fits
    <3> QED
      BY <3>1, <3>2 DEF SessionInv, ShownIsStored
  <2>4. CASE u = t /\ q \in Woken(t, skip) /\ s # None
    BY <2>4, <1>7 DEF Watched, Ask
  <2>5. CASE u = t /\ q \in Woken(t, skip) /\ s = None
    <3>1. Told(t, q, w[q], s, skip) /\ q \in Readers(t) /\ ~(skip /\ q = "page")
      BY <2>1, <2>5 DEF Woken
    <3>2. w[q] = Out
      BY <2>5, <3>1 DEF Told, Asks
    <3> QED
      BY <2>5, <3>2, <1>3, Looks DEF Fits
  <2>6. CASE u = t /\ q \notin Woken(t, skip)
    <3>1. w[q] = Verified \/ (s = None /\ w[q] = Out) \/ w[q] = Shows(s)
      BY <2>1, <2>6 DEF Told
    <3> QED
      BY <2>6, <3>1, <1>3, Looks DEF Fits
  <2> QED
    BY <2>2, <2>3, <2>4, <2>5, <2>6
<1>16. Renews
  BY <1>0 DEF Renews
<1>17. CabinetsGoOn
  <2> SUFFICES ASSUME NEW u \in Tabs, page[u] = "cabinet", view[u]["page"].status = "user",
                      view'[u]["page"] = view[u]["page"]
               PROVE  events'[u] > 0 \/ (stored' = stored /\ events'[u] = events[u])
    BY DEF CabinetsGoOn
  <2>1. site[u] # "any" /\ "page" \in Readers(u)
    BY <1>0 DEF SessionInv, SitesHold, Readers, Reading, AccountPages
  <2>2. u # t
    <3> SUFFICES ASSUME u = t PROVE FALSE
      OBVIOUS
    <3>1. w["page"].status = "user" /\ w["page"] = view[t]["page"]
      BY <1>3
    <3>2. \A x \in 1..issued : Shows(issued + 1) # Shows(x) /\ Shows(issued + 1) # Waits(x) /\ Shows(issued + 1) # Failed(x)
      BY <1>0, Looks
    <3>3. view[t]["page"] # Shows(issued + 1)
      BY <3>2, Looks DEF SessionInv, ViewsAreMade, Part
    <3>4. w["page"] \in {Asks("page", view[t]["page"], s), Verified, Out, Shows(issued + 1)}
      BY <2>1 DEF Told, Part
    <3> QED
      BY <3>1, <3>3, <3>4, Looks DEF Asks
  <2> QED
    BY <2>1, <2>2
<1> QED
  BY <1>9, <1>10, <1>11, <1>12, <1>13, <1>14, <1>15, <1>16, <1>17 DEF SessionInv

\* A tab writes the storage and shows something else in a part of its own.
LEMMA ChangeStep ==
    ASSUME SessionInv, NEW t \in Tabs, NEW R, NEW s, NEW skip \in BOOLEAN, NEW shows,
           site[t] # "any", UNCHANGED <<site, page>>, RestOK',
           Changes(t, R, s, skip, shows),
           \/ ~skip /\ shows = Nothing
           \/ ~skip /\ s # None /\ shows = On("header", Shows(s))
           \/ /\ skip /\ "page" \in Readers(t)
              /\ \/ shows = On("page", Verified)
                 \/ s = None /\ shows = On("page", Out)
                 \/ s = issued + 1 /\ shows = On("page", Shows(s)),
           issued' \in issued..MaxLogins, dead \subseteq dead', dead' \subseteq 1..issued',
           s \in {None, stored} \/ (s = issued + 1 /\ s = issued'),
           R \subseteq Request,
           \A r \in R : \/ r \in sent
                       \/ /\ r.kind # "load" /\ r.token = stored /\ Placed(r)
                          /\ r.kind = "logout" => stored # None /\ s = None,
           \A r \in sent : r.kind = "load" /\ r.tab # t => r \in R
    PROVE  SessionInv' /\ Renews /\ CabinetsGoOn
<1> DEFINE w == [part \in Part |-> IF part \in DOMAIN shows THEN shows[part] ELSE ViewAfter(t, s, skip)[part]]
<1>1. stored' = s /\ sent' = SentAfter(t, R, s, skip) /\ view' = [view EXCEPT ![t] = w]
  BY DEF Changes, Part
<1>2. DOMAIN w = Part /\ w = [part \in Part |-> w[part]]
  OBVIOUS
<1>3. ASSUME NEW part \in Part PROVE Told(t, part, w[part], s, skip)
  <2>1. ViewAfter(t, s, skip)[part] = IF part \in Woken(t, skip) THEN Asks(part, view[t][part], s) ELSE view[t][part]
    BY DEF ViewAfter, Part
  <2>2. part \notin Woken(t, skip) => part \notin Readers(t) \/ (skip /\ part = "page")
    BY DEF Woken
  <2>3. part \notin DOMAIN shows /\ (skip => part # "page" \/ part \notin Readers(t)) => Told(t, part, w[part], s, skip)
    <3> SUFFICES ASSUME part \notin DOMAIN shows, skip => part # "page" \/ part \notin Readers(t)
                 PROVE  Told(t, part, w[part], s, skip)
      OBVIOUS
    <3>1. w[part] = ViewAfter(t, s, skip)[part]
      OBVIOUS
    <3> HIDE DEF w
    <3> QED
      BY <2>1, <2>2, <3>1 DEF Told
  <2>4. CASE ~skip /\ shows = Nothing
    <3>1. DOMAIN shows = {}
      BY <2>4 DEF Nothing
    <3> QED
      BY <2>3, <2>4, <3>1
  <2>5. CASE ~skip /\ s # None /\ shows = On("header", Shows(s))
    <3>1. DOMAIN shows = {"header"} /\ shows["header"] = Shows(s)
      BY <2>5 DEF On
    <3>2. "header" \in Woken(t, skip)
      BY DEF Woken, Readers
    <3>3. part = "header" => w[part] = Shows(s)
      BY <3>1
    <3> HIDE DEF w
    <3> QED
      BY <2>3, <2>5, <3>1, <3>2, <3>3 DEF Told
  <2>6. CASE /\ skip /\ "page" \in Readers(t)
             /\ \/ shows = On("page", Verified)
                \/ s = None /\ shows = On("page", Out)
                \/ s = issued + 1 /\ shows = On("page", Shows(s))
    <3>1. /\ DOMAIN shows = {"page"}
          /\ \/ shows["page"] = Verified
             \/ s = None /\ shows["page"] = Out
             \/ s = issued + 1 /\ shows["page"] = Shows(s)
      BY <2>6 DEF On
    <3>2. part = "page" => w[part] = shows["page"]
      BY <3>1
    <3> HIDE DEF w
    <3> QED
      BY <2>3, <2>6, <3>1, <3>2 DEF Told
  <2> QED
    BY <2>4, <2>5, <2>6
<1>4. /\ events' = [u \in Tabs |-> IF u = t \/ s = stored \/ site[u] = "any" THEN events[u] ELSE events[u] + 1]
      /\ events \in [Tabs -> Nat]
  BY DEF Changes, EventsAfter, SessionInv, SessionTypeOK
<1>5. /\ events' \in [Tabs -> Nat]
      /\ \A u \in Tabs : /\ site[u] = "any" => events'[u] = events[u]
                         /\ u # t /\ s = stored => events'[u] = events[u]
                         /\ u # t /\ s # stored /\ site[u] # "any" => events'[u] > 0
  BY <1>4
<1> HIDE DEF w
<1> QED
  BY <1>1, <1>2, <1>3, <1>5, WriteStep

\* A tab gets the storage event of a change.
LEMMA DeliverStep ==
    ASSUME SessionInv, NEW t \in Tabs, Deliver(t)
    PROVE  SessionInv' /\ Renews /\ CabinetsGoOn
<1>s. PICK skip \in BOOLEAN : skip = FALSE
  OBVIOUS
<1> DEFINE w == ViewAfter(t, stored, skip)
<1>0. /\ issued \in 0..MaxLogins /\ MaxLogins \in Nat /\ events \in [Tabs -> Nat] /\ dead \subseteq 1..issued
      /\ sent \subseteq Request
  BY WebAssumption DEF SessionInv, SessionTypeOK
<1>1. events[t] > 0 /\ site[t] # "any"
  BY DEF Deliver, SessionInv, SitesHold
<1>2. RestOK' /\ UNCHANGED <<stored, issued, dead, site, page>>
  BY DEF Deliver, SessionInv, SessionTypeOK, SitesHold, RestOK
<1>3. /\ stored' = stored /\ sent' = SentAfter(t, sent, stored, skip) /\ view' = [view EXCEPT ![t] = w]
  BY <1>s DEF Deliver
<1>4. DOMAIN w = Part /\ w = [part \in Part |-> w[part]]
  BY DEF ViewAfter, Part
<1>5. ASSUME NEW part \in Part PROVE Told(t, part, w[part], stored, skip)
  <2>1. w[part] = IF part \in Woken(t, skip) THEN Asks(part, view[t][part], stored) ELSE view[t][part]
    BY DEF ViewAfter, Part
  <2>2. part \notin Woken(t, skip) => part \notin Readers(t)
    BY <1>s DEF Woken
  <2> HIDE DEF w
  <2> QED
    BY <2>1, <2>2 DEF Told
<1>6. /\ events' \in [Tabs -> Nat]
      /\ \A u \in Tabs : u # t => events'[u] = events[u]
  <2>1. events' = [events EXCEPT ![t] = events[t] - 1] /\ events[t] - 1 \in Nat
    BY <1>0, <1>1 DEF Deliver
  <2> QED
    BY <1>0, <2>1
<1>7. \A u \in Tabs : /\ site[u] = "any" => events'[u] = events[u]
                      /\ u # t /\ stored = stored => events'[u] = events[u]
                      /\ u # t /\ stored # stored /\ site[u] # "any" => events'[u] > 0
  BY <1>1, <1>6
<1>8. /\ issued' \in issued..MaxLogins /\ dead \subseteq dead' /\ dead' \subseteq 1..issued'
      /\ stored \in {None, stored}
  BY <1>0, <1>2
<1> HIDE DEF w
<1> QED
  BY <1>0, <1>1, <1>2, <1>3, <1>4, <1>5, <1>6, <1>7, <1>8, WriteStep

\* A tab of which nothing is shown logs in or out.
LEMMA ElsewhereStep ==
    ASSUME SessionInv, NEW t \in Tabs, Elsewhere(t)
    PROVE  SessionInv' /\ Renews /\ CabinetsGoOn
<1>0. /\ issued \in 0..MaxLogins /\ stored \in 0..issued /\ MaxLogins \in Nat /\ dead \subseteq 1..issued
      /\ None = 0 /\ events \in [Tabs -> Nat] /\ sent \subseteq Request
  BY WebAssumption DEF SessionInv, SessionTypeOK, None
<1>1. /\ issued' \in issued..MaxLogins /\ issued' \in Nat /\ stored' # stored /\ stored' \in 0..issued'
      /\ stored' = None \/ (stored' = issued + 1 /\ issued' = issued + 1)
  BY <1>0 DEF Elsewhere
<1>2. events' = [u \in Tabs |-> IF u = t \/ site[u] = "any" THEN events[u] ELSE events[u] + 1]
  BY <1>1 DEF Elsewhere, EventsAfter
<1>3. /\ events' \in [Tabs -> Nat]
      /\ \A u \in Tabs : IF site[u] = "any" THEN events'[u] = events[u] ELSE events'[u] > 0
  BY <1>0, <1>2 DEF Elsewhere
<1>4. SessionTypeOK'
  BY <1>0, <1>1, <1>3 DEF Elsewhere, SessionInv, SessionTypeOK
<1>5. ViewsAreMade'
  BY <1>0, <1>1 DEF Elsewhere, SessionInv, ViewsAreMade, Readers
<1>6. SitesHold'
  BY <1>3 DEF Elsewhere, SessionInv, SitesHold
<1>7. LoadsAreAwaited'
  BY <1>0, <1>1 DEF Elsewhere, SessionInv, LoadsAreAwaited, Readers
<1>8. RequestsHavePlaces'
  BY DEF Elsewhere, SessionInv, RequestsHavePlaces, Readers
<1>9. TokensAreOld'
  BY <1>0, <1>1 DEF Elsewhere, SessionInv, TokensAreOld
<1>10. ShownIsStored'
  <2> SUFFICES ASSUME NEW u \in Tabs, NEW part \in Readers(u)'
               PROVE  Watched(u, part)'
    BY DEF ShownIsStored
  <2>1. site[u] # "any"
    BY DEF Readers, Elsewhere
  <2> QED
    BY <1>3, <2>1 DEF Watched
<1>11. Renews
  BY <1>1 DEF Renews
<1>12. CabinetsGoOn
  <2> SUFFICES ASSUME NEW u \in Tabs, page[u] = "cabinet"
               PROVE  page'[u] = "cabinet" /\ events'[u] > 0
    BY DEF CabinetsGoOn
  <2> QED
    BY <1>3 DEF Elsewhere, SessionInv, SitesHold
<1> QED
  BY <1>4, <1>5, <1>6, <1>7, <1>8, <1>9, <1>10, <1>11, <1>12 DEF SessionInv

-----------------------------------------------------------------------------
(* Every step of the session is of one of these kinds *)

StepHolds == SessionInv' /\ Renews /\ CabinetsGoOn

LEMMA Basics ==
    ASSUME SessionInv
    PROVE  /\ issued \in 0..MaxLogins /\ stored \in 0..issued /\ dead \subseteq 1..issued
           /\ MaxLogins \in Nat /\ None = 0 /\ sent \subseteq Request /\ page \in [Tabs -> Pages]
           /\ link \in [Tabs -> BOOLEAN] /\ auths \in [Tabs -> Nat] /\ RestOK
           /\ view \in [Tabs -> [Part -> View]]
           /\ \A r \in sent : r.tab \in Tabs /\ r.part \in Parts
BY WebAssumption DEF SessionInv, SessionTypeOK, SitesHold, RestOK, None, Pages, Part, Request

\* A page that is named is the one the tab is on.
LEMMA PagesAreSites ==
    ASSUME SessionInv, NEW t \in Tabs
    PROVE  /\ page[t] \notin {"away", "any"} => page[t] = site[t] /\ site[t] # "any"
           /\ page[t] = "away" => site[t] # "any" /\ "page" \notin Readers(t)
           /\ page[t] \in {"account", "cabinet", "verify", "product"} => "page" \in Readers(t)
           /\ view[t]["page"] # Out => "page" \in Readers(t)
           /\ "page" \in Readers(t) => site[t] # "any" /\ page[t] \notin {"away", "any"}
BY DEF SessionInv, SitesHold, ViewsAreMade, Readers, Reading, AccountPages, Part

LEMMA NewOperation ==
    ASSUME SessionInv, NEW t \in Tabs, NEW part \in Parts,
           NEW kind \in {"auth", "logout", "verify", "resend", "reset"}
    PROVE  /\ Begin(t, part, kind) \subseteq Request
           /\ SameLoads(Begin(t, part, kind))
           /\ \A r \in Begin(t, part, kind) :
                  r \in sent \/ (r.tab = t /\ r.part = part /\ r.kind = kind /\ r.token = stored)
<1>1. \A r \in Begin(t, part, kind) : r \in sent \/ r = Ask(t, part, kind, stored)
  BY DEF Begin
<1>2. Ask(t, part, kind, stored) \in Request
  <2>1. stored \in 0..MaxLogins /\ auths[t] + 1 \in Nat
    BY Basics
  <2> QED
    BY <2>1 DEF Ask, Request
<1>3. LET r == Ask(t, part, kind, stored)
      IN  r.tab = t /\ r.part = part /\ r.kind = kind /\ r.token = stored
  BY DEF Ask
<1>4. SameLoads(Begin(t, part, kind))
  BY <1>3 DEF SameLoads, Begin, Operations
<1> QED
  BY <1>1, <1>2, <1>3, <1>4, Basics

\* The answer of a load is the only one its part waits for.
LEMMA OneLoad ==
    ASSUME SessionInv, NEW q \in sent, NEW r \in sent,
           q.kind = "load", r.kind = "load", q.tab = r.tab, q.part = r.part
    PROVE  q = r
<1>1. q.token = r.token /\ q.nth = r.nth /\ q.same /\ r.same
  BY DEF SessionInv, LoadsAreAwaited
<1>2. q \in Request /\ r \in Request
  BY Basics
<1>3. q.same \in BOOLEAN /\ r.same \in BOOLEAN
  BY <1>2 DEF Request
<1>4. q.same = r.same
  BY <1>1, <1>3
<1> QED
  BY <1>1, <1>2, <1>4 DEF Request

\* Dropped requests that are no loads.
LEMMA DropStep ==
    ASSUME SessionInv, NEW R, R \subseteq sent, \A r \in sent : r.kind = "load" => r \in R,
           Keeps(R), UNCHANGED <<site, page>>, RestOK', issued' \in issued..MaxLogins,
           dead \subseteq dead', dead' \subseteq 1..issued'
    PROVE  StepHolds
<1>1. UNCHANGED <<stored, events, site, page, view>> /\ sent' = R
  BY DEF Keeps
<1>2. SameLoads(sent')
  BY <1>1 DEF SameLoads
<1> QED
  BY <1>1, <1>2, Basics, QuietStep DEF StepHolds

\* A form or a button sends a request.
LEMMA BeginStep ==
    ASSUME SessionInv, NEW t \in Tabs, NEW part \in Parts,
           NEW kind \in {"auth", "verify", "resend", "reset"},
           Keeps(Begin(t, part, kind)), UNCHANGED <<issued, dead, site, page, link, modal>>,
           auths' \in [Tabs -> Nat],
           site[t] # "any", kind = "auth" => part \in Part,
           kind = "verify" => part = "page", kind \in {"verify", "resend"} => stored # None,
           part = "page" /\ kind \in {"auth", "verify"} => "page" \in Readers(t)
    PROVE  StepHolds
<1>1. UNCHANGED <<stored, events, site, page, view>> /\ sent' = Begin(t, part, kind) /\ RestOK'
  BY Basics DEF Keeps, RestOK
<1>2. \A r \in sent' : r \in sent \/ Added(r)
  <2> SUFFICES ASSUME NEW r \in sent', r \notin sent PROVE Added(r)
    OBVIOUS
  <2>1. r.tab = t /\ r.part = part /\ r.kind = kind /\ r.token = stored
    BY <1>1, NewOperation
  <2> QED
    BY <2>1 DEF Added, Placed, Part
<1>3. issued' \in issued..MaxLogins /\ dead \subseteq dead' /\ dead' \subseteq 1..issued'
  BY Basics
<1>4. sent' \subseteq Request /\ SameLoads(sent')
  BY <1>1, NewOperation
<1> QED
  BY <1>1, <1>2, <1>3, <1>4, QuietStep DEF StepHolds

\* A part asks again, in the place of what it had asked before.
LEMMA AskStep ==
    ASSUME SessionInv, NEW t \in Tabs, NEW part \in Part, NEW S, NEW v,
           part \in Readers(t), UNCHANGED <<issued, site, page, link, modal, auths>>,
           dead \subseteq dead', dead' \subseteq 1..issued,
           S \subseteq sent, \A r \in S : ~IsLoadOf(r, t, part),
           \A r \in sent : r.kind = "load" /\ ~(r.tab = t /\ r.part = part) => r \in S,
           v = IF stored = None THEN Out ELSE Waits(stored),
           Turns(S \cup Loads(t, {part}, stored), t, part, v)
    PROVE  StepHolds
<1>1. /\ view' = [view EXCEPT ![t][part] = v] /\ UNCHANGED <<stored, events>>
      /\ sent' = S \cup Loads(t, {part}, stored)
  BY DEF Turns
<1>2. Loads(t, {part}, stored) = IF stored = None THEN {} ELSE {Ask(t, part, "load", stored)}
  BY DEF Loads
<1>3. Ask(t, part, "load", stored) \in Request /\ sent \subseteq Request
  BY Basics, LoadIsRequest
<1>4. sent' \subseteq Request
  BY <1>1, <1>2, <1>3
<1>5. /\ \A r \in sent' : r \in sent \/ IsLoadOf(r, t, part)
      /\ \A r \in sent' : IsLoadOf(r, t, part) => r = Ask(t, part, "load", stored) /\ stored # None
      /\ stored # None => Ask(t, part, "load", stored) \in sent'
      /\ \A r \in sent : r.kind = "load" /\ ~(r.tab = t /\ r.part = part) => r \in sent'
  <2>1. \A r : r \in sent' <=> r \in S \/ (stored # None /\ r = Ask(t, part, "load", stored))
    BY <1>1, <1>2
  <2> QED
    BY <2>1 DEF IsLoadOf, Ask
<1>6. part \in Readers(t)'
  BY DEF Readers
<1>7. page' \in [Tabs -> Pages] /\ RestOK'
  BY Basics DEF RestOK
<1> QED
  BY <1>1, <1>4, <1>5, <1>6, <1>7, TurnStep DEF StepHolds

\* A part shows what it has found.
LEMMA ShowStep ==
    ASSUME SessionInv, NEW t \in Tabs, NEW part \in Part, NEW S, NEW v,
           part \in Readers(t), UNCHANGED <<issued, site, page, link, modal, auths>>,
           dead \subseteq dead', dead' \subseteq 1..issued,
           S \subseteq sent, \A r \in S : ~IsLoadOf(r, t, part),
           \A r \in sent : r.kind = "load" /\ ~(r.tab = t /\ r.part = part) => r \in S,
           \/ stored # None /\ v \in {Shows(stored), Failed(stored)}
           \/ v = Out /\ (stored = None \/ (part = "page" /\ page[t] = "product" /\ stored \in dead')),
           view' = [view EXCEPT ![t][part] = v], sent' = S, UNCHANGED <<stored, events>>
    PROVE  StepHolds
<1>1. sent' \subseteq Request
  BY Basics
<1>2. part \in Readers(t)'
  BY DEF Readers
<1>3. page' \in [Tabs -> Pages] /\ RestOK'
  BY Basics DEF RestOK
<1> QED
  BY <1>1, <1>2, <1>3, TurnStep DEF StepHolds

LEMMA LoadAnsweredStep ==
    ASSUME SessionInv, NEW r \in sent, LoadAnswered(r) \/ LoadRefused(r)
    PROVE  StepHolds
<1> DEFINE t == r.tab  part == r.part  R == sent \ {r}
<1>1. /\ r.kind = "load" /\ t \in Tabs /\ part \in Part /\ part \in Readers(t) /\ r.token \in 1..issued
      /\ view[t][part].asked = r.token /\ site[t] # "any" /\ r.token # None
  BY Basics, ReadersAreParts DEF LoadAnswered, LoadRefused, SessionInv, LoadsAreAwaited, None
<1>2. /\ \A q \in R : ~IsLoadOf(q, t, part)
      /\ \A q \in sent : q.kind = "load" /\ ~(q.tab = t /\ q.part = part) => q \in R
  BY <1>1, OneLoad DEF IsLoadOf
<1>3. UNCHANGED <<issued, site, page, link, modal, auths>>
  BY DEF LoadAnswered, LoadRefused
<1>4. dead \subseteq dead' /\ dead' \subseteq 1..issued
  BY <1>1, Basics DEF LoadAnswered, LoadRefused, Denied
<1>5. R \subseteq sent
  OBVIOUS
<1>6. CASE Superseded(r)
  <2>1. Reload(r, R)
    BY <1>6 DEF LoadAnswered, LoadRefused
  <2>2. Asks(part, view[t][part], stored) = IF stored = None THEN Out ELSE Waits(stored)
    BY <1>1, <1>6 DEF Superseded, Asks
  <2>3. Turns(R \cup Loads(t, {part}, stored), t, part, Asks(part, view[t][part], stored))
    BY <2>1 DEF Reload
  <2> HIDE DEF t, part, R
  <2> QED
    BY <1>1, <1>2, <1>3, <1>4, <1>5, <2>2, <2>3, AskStep
<1>7. CASE ~Superseded(r) /\ LoadAnswered(r)
  <2>1. stored = r.token
    BY <1>7 DEF Superseded
  <2>2. ASSUME NEW v, Turns(R, t, part, v), v \in {Shows(stored), Failed(stored)} PROVE StepHolds
    <3>1. view' = [view EXCEPT ![t][part] = v] /\ sent' = R /\ UNCHANGED <<stored, events>>
      BY <2>2 DEF Turns
    <3> HIDE DEF t, part, R
    <3> QED
      BY <1>1, <1>2, <1>3, <1>4, <1>5, <2>1, <2>2, <3>1, ShowStep
  <2>3. CASE Turns(R, t, part, Shows(r.token))
    BY <2>1, <2>2, <2>3
  <2>4. CASE LoadFailed(r, R)
    <3>1. CASE ~(part = "header" /\ view[t]["header"].user # None)
      BY <2>1, <2>2, <2>4, <3>1 DEF LoadFailed
    <3>2. CASE part = "header" /\ view[t]["header"].user # None
      <4>1. view[t][part] = Shows(stored)
        BY <1>1, <2>1, <3>2, Looks DEF SessionInv, ViewsAreMade
      <4>2. view' = view /\ sent' = R /\ UNCHANGED <<stored, events>>
        BY <2>4, <3>2 DEF LoadFailed, Keeps
      <4>3. view \in [Tabs -> [Part -> View]]
        BY Basics
      <4>4. view' = [view EXCEPT ![t][part] = Shows(stored)]
        BY <1>1, <4>1, <4>2, <4>3
      <4> HIDE DEF t, part, R
      <4>5. stored # None /\ Shows(stored) \in {Shows(stored), Failed(stored)}
        BY <1>1, <2>1
      <4> QED
        BY <1>1, <1>2, <1>3, <1>4, <1>5, <4>2, <4>4, <4>5, ShowStep, ZenonT(60)
    <3> QED
      BY <3>1, <3>2
  <2> QED
    BY <1>7, <2>3, <2>4 DEF LoadAnswered
<1>8. CASE ~Superseded(r) /\ LoadRefused(r)
  <2>1. stored = r.token /\ Refused(r, R) /\ stored \in dead'
    BY <1>8 DEF Superseded, LoadRefused, Denied
  <2>2. /\ R \subseteq Request /\ RestOK' /\ issued' \in issued..MaxLogins /\ dead' \subseteq 1..issued'
        /\ \A q \in R : q \in sent
        /\ \A q \in sent : q.kind = "load" /\ q.tab # t => q \in R
    BY <1>3, <1>4, Basics DEF RestOK
  <2>3. CASE part = "header"
    <3>1. Changes(t, R, None, FALSE, Nothing)
      BY <2>1, <2>3 DEF Refused
    <3>2. PICK skip \in BOOLEAN : skip = FALSE
      OBVIOUS
    <3>3. Changes(t, R, None, skip, Nothing)
      BY <3>1, <3>2
    <3> HIDE DEF t, part, R
    <3> QED
      BY <1>1, <1>3, <1>4, <2>2, <3>2, <3>3, ChangeStep DEF StepHolds
  <2>4. CASE part = "page" /\ page[t] = "product"
    <3>1. Turns(R, t, part, Out)
      BY <2>1, <2>4 DEF Refused
    <3>2. view' = [view EXCEPT ![t][part] = Out] /\ sent' = R /\ UNCHANGED <<stored, events>>
      BY <3>1 DEF Turns
    <3> HIDE DEF t, part, R
    <3> QED
      BY <1>1, <1>2, <1>3, <1>4, <1>5, <2>1, <2>4, <3>2, ShowStep
  <2>5. CASE part = "page" /\ page[t] # "product"
    <3>1. Changes(t, R, None, TRUE, On("page", Out))
      BY <2>1, <2>5 DEF Refused
    <3>2. PICK skip \in BOOLEAN : skip = TRUE
      OBVIOUS
    <3>3. Changes(t, R, None, skip, On("page", Out))
      BY <3>1, <3>2
    <3> HIDE DEF t, part, R
    <3> QED
      BY <1>1, <1>3, <1>4, <2>2, <2>5, <3>2, <3>3, ChangeStep DEF StepHolds
  <2> QED
    BY <1>1, <2>3, <2>4, <2>5 DEF Part
<1> QED
  BY <1>6, <1>7, <1>8

\* The page that shows a user or an error waits for no answer.
LEMMA NoPageLoad ==
    ASSUME SessionInv, NEW t \in Tabs, view[t]["page"].status # "loading"
    PROVE  \A r \in sent : ~IsLoadOf(r, t, "page")
BY Looks DEF SessionInv, LoadsAreAwaited, IsLoadOf

LEMMA RetryStep ==
    ASSUME SessionInv, NEW t \in Tabs, NEW part \in Part, Retry(t, part)
    PROVE  StepHolds
<1> DEFINE S == {r \in sent : ~(r.tab = t /\ r.part = part /\ r.kind = "load")}
<1>1. part \in Readers(t)
  BY Looks DEF Retry, SessionInv, ViewsAreMade
<1>2. Asks(part, Out, stored) = IF stored = None THEN Out ELSE Waits(stored)
  BY Looks DEF Asks
<1>3. Turns(S \cup Loads(t, {part}, stored), t, part, IF stored = None THEN Out ELSE Waits(stored))
  BY <1>2 DEF Retry
<1>4. /\ S \subseteq sent /\ \A r \in S : ~IsLoadOf(r, t, part)
      /\ \A r \in sent : r.kind = "load" /\ ~(r.tab = t /\ r.part = part) => r \in S
  BY DEF IsLoadOf
<1>5. UNCHANGED <<issued, dead, site, page, link, modal, auths>> /\ dead' \subseteq 1..issued
  BY Basics DEF Retry
<1> HIDE DEF S
<1> QED
  BY <1>1, <1>3, <1>4, <1>5, AskStep

\* The page shows a guest, and drops requests that are no loads.
LEMMA GuestStep ==
    ASSUME SessionInv, NEW t \in Tabs, NEW S, stored = None,
           view[t]["page"].status \in {"user", "error"},
           UNCHANGED <<issued, dead, site, page, link, modal, auths>>,
           S \subseteq sent, \A r \in sent : r.kind = "load" => r \in S,
           Turns(S, t, "page", Out)
    PROVE  StepHolds
<1>1. "page" \in Readers(t) /\ \A r \in sent : ~IsLoadOf(r, t, "page")
  BY NoPageLoad, PagesAreSites, Looks
<1>2. view' = [view EXCEPT ![t]["page"] = Out] /\ sent' = S /\ UNCHANGED <<stored, events>>
  BY DEF Turns
<1>3. dead' \subseteq 1..issued /\ "page" \in Part
  BY Basics DEF Part
<1> QED
  BY <1>1, <1>2, <1>3, ShowStep

LEMMA SignOutStep ==
    ASSUME SessionInv, NEW t \in Tabs, SignOut(t)
    PROVE  StepHolds
<1>1. "page" \in Readers(t) /\ site[t] # "any"
  BY PagesAreSites DEF SignOut, AccountPages
<1>2. UNCHANGED <<issued, dead, site, page, link, modal, auths>>
  BY DEF SignOut
<1>3. CASE stored = None
  <2> DEFINE S == sent \ (Operations(sent, t, "page") \cup Operations(sent, t, "pagePending"))
  <2>1. Turns(S, t, "page", Out) /\ view[t]["page"].status \in {"user", "error"}
    BY <1>3 DEF SignOut
  <2>2. S \subseteq sent /\ \A r \in sent : r.kind = "load" => r \in S
    BY DEF Operations
  <2> HIDE DEF S
  <2> QED
    BY <1>2, <1>3, <2>1, <2>2, GuestStep
<1>4. CASE stored # None
  <2> DEFINE R == Begin(t, "page", "logout")
  <2>1. Changes(t, R, None, TRUE, On("page", Out))
    BY <1>4 DEF SignOut
  <2>2. PICK skip \in BOOLEAN : skip = TRUE
    OBVIOUS
  <2>3. Changes(t, R, None, skip, On("page", Out))
    BY <2>1, <2>2
  <2>4. "page" \in Parts /\ "logout" \in {"auth", "logout", "verify", "resend", "reset"}
    BY DEF Parts
  <2>5. /\ R \subseteq Request /\ SameLoads(R)
        /\ \A r \in R : r \in sent \/ (r.tab = t /\ r.part = "page" /\ r.kind = "logout" /\ r.token = stored)
    BY <2>4, NewOperation
  <2>6. /\ \A r \in R : \/ r \in sent
                         \/ /\ r.kind # "load" /\ r.token = stored /\ Placed(r)
                            /\ r.kind = "logout" => stored # None /\ None = None
        /\ \A r \in sent : r.kind = "load" /\ r.tab # t => r \in R
    BY <1>1, <1>4, <2>5 DEF Placed, SameLoads
  <2>7. RestOK' /\ issued' \in issued..MaxLogins /\ dead \subseteq dead' /\ dead' \subseteq 1..issued'
    BY <1>2, Basics DEF RestOK
  <2>8. R \subseteq Request
    BY <2>5
  <2> HIDE DEF R
  <2> QED
    BY <1>1, <1>2, <2>2, <2>3, <2>6, <2>7, <2>8, ChangeStep DEF StepHolds
<1> QED
  BY <1>3, <1>4

LEMMA SignOutLocallyStep ==
    ASSUME SessionInv, NEW t \in Tabs, SignOutLocally(t)
    PROVE  StepHolds
<1>1. "page" \in Readers(t) /\ site[t] # "any" /\ view[t]["page"].status \in {"user", "error"}
  BY PagesAreSites DEF SignOutLocally, AccountPages
<1>2. UNCHANGED <<issued, dead, site, page, link, modal, auths>>
  BY DEF SignOutLocally
<1>3. CASE stored = None
  <2>1. Turns(sent, t, "page", Out)
    BY <1>3 DEF SignOutLocally
  <2> QED
    BY <1>1, <1>2, <1>3, <2>1, GuestStep
<1>4. CASE stored # None
  <2>1. PICK skip \in BOOLEAN : skip = TRUE
    OBVIOUS
  <2>2. Changes(t, sent, None, skip, On("page", Out))
    BY <1>4, <2>1 DEF SignOutLocally
  <2>3. RestOK' /\ issued' \in issued..MaxLogins /\ dead' \subseteq 1..issued' /\ sent \subseteq Request
    BY <1>2, Basics DEF RestOK
  <2> QED
    BY <1>1, <1>2, <2>1, <2>2, <2>3, ChangeStep DEF StepHolds
<1> QED
  BY <1>3, <1>4

LEMMA VerifyStep ==
    ASSUME SessionInv, NEW t \in Tabs, Verify(t)
    PROVE  StepHolds
<1>1. "page" \in Readers(t) /\ site[t] # "any" /\ view[t]["page"].status \in {"user", "error"}
  BY PagesAreSites DEF Verify
<1>2. UNCHANGED <<issued, dead, site, page, link, modal, auths>>
  BY DEF Verify
<1>3. CASE stored = None
  <2>1. Turns(sent \ Operations(sent, t, "page"), t, "page", Out)
    BY <1>3 DEF Verify
  <2>2. \A r \in sent : r.kind = "load" => r \in sent \ Operations(sent, t, "page")
    BY DEF Operations
  <2> QED
    BY <1>1, <1>2, <1>3, <2>1, <2>2, GuestStep
<1>4. CASE stored # None
  <2>1. Keeps(Begin(t, "page", "verify")) /\ "page" \in Parts /\ auths' \in [Tabs -> Nat]
    BY <1>2, <1>4, Basics DEF Verify, Parts
  <2> QED
    BY <1>1, <1>2, <1>4, <2>1, BeginStep
<1> QED
  BY <1>3, <1>4

\* A tab goes to another page, or comes back.
LEMMA LeaveStep ==
    ASSUME SessionInv, NEW t \in Tabs, Leave(t)
    PROVE  StepHolds
<1>1. /\ view' = [view EXCEPT ![t]["page"] = Out] /\ UNCHANGED <<stored, events, issued, dead, site, link, modal, auths>>
      /\ sent' = {r \in sent : ~(r.tab = t /\ r.part \in {"page", "pagePending"})}
  BY DEF Leave, Turns
<1>2. page' = [page EXCEPT ![t] = "away"] /\ site[t] # "any" /\ "page" \in Part
  BY PagesAreSites DEF Leave, Part
<1>3. /\ page' \in [Tabs -> Pages] /\ page'[t] = "away"
      /\ \A u \in Tabs \ {t} : page'[u] = page[u]
  BY <1>2, Basics DEF Pages
<1>4. "page" \notin Readers(t)'
  BY <1>3 DEF Readers, Reading, AccountPages
<1>5. RestOK' /\ sent' \subseteq Request /\ dead' \subseteq 1..issued
  BY <1>1, Basics DEF RestOK
<1>6. /\ \A r \in sent' : r \in sent /\ ~(r.tab = t /\ r.part = "page")
      /\ \A r \in sent : r.kind = "load" /\ ~(r.tab = t /\ r.part = "page") => r \in sent'
  <2>1. \A r \in sent : r.kind = "load" => r.part \in Part
    BY DEF SessionInv, RequestsHavePlaces
  <2> QED
    BY <1>1, <2>1 DEF Part
<1>7. \A r \in sent' : ~IsLoadOf(r, t, "page") /\ (r.tab = t /\ r.part = "page" => r.kind \notin {"auth", "verify"})
  BY <1>6 DEF IsLoadOf
<1> QED
  BY <1>1, <1>2, <1>3, <1>4, <1>5, <1>6, <1>7, TurnStep DEF StepHolds

LEMMA EnterStep ==
    ASSUME SessionInv, NEW t \in Tabs, Enter(t)
    PROVE  StepHolds
<1> DEFINE v == IF Reading(site[t]) /\ stored # None THEN Waits(stored) ELSE Out
           N == IF Reading(site[t]) /\ stored # None THEN {Ask(t, "page", "load", stored)} ELSE {}
<1>1. page[t] = "away" /\ site[t] # "any" /\ "page" \notin Readers(t) /\ view[t]["page"] = Out
  BY PagesAreSites DEF Enter
<1>2. page' = [page EXCEPT ![t] = site[t]] /\ UNCHANGED <<issued, dead, site, modal, auths>> /\ "page" \in Part
  BY DEF Enter, Part
<1>3. view' = [view EXCEPT ![t]["page"] = v] /\ sent' = sent \cup N /\ UNCHANGED <<stored, events>>
  <2>1. CASE Reading(site[t])
    <3>1. Turns(sent \cup Loads(t, {"page"}, stored), t, "page", Asks("page", Out, stored))
      BY <2>1 DEF Enter
    <3>2. Asks("page", Out, stored) = v /\ Loads(t, {"page"}, stored) = N
      BY <2>1 DEF Asks, Loads
    <3> QED
      BY <3>1, <3>2 DEF Turns
  <2>2. CASE ~Reading(site[t])
    <3>1. Keeps(sent) /\ v = Out /\ N = {}
      BY <2>2 DEF Enter
    <3>2. view \in [Tabs -> [Part -> View]]
      BY Basics
    <3> QED
      BY <1>1, <1>2, <3>1, <3>2 DEF Keeps
  <2> QED
    BY <2>1, <2>2
<1>4. /\ page' \in [Tabs -> Pages] /\ page'[t] = site[t]
      /\ \A u \in Tabs \ {t} : page'[u] = page[u]
  <2>1. site \in [Tabs -> Pages]
    BY WebAssumption DEF SessionInv, SessionTypeOK, Pages
  <2> QED
    BY <1>2, <2>1, Basics
<1>5. "page" \in Readers(t)' <=> Reading(site[t])
  BY <1>1, <1>2, <1>4 DEF Readers
<1>6. \A r \in sent : ~IsLoadOf(r, t, "page") /\ (r.tab = t /\ r.part = "page" => r.kind \notin {"auth", "verify"})
  BY <1>1 DEF SessionInv, LoadsAreAwaited, RequestsHavePlaces, IsLoadOf
<1>7. Ask(t, "page", "load", stored) \in Request /\ IsLoadOf(Ask(t, "page", "load", stored), t, "page")
  <2>1. stored \in 0..MaxLogins
    BY Basics
  <2> QED
    BY <1>2, <2>1, LoadIsRequest DEF Ask, IsLoadOf
<1>8. \A r : r \in sent' <=> r \in sent \/ (Reading(site[t]) /\ stored # None /\ r = Ask(t, "page", "load", stored))
  BY <1>3
<1>9. RestOK'
  BY <1>2, Basics DEF Enter, RestOK
<1>10. sent' \subseteq Request /\ dead' \subseteq 1..issued
  BY <1>2, <1>7, <1>8, Basics
<1>11. /\ \A r \in sent : r \in sent'
       /\ \A r \in sent' : r \in sent \/ IsLoadOf(r, t, "page")
       /\ \A r \in sent' : r.tab = t /\ r.part = "page" => r.kind \notin {"auth", "verify"}
  BY <1>6, <1>7, <1>8 DEF IsLoadOf
<1>12. \A r \in sent' : IsLoadOf(r, t, "page") =>
          r = Ask(t, "page", "load", stored) /\ stored # None /\ v = Waits(stored) /\ "page" \in Readers(t)'
  BY <1>5, <1>6, <1>8
<1>13. /\ v = Out \/ (stored # None /\ v = Waits(stored))
       /\ "page" \notin Readers(t)' => v = Out
       /\ \/ "page" \notin Readers(t)'
          \/ Ask(t, "page", "load", stored) \in sent'
          \/ v = Out /\ stored = None
  BY <1>5, <1>8
<1> HIDE DEF v, N
<1> QED
  BY <1>1, <1>2, <1>3, <1>4, <1>9, <1>10, <1>11, <1>12, <1>13, TurnStep DEF StepHolds

LEMMA DialogStep ==
    ASSUME SessionInv, NEW t \in Tabs, OpenDialog(t) \/ CloseDialog(t)
    PROVE  StepHolds
<1> DEFINE S == sent \ (Operations(sent, t, "header") \cup Operations(sent, t, "modalPending"))
<1>1. Keeps(S) /\ UNCHANGED <<issued, dead, site, page, link, auths>>
  BY DEF OpenDialog, CloseDialog, Dialog
<1>2. RestOK'
  BY <1>1, Basics DEF OpenDialog, CloseDialog, Dialog, RestOK
<1>3. S \subseteq sent /\ \A r \in sent : r.kind = "load" => r \in S
  BY DEF Operations
<1>4. issued' \in issued..MaxLogins /\ dead \subseteq dead' /\ dead' \subseteq 1..issued'
  BY <1>1, Basics
<1> HIDE DEF S
<1> QED
  BY <1>1, <1>2, <1>3, <1>4, DropStep

LEMMA SubmitStep ==
    ASSUME SessionInv, NEW t \in Tabs, NEW part \in Parts, Submit(t, part)
    PROVE  StepHolds
<1>1. /\ part \in Part /\ Form(t, part) /\ Keeps(Begin(t, part, "auth"))
      /\ auths' = [auths EXCEPT ![t] = @ + 1] /\ UNCHANGED <<issued, dead, site, page, link, modal>>
  BY DEF Submit, Part
<1>2. site[t] # "any" /\ (part = "page" => "page" \in Readers(t))
  <2>1. CASE part = "header"
    BY <1>1, <2>1 DEF Form, SessionInv, SitesHold
  <2>2. CASE part = "page"
    BY <1>1, <2>2, PagesAreSites DEF Form, AccountPages
  <2> QED
    BY <1>1, <2>1, <2>2 DEF Part
<1>3. auths' \in [Tabs -> Nat]
  BY <1>1, Basics
<1> QED
  BY <1>1, <1>2, <1>3, BeginStep

\* The answer of an operation writes the storage.
LEMMA AnswerStep ==
    ASSUME SessionInv, NEW r \in sent, NEW s, NEW skip \in BOOLEAN, NEW shows,
           r.kind # "load", Changes(r.tab, sent \ {r}, s, skip, shows),
           site[r.tab] # "any", UNCHANGED <<site, page>>, RestOK',
           \/ ~skip /\ shows = Nothing
           \/ ~skip /\ s # None /\ shows = On("header", Shows(s))
           \/ /\ skip /\ "page" \in Readers(r.tab)
              /\ \/ shows = On("page", Verified)
                 \/ s = None /\ shows = On("page", Out)
                 \/ s = issued + 1 /\ shows = On("page", Shows(s)),
           issued' \in issued..MaxLogins, dead \subseteq dead', dead' \subseteq 1..issued',
           s \in {None, stored} \/ (s = issued + 1 /\ s = issued')
    PROVE  StepHolds
<1>1. PICK t \in Tabs : t = r.tab
  BY Basics
<1>2. PICK R : R = sent \ {r}
  OBVIOUS
<1>3. /\ R \subseteq Request /\ \A q \in R : q \in sent
      /\ \A q \in sent : q.kind = "load" /\ q.tab # t => q \in R
  BY <1>2, Basics
<1> QED
  BY <1>1, <1>2, <1>3, ChangeStep DEF StepHolds

\* The answer of an operation changes nothing.
LEMMA UnheardStep ==
    ASSUME SessionInv, NEW r \in sent, r.kind # "load", Keeps(sent \ {r}),
           UNCHANGED <<site, page, dead>>, RestOK', issued' \in issued..MaxLogins
    PROVE  StepHolds
<1>1. dead' \subseteq 1..issued'
  BY Basics
<1> QED
  BY <1>1, DropStep

LEMMA AuthAnsweredStep ==
    ASSUME SessionInv, NEW r \in sent, AuthAnswered(r)
    PROVE  StepHolds
<1>1. r.kind = "auth" /\ issued' = issued + 1 /\ UNCHANGED <<dead, site, page, link, auths>>
  BY DEF AuthAnswered
<1>2. issued' \in issued..MaxLogins /\ issued' # None
  BY Basics DEF AuthAnswered
<1>3. dead' \subseteq 1..issued'
  BY <1>1, Basics
<1>4. CASE ~Current(r)
  <2>1. Keeps(sent \ {r}) /\ RestOK'
    BY <1>1, <1>4, Basics DEF AuthAnswered, RestOK
  <2> QED
    BY <1>1, <1>2, <2>1, UnheardStep
<1>5. CASE Current(r) /\ r.part = "header"
  <2>1. Changes(r.tab, sent \ {r}, issued', FALSE, On("header", Shows(issued')))
    <3>1. (r.part = "page") = FALSE
      BY <1>5
    <3> QED
      BY <1>5, <3>1 DEF AuthAnswered
  <2>2. PICK skip \in BOOLEAN : skip = FALSE
    OBVIOUS
  <2>3. PICK s : s = issued'
    OBVIOUS
  <2>4. PICK shows : shows = On("header", Shows(s))
    OBVIOUS
  <2>5. Changes(r.tab, sent \ {r}, s, skip, shows)
    BY <2>1, <2>2, <2>3, <2>4
  <2>6. site[r.tab] # "any"
    BY <1>5 DEF SessionInv, RequestsHavePlaces
  <2>7. RestOK'
    <3>1. PICK to \in {"closed", "pending"} : modal' = [modal EXCEPT ![r.tab] = to]
      BY <1>5 DEF AuthAnswered
    <3> QED
      BY <1>1, <2>6, <3>1, Basics DEF RestOK
  <2> QED
    BY <1>1, <1>2, <1>3, <2>2, <2>3, <2>4, <2>5, <2>6, <2>7, AnswerStep
<1>6. CASE Current(r) /\ r.part = "page"
  <2>1. Changes(r.tab, sent \ {r}, issued', TRUE, On("page", Shows(issued')))
    <3>1. (r.part = "page") = TRUE
      BY <1>6
    <3> QED
      BY <1>6, <3>1 DEF AuthAnswered
  <2>2. PICK skip \in BOOLEAN : skip = TRUE
    OBVIOUS
  <2>3. PICK s : s = issued'
    OBVIOUS
  <2>4. PICK shows : shows = On("page", Shows(s))
    OBVIOUS
  <2>5. Changes(r.tab, sent \ {r}, s, skip, shows)
    BY <2>1, <2>2, <2>3, <2>4
  <2>6. site[r.tab] # "any" /\ "page" \in Readers(r.tab)
    BY <1>1, <1>6 DEF SessionInv, RequestsHavePlaces, Readers
  <2>7. RestOK'
    BY <1>1, <1>6, Basics DEF AuthAnswered, RestOK
  <2> QED
    BY <1>1, <1>2, <1>3, <2>2, <2>3, <2>4, <2>5, <2>6, <2>7, AnswerStep
<1>7. r.part \in Part
  BY <1>1 DEF SessionInv, RequestsHavePlaces
<1> QED
  BY <1>4, <1>5, <1>6, <1>7 DEF Part

LEMMA VerifyAnsweredStep ==
    ASSUME SessionInv, NEW r \in sent, VerifyAnswered(r)
    PROVE  StepHolds
<1>1. /\ r.kind = "verify" /\ UNCHANGED <<issued, site, page, modal, auths>>
      /\ issued' \in issued..MaxLogins
  BY Basics DEF VerifyAnswered
<1>2. site[r.tab] # "any" /\ "page" \in Readers(r.tab) /\ r.token \in 1..issued
  BY <1>1, Basics DEF SessionInv, RequestsHavePlaces, TokensAreOld, Readers
<1>3. CASE Keeps(sent \ {r}) /\ UNCHANGED <<link, dead>>
  <2>1. RestOK'
    BY <1>1, <1>3, Basics DEF RestOK
  <2> QED
    BY <1>1, <1>3, <2>1, UnheardStep
<1>4. CASE /\ Current(r)
           /\ Changes(r.tab, sent \ {r}, stored, TRUE, On("page", [Out EXCEPT !.status = "verified"]))
           /\ link' = [link EXCEPT ![r.tab] = FALSE] /\ UNCHANGED dead
  <2>1. PICK skip \in BOOLEAN : skip = TRUE
    OBVIOUS
  <2>2. PICK s : s = stored
    OBVIOUS
  <2>3. Changes(r.tab, sent \ {r}, s, skip, On("page", Verified))
    BY <1>4, <2>1, <2>2 DEF Verified
  <2>4. dead' \subseteq 1..issued'
    BY <1>1, <1>4, Basics
  <2>5. RestOK'
    BY <1>1, <1>4, Basics DEF RestOK
  <2> QED
    BY <1>1, <1>2, <1>4, <2>1, <2>2, <2>3, <2>4, <2>5, AnswerStep
<1>5. CASE Denied(r) /\ Changes(r.tab, sent \ {r}, None, TRUE, On("page", Out)) /\ UNCHANGED link
  <2>1. PICK skip \in BOOLEAN : skip = TRUE
    OBVIOUS
  <2>2. Changes(r.tab, sent \ {r}, None, skip, On("page", Out))
    BY <1>5, <2>1
  <2>3. dead \subseteq dead' /\ dead' \subseteq 1..issued'
    BY <1>1, <1>2, <1>5, Basics DEF Denied
  <2>4. RestOK'
    BY <1>1, <1>5, Basics DEF RestOK
  <2> QED
    BY <1>1, <1>2, <2>1, <2>2, <2>3, <2>4, AnswerStep
<1> QED
  BY <1>3, <1>4, <1>5 DEF VerifyAnswered

LEMMA ResendAnsweredStep ==
    ASSUME SessionInv, NEW r \in sent, ResendAnswered(r)
    PROVE  StepHolds
<1>1. /\ r.kind = "resend" /\ UNCHANGED <<issued, site, page, link, modal, auths>>
      /\ RestOK' /\ issued' \in issued..MaxLogins
  BY Basics DEF ResendAnswered, RestOK
<1>2. site[r.tab] # "any" /\ r.token \in 1..issued
  BY <1>1, Basics DEF SessionInv, RequestsHavePlaces, TokensAreOld
<1>3. CASE Keeps(sent \ {r}) /\ UNCHANGED dead
  BY <1>1, <1>3, UnheardStep
<1>4. CASE Denied(r) /\ Changes(r.tab, sent \ {r}, None, FALSE, Nothing)
  <2>1. PICK skip \in BOOLEAN : skip = FALSE
    OBVIOUS
  <2>2. Changes(r.tab, sent \ {r}, None, skip, Nothing)
    BY <1>4, <2>1
  <2>3. dead \subseteq dead' /\ dead' \subseteq 1..issued'
    BY <1>1, <1>2, <1>4, Basics DEF Denied
  <2> QED
    BY <1>1, <1>2, <2>1, <2>2, <2>3, AnswerStep
<1> QED
  BY <1>3, <1>4 DEF ResendAnswered

LEMMA ResetAnsweredStep ==
    ASSUME SessionInv, NEW r \in sent, ResetAnswered(r)
    PROVE  StepHolds
<1>1. /\ r.kind = "reset" /\ UNCHANGED <<issued, dead, site, page, modal, auths>>
      /\ issued' \in issued..MaxLogins /\ dead \subseteq dead' /\ dead' \subseteq 1..issued'
  BY Basics DEF ResetAnswered
<1>2. site[r.tab] # "any"
  BY <1>1 DEF SessionInv, RequestsHavePlaces
<1>3. RestOK'
  <2>1. link' \in {link, [link EXCEPT ![r.tab] = FALSE]}
    BY DEF ResetAnswered
  <2> QED
    BY <1>1, <2>1, Basics DEF RestOK
<1>4. CASE Keeps(sent \ {r})
  BY <1>1, <1>3, <1>4, UnheardStep
<1>5. CASE Changes(r.tab, sent \ {r}, None, FALSE, Nothing)
  <2>1. PICK skip \in BOOLEAN : skip = FALSE
    OBVIOUS
  <2>2. Changes(r.tab, sent \ {r}, None, skip, Nothing)
    BY <1>5, <2>1
  <2> QED
    BY <1>1, <1>2, <1>3, <2>1, <2>2, AnswerStep
<1> QED
  BY <1>4, <1>5 DEF ResetAnswered

LEMMA ResendStep ==
    ASSUME SessionInv, NEW t \in Tabs, NEW part \in Parts, Resend(t, part)
    PROVE  StepHolds
<1>1. /\ Keeps(Begin(t, part, "resend")) /\ UNCHANGED <<issued, dead, site, page, link, modal, auths>>
      /\ stored # None /\ auths' \in [Tabs -> Nat]
  BY Basics DEF Resend
<1>2. site[t] # "any"
  BY PagesAreSites DEF Resend, SessionInv, SitesHold
<1> QED
  BY <1>1, <1>2, BeginStep

LEMMA ResetStep ==
    ASSUME SessionInv, NEW t \in Tabs, Reset(t)
    PROVE  StepHolds
<1>1. /\ Keeps(Begin(t, "page", "reset")) /\ UNCHANGED <<issued, dead, site, page, link, modal, auths>>
      /\ "page" \in Parts /\ auths' \in [Tabs -> Nat]
  BY Basics DEF Reset, Parts
<1>2. site[t] # "any"
  BY PagesAreSites DEF Reset
<1> QED
  BY <1>1, <1>2, BeginStep

\* Logins that fail and answers of a logout.
LEMMA UnansweredStep ==
    ASSUME SessionInv, NEW r \in sent, AuthFailed(r) \/ LogoutAnswered(r)
    PROVE  StepHolds
<1>1. /\ r.kind # "load" /\ Keeps(sent \ {r}) /\ UNCHANGED <<issued, dead, site, page, link, modal, auths>>
  BY DEF AuthFailed, LogoutAnswered
<1>2. RestOK' /\ issued' \in issued..MaxLogins
  BY <1>1, Basics DEF RestOK
<1> QED
  BY <1>1, <1>2, UnheardStep

LEMMA SessionStep == SessionInv /\ SessionNext => StepHolds
<1> SUFFICES ASSUME SessionInv, SessionNext PROVE StepHolds
  OBVIOUS
<1>1. ASSUME NEW t \in Tabs, Deliver(t) \/ Elsewhere(t) PROVE StepHolds
  BY <1>1, DeliverStep, ElsewhereStep DEF StepHolds
<1>2. ASSUME NEW t \in Tabs, OpenDialog(t) \/ CloseDialog(t) PROVE StepHolds
  BY <1>2, DialogStep
<1>3. ASSUME NEW t \in Tabs, SignOut(t) PROVE StepHolds
  BY <1>3, SignOutStep
<1>4. ASSUME NEW t \in Tabs, SignOutLocally(t) PROVE StepHolds
  BY <1>4, SignOutLocallyStep
<1>5. ASSUME NEW t \in Tabs, Verify(t) PROVE StepHolds
  BY <1>5, VerifyStep
<1>6. ASSUME NEW t \in Tabs, Reset(t) PROVE StepHolds
  BY <1>6, ResetStep
<1>7. ASSUME NEW t \in Tabs, Leave(t) PROVE StepHolds
  BY <1>7, LeaveStep
<1>8. ASSUME NEW t \in Tabs, Enter(t) PROVE StepHolds
  BY <1>8, EnterStep
<1>9. ASSUME NEW t \in Tabs, NEW part \in Parts, Resend(t, part) PROVE StepHolds
  BY <1>9, ResendStep
<1>10. ASSUME NEW t \in Tabs, NEW part \in Parts, Submit(t, part) PROVE StepHolds
  BY <1>10, SubmitStep
<1>11. ASSUME NEW t \in Tabs, NEW part \in {"header", "page"}, Retry(t, part) PROVE StepHolds
  BY <1>11, RetryStep DEF Part
<1>12. ASSUME NEW r \in sent, LoadAnswered(r) \/ LoadRefused(r) PROVE StepHolds
  BY <1>12, LoadAnsweredStep
<1>13. ASSUME NEW r \in sent, AuthFailed(r) \/ LogoutAnswered(r) PROVE StepHolds
  BY <1>13, UnansweredStep
<1>14. ASSUME NEW r \in sent, AuthAnswered(r) PROVE StepHolds
  BY <1>14, AuthAnsweredStep
<1>15. ASSUME NEW r \in sent, VerifyAnswered(r) PROVE StepHolds
  BY <1>15, VerifyAnsweredStep
<1>16. ASSUME NEW r \in sent, ResendAnswered(r) PROVE StepHolds
  BY <1>16, ResendAnsweredStep
<1>17. ASSUME NEW r \in sent, ResetAnswered(r) PROVE StepHolds
  BY <1>17, ResetAnsweredStep
<1> QED
  BY <1>1, <1>2, <1>3, <1>4, <1>5, <1>6, <1>7, <1>8, <1>9, <1>10, <1>11, <1>12, <1>13, <1>14,
     <1>15, <1>16, <1>17 DEF SessionNext

LEMMA SessionBegins == SessionInit => SessionInv
<1> SUFFICES ASSUME SessionInit PROVE SessionInv
  OBVIOUS
<1>1. /\ issued \in 0..MaxLogins /\ stored = issued /\ stored \in 0..issued /\ MaxLogins \in Nat /\ None = 0
      /\ stored # None => stored \in 1..issued
  BY WebAssumption DEF SessionInit, None
<1>2. /\ site \in Sites /\ page = site /\ site \in [Tabs -> Pages] /\ events = [t \in Tabs |-> 0]
      /\ modal = [t \in Tabs |-> "closed"] /\ link = [t \in Tabs |-> TRUE] /\ auths = [t \in Tabs |-> 0]
      /\ dead = {}
  BY WebAssumption DEF SessionInit, Pages
<1>3. \A t \in Tabs, part \in Part :
         view[t][part] = IF part \in Readers(t) /\ stored # None THEN Waits(stored) ELSE Out
  <2>1. \A part \in Part : Asks(part, Out, stored) = IF stored # None THEN Waits(stored) ELSE Out
    BY Looks DEF Asks
  <2> QED
    BY <2>1 DEF SessionInit, Part
<1>4. view \in [Tabs -> [Part -> View]]
  <2>1. Out \in View /\ Waits(stored) \in View
    BY <1>1, ViewsAreViews
  <2>2. \A t \in Tabs, part \in Part : view[t][part] \in View
    BY <1>3, <2>1
  <2>3. view = [t \in Tabs |-> [part \in Part |-> IF part \in Readers(t) THEN Asks(part, Out, stored) ELSE Out]]
    BY DEF SessionInit, Part
  <2> QED
    BY <2>2, <2>3
<1>5. /\ \A r \in sent : \E t \in Tabs : \E part \in Readers(t) : stored # None /\ r = Ask(t, part, "load", stored)
      /\ \A t \in Tabs : \A part \in Readers(t) : stored # None => Ask(t, part, "load", stored) \in sent
  BY DEF SessionInit, Loads
<1>6. sent \subseteq Request
  BY <1>1, <1>5, ReadersAreParts, LoadIsRequest
<1>7. SessionTypeOK
  BY <1>1, <1>2, <1>4, <1>6 DEF SessionTypeOK, Part, Pages
<1>8. ViewsAreMade
  BY <1>1, <1>3 DEF ViewsAreMade
<1>9. SitesHold
  BY <1>2 DEF SitesHold
<1>10. LoadsAreAwaited
  <2> SUFFICES ASSUME NEW r \in sent, NEW t \in Tabs, NEW part \in Readers(t), stored # None,
                      r = Ask(t, part, "load", stored)
               PROVE  /\ r.same /\ r.nth = 0 /\ r.token \in 1..issued
                      /\ r.part \in Readers(r.tab)
                      /\ view[r.tab][r.part].asked = r.token
                      /\ r.part = "page" => view[r.tab]["page"] = Waits(r.token)
    BY <1>5 DEF LoadsAreAwaited
  <2>1. part \in Part /\ view[t][part] = Waits(stored)
    BY <1>3, ReadersAreParts
  <2> QED
    BY <1>1, <2>1, Looks DEF Ask
<1>11. RequestsHavePlaces
  BY <1>5, ReadersAreParts DEF RequestsHavePlaces, Ask
<1>12. TokensAreOld
  BY <1>1, <1>5 DEF TokensAreOld, Ask
<1>13. ShownIsStored
  <2> SUFFICES ASSUME NEW t \in Tabs, NEW part \in Readers(t)
               PROVE  Watched(t, part) \/ Fits(t, part, stored)
    BY DEF ShownIsStored
  <2>1. CASE stored # None
    BY <1>5, <2>1 DEF Watched, Ask
  <2>2. CASE stored = None
    BY <1>3, <2>2, ReadersAreParts, Looks DEF Fits
  <2> QED
    BY <2>1, <2>2
<1> QED
  BY <1>7, <1>8, <1>9, <1>10, <1>11, <1>12, <1>13 DEF SessionInv

-----------------------------------------------------------------------------
(* What changes the session *)

\* An answer that a tab has waited for without hearing of a session change is
\* not asked for again.
LEMMA AnswerIsTaken ==
    ASSUME SessionInv, NEW r \in sent, r.same, r.kind # "load", NEW s, NEW skip,
           sent' = SentAfter(r.tab, sent \ {r}, s, skip)
    PROVE  r \notin sent'
<1> SUFFICES ASSUME r \in sent' PROVE FALSE
  OBVIOUS
<1>1. \/ \E q \in sent \ {r} : r = IF q.tab = r.tab THEN [q EXCEPT !.same = FALSE] ELSE q
      \/ r \in Loads(r.tab, Woken(r.tab, skip), s)
  BY DEF SentAfter
<1>2. ASSUME NEW q \in sent \ {r}, r = IF q.tab = r.tab THEN [q EXCEPT !.same = FALSE] ELSE q PROVE FALSE
  <2>1. q \in Request
    BY Basics
  <2>2. [q EXCEPT !.same = FALSE].same = FALSE
    BY <2>1 DEF Request
  <2> QED
    BY <1>2, <2>2
<1>3. r \notin Loads(r.tab, Woken(r.tab, skip), s)
  BY DEF Loads, Ask
<1> QED
  BY <1>1, <1>2, <1>3

Caused == stored' # stored /\ sent' # sent => IF stored' = None THEN LetGo(stored) ELSE Brought(stored')

LEMMA SessionStepCaused == SessionInv /\ SessionNext => Caused
<1> SUFFICES ASSUME SessionInv, SessionNext, stored' # stored, sent' # sent
             PROVE  IF stored' = None THEN LetGo(stored) ELSE Brought(stored')
  BY DEF Caused
<1>k. ASSUME NEW R, Keeps(R) PROVE FALSE
  BY <1>k DEF Keeps
<1>t. ASSUME NEW R, NEW t, NEW part, NEW v, Turns(R, t, part, v) PROVE FALSE
  BY <1>t DEF Turns
<1>d. ASSUME NEW r \in sent, Denied(r), r.token = stored, stored' = None
      PROVE  IF stored' = None THEN LetGo(stored) ELSE Brought(stored')
  BY <1>d DEF Denied, LetGo
<1>1. ASSUME NEW t \in Tabs, SignOut(t) PROVE stored' = None /\ LetGo(stored)
  <2> DEFINE R == Begin(t, "page", "logout")
             q == [Ask(t, "page", "logout", stored) EXCEPT !.same = FALSE]
  <2>1. Changes(t, R, None, TRUE, On("page", Out)) /\ stored # None
    BY <1>1, <1>t DEF SignOut
  <2>2. q.kind = "logout" /\ q.token = stored
    BY DEF Ask
  <2>3. q \in sent'
    <3>1. Ask(t, "page", "logout", stored) \in R
      BY DEF Begin
    <3>2. LET r == Ask(t, "page", "logout", stored) IN r.tab = t /\ r.kind = "logout" /\ r.part = "page"
      BY DEF Ask
    <3>3. q.kind = "logout" /\ q.part = "page"
      BY DEF Ask
    <3>4. sent' = SentAfter(t, R, None, TRUE)
      BY <2>1 DEF Changes
    <3> HIDE DEF R
    <3> QED
      BY <3>1, <3>2, <3>3, <3>4 DEF SentAfter
  <2>4. q \notin sent
    BY <2>2 DEF SessionInv, TokensAreOld
  <2>5. stored' = None
    BY <2>1 DEF Changes
  <2> HIDE DEF q
  <2> QED
    BY <2>2, <2>3, <2>4, <2>5 DEF LetGo
<1>2. ASSUME NEW t \in Tabs, SignOutLocally(t) PROVE stored' = None /\ LetGo(stored)
  <2>1. /\ Changes(t, sent, None, TRUE, On("page", Out)) /\ stored # None
        /\ view[t]["page"].status = "error" /\ stored \in {None, view[t]["page"].asked}
    BY <1>2, <1>t DEF SignOutLocally
  <2>2. view[t]["page"] = Failed(stored)
    BY <2>1, Looks DEF SessionInv, ViewsAreMade, Part
  <2>3. DOMAIN On("page", Out) = {"page"} /\ On("page", Out)["page"] = Out
    BY DEF On
  <2>4. view'[t]["page"] = Out /\ stored' = None
    BY <2>1, <2>3, Basics DEF Changes, Part
  <2> QED
    BY <2>2, <2>4 DEF LetGo
<1>3. ASSUME NEW r \in sent, LoadRefused(r) PROVE stored' = None /\ LetGo(stored)
  <2>1. ~Superseded(r)
    BY <1>3, <1>t DEF LoadRefused, Reload
  <2>2. Refused(r, sent \ {r}) /\ Denied(r) /\ r.token = stored
    BY <1>3, <2>1 DEF LoadRefused, Superseded
  <2>3. stored' = None
    BY <2>2, <1>t DEF Refused, Changes
  <2> QED
    BY <2>2, <2>3, <1>d
<1>4. ASSUME NEW r \in sent, AuthAnswered(r) PROVE stored' # None /\ Brought(stored')
  <2>1. /\ Current(r) /\ r.kind = "auth" /\ issued' = issued + 1
        /\ Changes(r.tab, sent \ {r}, issued', r.part = "page", On(r.part, Shows(issued')))
    BY <1>4, <1>k DEF AuthAnswered
  <2>2. stored' = issued' /\ sent' = SentAfter(r.tab, sent \ {r}, issued', r.part = "page")
    BY <2>1 DEF Changes
  <2>3. r.same /\ r.token = stored /\ r.nth = auths[r.tab]
    BY <2>1 DEF Current
  <2>4. r \notin sent'
    <3>1. PICK skip : skip = (r.part = "page")
      OBVIOUS
    <3>2. PICK s : s = issued'
      OBVIOUS
    <3>3. sent' = SentAfter(r.tab, sent \ {r}, s, skip)
      BY <2>2, <3>1, <3>2
    <3> QED
      BY <2>1, <2>3, <3>3, AnswerIsTaken
  <2>5. stored' # None
    BY <2>1, <2>2, Basics
  <2> QED
    BY <2>1, <2>2, <2>3, <2>4, <2>5 DEF Brought
<1>5. ASSUME NEW r \in sent, VerifyAnswered(r) \/ ResendAnswered(r)
      PROVE  stored' = None /\ LetGo(stored)
  <2>1. Denied(r) /\ Current(r) /\ stored' = None
    BY <1>5, <1>k DEF VerifyAnswered, ResendAnswered, Changes
  <2> QED
    BY <2>1, <1>d DEF Current
<1>6. ASSUME NEW r \in sent, ResetAnswered(r) PROVE stored' = None /\ LetGo(stored)
  <2>1. Current(r) /\ r.kind = "reset" /\ Changes(r.tab, sent \ {r}, None, FALSE, Nothing)
    BY <1>6, <1>k DEF ResetAnswered
  <2>2. stored' = None /\ sent' = SentAfter(r.tab, sent \ {r}, None, FALSE) /\ r.same /\ r.token = stored
    BY <2>1 DEF Changes, Current
  <2>3. r \notin sent'
    BY <2>1, <2>2, AnswerIsTaken
  <2> QED
    BY <2>1, <2>2, <2>3 DEF LetGo
<1>7. ASSUME NEW t \in Tabs, \/ Deliver(t) \/ OpenDialog(t) \/ CloseDialog(t) \/ Verify(t) \/ Reset(t)
                             \/ Leave(t) \/ Enter(t) \/ Elsewhere(t)
      PROVE  FALSE
  BY <1>7, <1>k, <1>t DEF Deliver, OpenDialog, CloseDialog, Dialog, Verify, Reset, Leave, Enter, Elsewhere
<1>8. ASSUME NEW t \in Tabs, NEW part, Resend(t, part) \/ Submit(t, part) \/ Retry(t, part)
      PROVE  FALSE
  BY <1>8, <1>k, <1>t DEF Resend, Submit, Retry
<1>9. ASSUME NEW r \in sent, LoadAnswered(r) \/ AuthFailed(r) \/ LogoutAnswered(r)
      PROVE  FALSE
  BY <1>9, <1>k, <1>t DEF LoadAnswered, LoadFailed, Reload, AuthFailed, LogoutAnswered
<1> QED
  BY <1>1, <1>2, <1>3, <1>4, <1>5, <1>6, <1>7, <1>8, <1>9 DEF SessionNext

-----------------------------------------------------------------------------
(* The billing parts under a step of the session *)

LEMMA Widgets == WidgetComesOrFails <=> \A t \in Tabs : WidgetHolds(t, cabinet[t])
BY DEF WidgetComesOrFails, WidgetHolds

LEMMA NewParts ==
    /\ Off \in Panel /\ [Off EXCEPT !.kind = "new"] \in Panel
    /\ NoCabinet \in Cabinet /\ NewCabinet \in Cabinet
<1>1. None \in 0..MaxLogins /\ 0 \in 0..MaxKeys
  BY WebAssumption, BillingAssumption DEF None
<1>2. Off \in Panel /\ [Off EXCEPT !.kind = "new"] \in Panel
  BY <1>1 DEF Off, Panel, Phases
<1>3. NoCabinet \in Cabinet
  BY <1>1 DEF NoCabinet, Cabinet
<1>4. NewCabinet \in Cabinet
  BY <1>3 DEF NewCabinet, Cabinet
<1> QED
  BY <1>2, <1>3, <1>4

LEMMA BillingFollows ==
    ASSUME SessionInv, BillingInv, SessionInv', Renews, CabinetsGoOn, Follows
    PROVE  BillingInv'
<1> DEFINE same(t) == view'[t]["page"] = view[t]["page"]
<1>0. /\ issued \in 0..MaxLogins /\ issued' \in issued..MaxLogins /\ MaxLogins \in Nat /\ None = 0
      /\ stored' \in {stored, None, issued + 1}
  BY Basics DEF Renews
<1>1. ASSUME NEW t \in Tabs, same(t)
      PROVE  panel'[t] = panel[t] /\ unsettled'[t] = unsettled[t] /\ cabinet'[t] = cabinet[t]
  BY <1>1 DEF Follows
<1>2. ASSUME NEW t \in Tabs, ~same(t)
      PROVE  /\ panel'[t] \in {Off, [Off EXCEPT !.kind = "new"]} /\ unsettled'[t] = {}
             /\ cabinet'[t] = NoCabinet \/ (cabinet'[t] = NewCabinet /\ Has(t, "cabinet"))
  BY <1>2 DEF Follows
<1>3. BillingTypeOK'
  <2>1. \A t \in Tabs : /\ panel'[t] \in Panel /\ cabinet'[t] \in Cabinet
                        /\ unsettled'[t] \in SUBSET (Sessions \X (1..MaxKeys))
    BY <1>1, <1>2, NewParts DEF BillingInv, BillingTypeOK
  <2>2. /\ panel' = [t \in Tabs |-> panel'[t]] /\ unsettled' = [t \in Tabs |-> unsettled'[t]]
        /\ cabinet' = [t \in Tabs |-> cabinet'[t]]
    BY DEF Follows
  <2> QED
    BY <2>1, <2>2 DEF BillingTypeOK
<1>4. ASSUME NEW t \in Tabs PROVE Confirmed(unsettled[t], panel[t])' /\ One(unsettled[t])'
  <2>1. CASE same(t)
    <3>1. Confirmed(unsettled[t], panel[t]) /\ One(unsettled[t])
      BY DEF BillingInv, ConfirmationsHold, OneEach
    <3>2. \A u \in unsettled[t] : u[1] \in Nat /\ u[1] # 0 /\ u[1] <= issued
      <4>1. unsettled[t] \subseteq Sessions \X (1..MaxKeys)
        BY DEF BillingInv, BillingTypeOK
      <4> QED
        BY <1>0, <3>1, <4>1 DEF Confirmed, Sessions
    <3>3. \A u \in unsettled[t] : u[1] <= issued' /\ (u[1] = stored' => stored' = stored)
      BY <1>0, <3>2
    <3> QED
      BY <1>1, <2>1, <3>1, <3>3 DEF Confirmed, One
  <2>2. CASE ~same(t)
    BY <1>2, <2>2 DEF Confirmed, One
  <2> QED
    BY <2>1, <2>2
<1>5. ASSUME NEW t \in Tabs PROVE PanelHolds(panel[t])'
  <2>1. CASE same(t)
    BY <1>0, <1>1, <2>1 DEF BillingInv, PanelsHold, PanelHolds
  <2>2. CASE ~same(t)
    BY <1>2, <2>2 DEF PanelHolds, Off
  <2> QED
    BY <2>1, <2>2
<1>6. ASSUME NEW t \in Tabs PROVE CabinetHolds(t, cabinet[t])' /\ WidgetHolds(t, cabinet[t])'
  <2> DEFINE c == cabinet[t]
  <2>1. CASE same(t)
    <3>1. CabinetHolds(t, c) /\ WidgetHolds(t, c) /\ cabinet'[t] = c
      BY <1>1, <2>1, Widgets DEF BillingInv, CabinetsHold
    <3>2. c.on # "off" => /\ page'[t] = "cabinet" /\ view'[t]["page"].status = "user"
                          /\ events'[t] > 0 \/ (stored' = stored /\ events'[t] = events[t])
      BY <2>1, <3>1 DEF CabinetHolds, CabinetsGoOn
    <3>3. events[t] > 0 /\ c.on # "off" => events'[t] > 0
      BY <3>2
    <3>4. c.on = "off" => c.widget = "closed" /\ c.frame = "none" /\ ~c.opening
      BY <3>1 DEF CabinetHolds, NoCabinet
    <3>5. CabinetHolds(t, cabinet[t])'
      BY <3>1, <3>2, <3>3 DEF CabinetHolds, Showing
    <3>6. WidgetHolds(t, cabinet[t])'
      BY <3>1, <3>2, <3>3, <3>4 DEF WidgetHolds
    <3> QED
      BY <3>5, <3>6
  <2>2. CASE ~same(t)
    <3>1. \/ cabinet'[t] = NoCabinet
          \/ cabinet'[t] = NewCabinet /\ page'[t] = "cabinet" /\ view'[t]["page"].status = "user"
      BY <1>2, <2>2 DEF Has
    <3>2. \A d \in {NoCabinet, NewCabinet} : ~Showing(d) /\ d.widget = "closed" /\ ~d.timer /\ d.frame = "none"
      BY DEF Showing, NoCabinet, NewCabinet
    <3>3. NoCabinet.on = "off" /\ NewCabinet.on = "new"
      BY DEF NoCabinet, NewCabinet
    <3> QED
      BY <3>1, <3>2, <3>3 DEF CabinetHolds, WidgetHolds, Showing
  <2> QED
    BY <2>1, <2>2
<1> HIDE DEF same
<1>7. WidgetComesOrFails'
  BY <1>6 DEF WidgetComesOrFails, WidgetHolds
<1> QED
  BY <1>3, <1>4, <1>5, <1>6, <1>7 DEF BillingInv, ConfirmationsHold, OneEach, PanelsHold, CabinetsHold

-----------------------------------------------------------------------------
(* The purchase panel *)

\* A step of one panel.
LEMMA PanelStep ==
    ASSUME SessionInv, BillingInv, NEW t \in Tabs, NEW p \in Panel, NEW U,
           U \subseteq Sessions \X (1..MaxKeys),
           Sees(t, p), unsettled' = [unsettled EXCEPT ![t] = U],
           PanelHolds(p), Confirmed(U, p), One(U)
    PROVE  BillingInv'
<1>1. panel' = [panel EXCEPT ![t] = p] /\ UNCHANGED <<svars, cabinet>>
  BY DEF Sees
<1>2. panel \in [Tabs -> Panel] /\ unsettled \in [Tabs -> SUBSET (Sessions \X (1..MaxKeys))]
  BY DEF BillingInv, BillingTypeOK
<1>3. UNCHANGED <<stored, issued, events, page, view, cabinet>>
  BY <1>1 DEF svars
<1>4. \A u \in Tabs : /\ panel'[u] = IF u = t THEN p ELSE panel[u]
                     /\ unsettled'[u] = IF u = t THEN U ELSE unsettled[u]
  BY <1>1, <1>2
<1>5. BillingTypeOK'
  BY <1>1, <1>2 DEF BillingInv, BillingTypeOK
<1>6. ConfirmationsHold' /\ OneEach'
  BY <1>3, <1>4 DEF BillingInv, ConfirmationsHold, OneEach, Confirmed, One
<1>7. PanelsHold'
  BY <1>3, <1>4 DEF BillingInv, PanelsHold, PanelHolds
<1>8. CabinetsHold' /\ WidgetComesOrFails'
  BY <1>3 DEF BillingInv, CabinetsHold, CabinetHolds, WidgetComesOrFails
<1> QED
  BY <1>5, <1>6, <1>7, <1>8 DEF BillingInv

\* A step of one panel that leaves the confirmations as they are.
LEMMA PanelKeeps ==
    ASSUME SessionInv, BillingInv, NEW t \in Tabs, NEW p \in Panel,
           Sees(t, p), UNCHANGED unsettled, PanelHolds(p), Confirmed(unsettled[t], p)
    PROVE  BillingInv'
<1>1. unsettled' = [unsettled EXCEPT ![t] = unsettled[t]] /\ unsettled[t] \subseteq Sessions \X (1..MaxKeys)
  BY DEF BillingInv, BillingTypeOK
<1>2. One(unsettled[t])
  BY DEF BillingInv, OneEach
<1> QED
  BY <1>1, <1>2, PanelStep

\* What is known of a panel.
LEMMA PanelFacts ==
    ASSUME SessionInv, BillingInv, NEW t \in Tabs
    PROVE  /\ panel[t] \in Panel /\ PanelHolds(panel[t]) /\ Confirmed(unsettled[t], panel[t]) /\ One(unsettled[t])
           /\ unsettled[t] \subseteq Sessions \X (1..MaxKeys)
           /\ panel[t].key \in 0..MaxKeys /\ MaxKeys \in Nat /\ stored \in 0..issued /\ stored \in 0..MaxLogins
           /\ None \in 0..MaxLogins /\ 0 \in 0..MaxKeys
<1>1. panel[t] \in Panel /\ PanelHolds(panel[t]) /\ Confirmed(unsettled[t], panel[t]) /\ One(unsettled[t])
      /\ unsettled[t] \subseteq Sessions \X (1..MaxKeys)
  BY DEF BillingInv, BillingTypeOK, PanelsHold, ConfirmationsHold, OneEach
<1> QED
  BY <1>1, Basics, BillingAssumption DEF Panel

\* The forms a panel takes.
LEMMA PanelForms ==
    ASSUME NEW p \in Panel, NEW f \in Phases
    PROVE  /\ {Unavailable(p), Nobody(p), Holds(p, f), Settled(p)} \subseteq Panel
           /\ Unavailable(p).kind = "unavailable" /\ Nobody(p).kind = "none" /\ Holds(p, f).kind = "purchase"
           /\ Unavailable(p).ask = "idle" /\ Nobody(p).ask = "idle" /\ Holds(p, f).ask = "idle"
           /\ Settled(p).kind = p.kind /\ Settled(p).key = p.key /\ Settled(p).ask = "idle"
<1>1. Off \in Panel /\ Off.ask = "idle" /\ p.key \in 0..MaxKeys
  BY NewParts DEF Off, Panel
<1>2. None \in 0..MaxLogins
  BY WebAssumption DEF None
<1>3. Settled(p) \in Panel /\ Settled(p).kind = p.kind /\ Settled(p).key = p.key /\ Settled(p).ask = "idle"
  BY <1>2 DEF Settled, Panel
<1>4. Unavailable(p) \in Panel /\ Unavailable(p).kind = "unavailable" /\ Unavailable(p).ask = "idle"
  BY <1>1 DEF Unavailable, Panel
<1>5. Nobody(p) \in Panel /\ Nobody(p).kind = "none" /\ Nobody(p).ask = "idle"
  BY <1>1 DEF Nobody, Panel
<1>6. Holds(p, f) \in Panel /\ Holds(p, f).kind = "purchase" /\ Holds(p, f).ask = "idle"
  BY <1>1 DEF Holds, Panel
<1> QED
  BY <1>3, <1>4, <1>5, <1>6

\* Without a review, or in another session than the request's, no confirmation
\* is of the stored session.
LEMMA NoneOfThis ==
    ASSUME SessionInv, BillingInv, NEW t \in Tabs,
           panel[t].kind # "review" \/ (panel[t].ask # "idle" /\ panel[t].token # stored),
           NEW p
    PROVE  Confirmed(unsettled[t], p)
BY PanelFacts DEF Confirmed

\* A panel may show nothing, something unknown or a purchase when there is no
\* such confirmation.
LEMMA ShowsOther ==
    ASSUME NEW p \in Panel, p.kind # "review", p.ask = "idle"
    PROVE  PanelHolds(p)
BY DEF PanelHolds

\* A run ends: what was shown may stay, or else fits what is unsettled.
LEMMA EndsStep ==
    ASSUME SessionInv, BillingInv, NEW t \in Tabs, NEW q \in Panel, panel[t].ask # "idle",
           Ends(t, q), UNCHANGED unsettled,
           q.kind = "review" => q.key \in 1..MaxKeys,
           stored = panel[t].token => panel[t].kind # "review" \/ (q.kind = "review" /\ q.key = panel[t].key)
    PROVE  BillingInv'
<1>1. Settled(q) \in Panel /\ Settled(q).kind = q.kind /\ Settled(q).key = q.key /\ Settled(q).ask = "idle"
  BY PanelForms DEF Phases
<1>2. /\ Unavailable(q) \in Panel /\ Unavailable(q).kind = "unavailable" /\ Unavailable(q).ask = "idle"
      /\ Unavailable(q).kind # "review"
  BY PanelForms DEF Phases
<1>3. CASE stored = panel[t].token
  <2>1. Sees(t, Settled(q))
    BY <1>3 DEF Ends
  <2>2. PanelHolds(Settled(q))
    BY <1>1 DEF PanelHolds
  <2>3. Confirmed(unsettled[t], Settled(q))
    <3>1. CASE panel[t].kind # "review"
      BY <3>1, NoneOfThis
    <3>2. CASE q.kind = "review" /\ q.key = panel[t].key
      BY <1>1, <3>2, PanelFacts DEF Confirmed
    <3> QED
      BY <1>3, <3>1, <3>2
  <2> QED
    BY <1>1, <2>1, <2>2, <2>3, PanelKeeps
<1>4. CASE stored # panel[t].token
  <2>1. Sees(t, Unavailable(q))
    BY <1>4 DEF Ends
  <2>2. PanelHolds(Unavailable(q)) /\ Confirmed(unsettled[t], Unavailable(q))
    BY <1>2, <1>4, ShowsOther, NoneOfThis
  <2> QED
    BY <1>2, <2>1, <2>2, PanelKeeps
<1> QED
  BY <1>3, <1>4

LEMMA PanelAsks ==
    ASSUME SessionInv, BillingInv, NEW t \in Tabs,
           Start(t) \/ Loaded(t) \/ Buy(t) \/ Refresh(t) \/ Continue(t)
    PROVE  BillingInv'
<1> DEFINE p == panel[t]
<1>0. UNCHANGED unsettled
  BY DEF Start, Loaded, Buy, Refresh, Continue
<1>1. CASE Start(t)
  <2> DEFINE q == [Off EXCEPT !.kind = "loading", !.ask = "load", !.token = stored]
  <2>1. Sees(t, q) /\ p.kind = "new"
    BY <1>1 DEF Start
  <2>2. q \in Panel
    BY PanelFacts DEF Off, Panel, Phases
  <2>3. PanelHolds(q)
    BY PanelFacts DEF Off, PanelHolds
  <2> HIDE DEF q
  <2> QED
    BY <1>0, <2>1, <2>2, <2>3, NoneOfThis, PanelKeeps
<1>2. CASE Loaded(t)
  <2>1. p.ask = "load" /\ p.kind # "review" /\ p \in Panel
    BY <1>2, PanelFacts DEF Loaded, PanelHolds
  <2>2. PICK q : Sees(t, q) /\ q \in {Settled(p), Unavailable(p), Nobody(p), Holds(p, "held"), Holds(p, "linked")}
    BY <1>2 DEF Loaded
  <2>3. q \in Panel /\ q.kind # "review" /\ q.ask = "idle"
    BY <2>1, <2>2, PanelForms DEF Phases
  <2> QED
    BY <1>0, <2>1, <2>2, <2>3, ShowsOther, NoneOfThis, PanelKeeps
<1>3. ASSUME NEW ask \in {"before", "status", "current", "advance"}, Run(t, p, ask),
             ask # "current" => p.kind # "review"
      PROVE  BillingInv'
  <2> DEFINE q == [p EXCEPT !.ask = ask, !.token = stored]
  <2>1. Sees(t, q) /\ stored # None
    BY <1>3 DEF Run
  <2>2. /\ q \in Panel /\ q.kind = p.kind /\ q.key = p.key /\ q.ask = ask /\ q.token = stored
    BY PanelFacts DEF Panel
  <2> HIDE DEF q
  <2>3. PanelHolds(q)
    BY <1>3, <2>1, <2>2, PanelFacts DEF PanelHolds
  <2>4. Confirmed(unsettled[t], q)
    BY <2>2, PanelFacts DEF Confirmed
  <2> QED
    BY <1>0, <2>1, <2>2, <2>3, <2>4, PanelKeeps
<1>4. CASE Buy(t)
  BY <1>3, <1>4 DEF Buy, MayBuy
<1>5. CASE Refresh(t)
  BY <1>3, <1>5 DEF Refresh
<1>6. CASE Continue(t)
  BY <1>3, <1>6 DEF Continue
<1> QED
  BY <1>1, <1>2, <1>4, <1>5, <1>6

LEMMA ConfirmStep ==
    ASSUME SessionInv, BillingInv, NEW t \in Tabs, Confirm(t)
    PROVE  BillingInv'
<1> DEFINE p == panel[t]
           q == [p EXCEPT !.submitted = TRUE, !.ask = "confirm", !.token = stored]
           U == unsettled[t] \cup {<<stored, p.key>>}
<1>1. /\ p.kind = "review" /\ stored # None /\ Run(t, [p EXCEPT !.submitted = TRUE], "confirm")
      /\ unsettled' = [unsettled EXCEPT ![t] = U]
  BY DEF Confirm, Run
<1>2. q \in Panel /\ q.kind = "review" /\ q.key = p.key /\ q.ask = "confirm" /\ q.token = stored
  BY <1>1, PanelFacts DEF Panel
<1>3. Sees(t, q)
  <2>1. [[p EXCEPT !.submitted = TRUE] EXCEPT !.ask = "confirm", !.token = stored] = q
    BY PanelFacts DEF Panel
  <2> QED
    BY <1>1, <2>1 DEF Run
<1>4. p.key \in 1..MaxKeys /\ stored \in 1..issued /\ stored \in Sessions
  BY <1>1, PanelFacts, Basics DEF PanelHolds, Sessions
<1>5. U \subseteq Sessions \X (1..MaxKeys)
  BY <1>4, PanelFacts
<1>6. PanelHolds(q)
  BY <1>1, <1>2, <1>4, PanelFacts DEF PanelHolds
<1>7. \A u \in unsettled[t] : u[1] = stored => u = <<stored, p.key>>
  BY <1>1, PanelFacts DEF Confirmed
<1>8. Confirmed(U, q)
  <2>1. \A u \in unsettled[t] : u[1] <= issued
    BY PanelFacts DEF Confirmed
  <2>2. <<stored, p.key>>[1] = stored /\ <<stored, p.key>>[2] = p.key /\ stored <= issued
    BY <1>4, Basics
  <2> HIDE DEF q
  <2> QED
    BY <1>2, <1>7, <2>1, <2>2 DEF Confirmed
<1>9. One(U)
  <2>1. One(unsettled[t])
    BY PanelFacts
  <2> QED
    BY <1>7, <2>1 DEF One
<1> HIDE DEF q, U
<1> QED
  BY <1>1, <1>2, <1>3, <1>5, <1>6, <1>8, <1>9, PanelStep

\* A purchase is shown, or nothing certain: nothing is unsettled in the first case.
LEMMA FindsStep ==
    ASSUME SessionInv, BillingInv, NEW t \in Tabs, NEW phases \in SUBSET Phases,
           panel[t].ask # "idle", FindsPurchase(t, phases)
    PROVE  BillingInv'
<1>1. PICK f \in phases : Ends(t, Holds(panel[t], f))
  BY DEF FindsPurchase
<1>2. /\ Holds(panel[t], f) \in Panel /\ Holds(panel[t], f).kind = "purchase"
      /\ Settled(Holds(panel[t], f)) \in Panel /\ Settled(Holds(panel[t], f)).kind = "purchase"
      /\ Settled(Holds(panel[t], f)).ask = "idle"
  <2>1. Holds(panel[t], f) \in Panel /\ Holds(panel[t], f).kind = "purchase"
    BY PanelForms, PanelFacts
  <2> QED
    BY <2>1, PanelForms
<1>3. CASE stored = panel[t].token
  <2>1. Sees(t, Settled(Holds(panel[t], f))) /\ unsettled' = [unsettled EXCEPT ![t] = {}]
    BY <1>1, <1>3 DEF Ends, FindsPurchase, Forget
  <2>2. PanelHolds(Settled(Holds(panel[t], f)))
    BY <1>2, ShowsOther
  <2>3. PICK p \in Panel : p = Settled(Holds(panel[t], f))
    BY <1>2
  <2>4. PICK U : U = {}
    OBVIOUS
  <2>5. U \subseteq Sessions \X (1..MaxKeys) /\ Confirmed(U, p) /\ One(U)
    BY <2>4 DEF Confirmed, One
  <2> QED
    BY <2>1, <2>2, <2>3, <2>4, <2>5, PanelStep
<1>4. CASE stored # panel[t].token
  <2>1. UNCHANGED unsettled
    BY <1>4 DEF FindsPurchase
  <2>2. Holds(panel[t], f).kind # "review"
    BY <1>2
  <2> QED
    BY <1>1, <1>2, <1>4, <2>1, <2>2, EndsStep
<1> QED
  BY <1>3, <1>4

LEMMA FailsStep ==
    ASSUME SessionInv, BillingInv, NEW t \in Tabs, panel[t].ask # "idle", Fails(t)
    PROVE  BillingInv'
<1>1. Ends(t, panel[t]) /\ UNCHANGED unsettled /\ panel[t] \in Panel
  BY PanelFacts DEF Fails
<1>2. panel[t].kind = "review" => panel[t].key \in 1..MaxKeys
  BY PanelFacts DEF PanelHolds
<1> QED
  BY <1>1, <1>2, EndsStep

\* A run goes on with another request.
LEMMA GoesOnStep ==
    ASSUME SessionInv, BillingInv, NEW t \in Tabs, NEW q \in Panel,
           NEW ask \in {"terms", "inspect", "advance", "saved"}, GoesOn(t, q, ask), UNCHANGED unsettled,
           panel[t].ask \notin {"idle", "load"},
           q.kind = "review" => q.key \in 1..MaxKeys, q.kind = "review" <=> ask = "inspect",
           panel[t].kind # "review" \/ (q.kind = "review" /\ q.key = panel[t].key)
    PROVE  BillingInv'
<1> DEFINE p == [q EXCEPT !.ask = ask, !.token = panel[t].token]
<1>1. Sees(t, p)
  BY DEF GoesOn
<1>2. panel[t].token \in 0..issued /\ panel[t].token # None /\ panel[t].token \in 0..MaxLogins
  BY PanelFacts DEF PanelHolds, Panel
<1>3. p \in Panel /\ p.kind = q.kind /\ p.key = q.key /\ p.ask = ask /\ p.token = panel[t].token
  BY <1>2 DEF Panel
<1> HIDE DEF p
<1>4. PanelHolds(p)
  BY <1>2, <1>3 DEF PanelHolds
<1>5. Confirmed(unsettled[t], p)
  <2>1. CASE panel[t].kind # "review"
    BY <2>1, NoneOfThis
  <2>2. CASE q.kind = "review" /\ q.key = panel[t].key
    BY <1>3, <2>2, PanelFacts DEF Confirmed
  <2> QED
    BY <2>1, <2>2
<1> QED
  BY <1>1, <1>3, <1>4, <1>5, PanelKeeps

LEMMA RefreshAnsweredStep ==
    ASSUME SessionInv, BillingInv, NEW t \in Tabs, RefreshAnswered(t)
    PROVE  BillingInv'
<1>1. CASE /\ panel[t].ask \in {"status", "current", "before", "inspect", "advance", "saved"}
           /\ FindsPurchase(t, IF panel[t].ask \in {"status", "saved", "advance"} THEN Phases ELSE {"held", "linked"})
  <2>1. PICK phases : phases = IF panel[t].ask \in {"status", "saved", "advance"} THEN Phases ELSE {"held", "linked"}
    OBVIOUS
  <2>2. phases \in SUBSET Phases /\ FindsPurchase(t, phases) /\ panel[t].ask # "idle"
    BY <1>1, <2>1 DEF Phases
  <2> QED
    BY <2>2, FindsStep
<1>2. CASE panel[t].ask \in {"status", "current", "before", "terms", "inspect", "saved", "advance"} /\ Fails(t)
  BY <1>2, FailsStep
<1>3. CASE panel[t].ask = "current" /\ Ends(t, Empty(panel[t])) /\ UNCHANGED unsettled
  <2> DEFINE q == Empty(panel[t])
  <2>1. panel[t] \in Panel /\ (panel[t].kind = "review" => panel[t].key \in 1..MaxKeys)
    BY PanelFacts DEF PanelHolds
  <2>2. q = IF panel[t].kind = "review" THEN panel[t] ELSE Nobody(panel[t])
    BY DEF Empty
  <2>3. Nobody(panel[t]) \in Panel /\ Nobody(panel[t]).kind = "none"
    BY <2>1, PanelForms DEF Phases
  <2>4. /\ q \in Panel /\ (q.kind = "review" => q.key \in 1..MaxKeys)
        /\ panel[t].kind # "review" \/ (q.kind = "review" /\ q.key = panel[t].key)
    BY <2>1, <2>2, <2>3
  <2> HIDE DEF q
  <2>5. Ends(t, q)
    BY <1>3 DEF q
  <2> QED
    BY <1>3, <2>4, <2>5, EndsStep
<1> QED
  BY <1>1, <1>2, <1>3 DEF RefreshAnswered

LEMMA TermsStep ==
    ASSUME SessionInv, BillingInv, NEW t \in Tabs, BeforeAnswered(t) \/ TermsAnswered(t)
    PROVE  BillingInv'
<1>1. panel[t].kind # "review" /\ panel[t] \in Panel /\ UNCHANGED unsettled /\ panel[t].ask \in {"before", "terms"}
  BY PanelFacts DEF BeforeAnswered, TermsAnswered, PanelHolds
<1>2. CASE BeforeAnswered(t) /\ stored = panel[t].token
  <2>1. GoesOn(t, panel[t], "terms")
    BY <1>2 DEF BeforeAnswered
  <2> QED
    BY <1>1, <2>1, GoesOnStep
<1>3. CASE BeforeAnswered(t) /\ stored # panel[t].token
  <2>1. Ends(t, panel[t])
    BY <1>3 DEF BeforeAnswered
  <2> QED
    BY <1>1, <2>1, EndsStep
<1>4. CASE TermsAnswered(t)
  <2> DEFINE q == [Off EXCEPT !.kind = "review", !.key = panel[t].key + 1]
  <2>1. panel[t].key + 1 \in 1..MaxKeys /\ panel[t].key + 1 \in 0..MaxKeys
    BY <1>4, PanelFacts DEF TermsAnswered
  <2>2. q \in Panel /\ q.key \in 1..MaxKeys
    BY <2>1, NewParts DEF Panel
  <2>3. Ends(t, q)
    BY <1>4 DEF TermsAnswered
  <2> HIDE DEF q
  <2> QED
    BY <1>1, <2>2, <2>3, EndsStep
<1> QED
  BY <1>2, <1>3, <1>4

LEMMA AcceptedStep ==
    ASSUME SessionInv, BillingInv, NEW t \in Tabs, Accepted(t)
    PROVE  BillingInv'
<1> DEFINE p == panel[t]
<1>1. p.ask = "confirm" /\ p \in Panel /\ p.kind = "review" /\ p.key \in 1..MaxKeys /\ p.token # None
      /\ p.token \in 0..issued
  BY PanelFacts DEF Accepted, PanelHolds
<1>2. CASE stored # p.token
  <2>1. Ends(t, p) /\ UNCHANGED unsettled
    BY <1>2 DEF Accepted
  <2> QED
    BY <1>1, <2>1, EndsStep
<1>3. CASE stored = p.token
  <2>1. unsettled' = [unsettled EXCEPT ![t] = {}]
    BY <1>3 DEF Accepted, Forget
  <2>2. ASSUME NEW q \in Panel, Sees(t, q), PanelHolds(q) PROVE BillingInv'
    <3>1. PICK U : U = {}
      OBVIOUS
    <3>2. U \subseteq Sessions \X (1..MaxKeys) /\ Confirmed(U, q) /\ One(U)
      BY <3>1 DEF Confirmed, One
    <3> QED
      BY <2>1, <2>2, <3>1, <3>2, PanelStep
  <2>3. ASSUME NEW f \in Phases, Sees(t, Settled(Holds(p, f))) PROVE BillingInv'
    <3>1. Holds(p, f) \in Panel /\ Holds(p, f).kind = "purchase"
      BY <1>1, PanelForms
    <3>2. Settled(Holds(p, f)) \in Panel /\ Settled(Holds(p, f)).kind # "review" /\ Settled(Holds(p, f)).ask = "idle"
      BY <3>1, PanelForms DEF Phases
    <3> QED
      BY <2>2, <2>3, <3>2, ShowsOther
  <2>4. CASE GoesOn(t, Holds(p, "held"), "advance")
    <3> DEFINE h == Holds(p, "held")
               q == [h EXCEPT !.ask = "advance", !.token = p.token]
    <3>1. h \in Panel /\ h.kind = "purchase" /\ p.token \in 0..MaxLogins
      BY <1>1, PanelForms DEF Phases, Panel
    <3>2. Sees(t, q)
      BY <2>4 DEF GoesOn
    <3> HIDE DEF h
    <3>3. q \in Panel /\ q.kind = "purchase" /\ q.ask = "advance" /\ q.token = p.token
      BY <3>1 DEF Panel
    <3> HIDE DEF q
    <3>4. PanelHolds(q)
      BY <1>1, <3>3 DEF PanelHolds
    <3> QED
      BY <2>2, <3>2, <3>3, <3>4
  <2> QED
    BY <1>3, <2>3, <2>4 DEF Accepted
<1> QED
  BY <1>2, <1>3

LEMMA TermsChangedStep ==
    ASSUME SessionInv, BillingInv, NEW t \in Tabs, TermsChanged(t)
    PROVE  BillingInv'
<1> DEFINE p == panel[t]
           U == unsettled[t] \ {<<p.token, p.key>>}
<1>1. /\ p.ask = "confirm" /\ p \in Panel /\ Ends(t, Nobody(p)) /\ unsettled' = [unsettled EXCEPT ![t] = U]
  BY PanelFacts DEF TermsChanged
<1>2. U \subseteq Sessions \X (1..MaxKeys) /\ One(U)
  BY PanelFacts DEF One
<1>3. \A u \in U : u[1] <= issued /\ u[1] # stored
  <2> SUFFICES ASSUME NEW u \in unsettled[t], u # <<p.token, p.key>>
               PROVE  u[1] <= issued /\ u[1] # stored
    OBVIOUS
  <2>1. u = <<u[1], u[2]>>
    BY PanelFacts
  <2> QED
    BY <1>1, <2>1, PanelFacts DEF Confirmed
<1>4. PICK q \in Panel : Sees(t, q) /\ q.kind # "review" /\ q.ask = "idle"
  <2>1. Nobody(p) \in Panel /\ Nobody(p).kind = "none"
    BY <1>1, PanelForms DEF Phases
  <2>2. /\ Settled(Nobody(p)) \in Panel /\ Settled(Nobody(p)).kind # "review" /\ Settled(Nobody(p)).ask = "idle"
        /\ Unavailable(Nobody(p)) \in Panel /\ Unavailable(Nobody(p)).kind # "review"
        /\ Unavailable(Nobody(p)).ask = "idle"
    BY <2>1, PanelForms DEF Phases
  <2> QED
    BY <1>1, <2>2 DEF Ends
<1>5. Confirmed(U, q)
  BY <1>3 DEF Confirmed
<1> HIDE DEF U
<1> QED
  BY <1>1, <1>2, <1>4, <1>5, ShowsOther, PanelStep

LEMMA LostStep ==
    ASSUME SessionInv, BillingInv, NEW t \in Tabs, Lost(t)
    PROVE  BillingInv'
<1>1. panel[t].ask \in {"confirm", "advance"} /\ panel[t] \in Panel /\ UNCHANGED unsettled
  BY PanelFacts DEF Lost
<1>2. /\ panel[t].kind = "review" <=> panel[t].ask = "confirm"
      /\ panel[t].kind = "review" => panel[t].key \in 1..MaxKeys
  BY <1>1, PanelFacts DEF PanelHolds
<1>3. CASE panel[t].ask = "advance"
  <2>1. GoesOn(t, panel[t], "saved")
    BY <1>3 DEF Lost
  <2> QED
    BY <1>1, <1>2, <1>3, <2>1, GoesOnStep
<1>4. CASE panel[t].ask = "confirm" /\ stored = panel[t].token
  <2>1. GoesOn(t, panel[t], "inspect")
    BY <1>4 DEF Lost
  <2> QED
    BY <1>1, <1>2, <1>4, <2>1, GoesOnStep
<1>5. CASE panel[t].ask = "confirm" /\ stored # panel[t].token
  <2>1. Ends(t, panel[t])
    BY <1>5 DEF Lost
  <2> QED
    BY <1>1, <1>2, <1>5, <2>1, EndsStep
<1> QED
  BY <1>1, <1>3, <1>4, <1>5

LEMMA PanelNextHolds ==
    ASSUME SessionInv, BillingInv, NEW t \in Tabs, PanelNext(t)
    PROVE  BillingInv'
<1>1. CASE ConfirmFailed(t)
  BY <1>1, FailsStep DEF ConfirmFailed
<1> QED
  BY <1>1, PanelAsks, ConfirmStep, RefreshAnsweredStep, TermsStep, AcceptedStep, TermsChangedStep, LostStep
     DEF PanelNext

-----------------------------------------------------------------------------
(* The purchases of the account page and the widget *)

LEMMA CabinetStep ==
    ASSUME SessionInv, BillingInv, NEW t \in Tabs, NEW c \in Cabinet, Becomes(t, c),
           CabinetHolds(t, c), WidgetHolds(t, c)
    PROVE  BillingInv'
<1>1. cabinet' = [cabinet EXCEPT ![t] = c] /\ UNCHANGED <<svars, panel, unsettled>>
  BY DEF Becomes
<1>2. cabinet \in [Tabs -> Cabinet]
  BY DEF BillingInv, BillingTypeOK
<1>3. UNCHANGED <<stored, issued, events, page, view>>
  BY <1>1 DEF svars
<1>4. \A u \in Tabs : cabinet'[u] = IF u = t THEN c ELSE cabinet[u]
  BY <1>1, <1>2
<1>5. BillingTypeOK'
  BY <1>1, <1>2 DEF BillingInv, BillingTypeOK
<1>6. ConfirmationsHold' /\ OneEach' /\ PanelsHold'
  BY <1>1, <1>3 DEF BillingInv, ConfirmationsHold, OneEach, PanelsHold, Confirmed, PanelHolds
<1>7. CabinetsHold'
  BY <1>3, <1>4 DEF BillingInv, CabinetsHold, CabinetHolds
<1>8. \A u \in Tabs : WidgetHolds(u, cabinet'[u])
  BY <1>4, Widgets DEF BillingInv
<1>9. WidgetComesOrFails'
  BY <1>3, <1>8 DEF WidgetComesOrFails, WidgetHolds
<1> QED
  BY <1>5, <1>6, <1>7, <1>9 DEF BillingInv

LEMMA CabinetFacts ==
    ASSUME SessionInv, BillingInv, NEW t \in Tabs
    PROVE  /\ cabinet[t] \in Cabinet /\ CabinetHolds(t, cabinet[t]) /\ WidgetHolds(t, cabinet[t])
           /\ stored \in 0..MaxLogins /\ None \in 0..MaxLogins
BY Basics, Widgets DEF BillingInv, BillingTypeOK, CabinetsHold

\* A step that touches the lists only.
LEMMA ListStep ==
    ASSUME SessionInv, BillingInv, NEW t \in Tabs, NEW c \in Cabinet, Becomes(t, c),
           cabinet[t].on = "on", c.on = "on", c.chosen = cabinet[t].chosen, c.shown = cabinet[t].shown,
           c.token = cabinet[t].token, c.opening = cabinet[t].opening, c.frame = cabinet[t].frame,
           c.widget = cabinet[t].widget, c.timer = cabinet[t].timer
    PROVE  BillingInv'
<1>1. CabinetHolds(t, c) /\ WidgetHolds(t, c)
  BY CabinetFacts DEF CabinetHolds, WidgetHolds, Showing
<1> QED
  BY <1>1, CabinetStep

\* A step after which there is no widget, or one that says it has failed.
LEMMA ClosedStep ==
    ASSUME SessionInv, BillingInv, NEW t \in Tabs, NEW c \in Cabinet, Becomes(t, c),
           cabinet[t].on # "off", c.on = "on", ~c.opening, c.frame = "none", ~c.timer,
           c.widget \in {"closed", "error"}
    PROVE  BillingInv'
<1>1. CabinetHolds(t, c) /\ WidgetHolds(t, c)
  BY CabinetFacts DEF CabinetHolds, WidgetHolds, Showing
<1> QED
  BY <1>1, CabinetStep

LEMMA CabinetForms ==
    ASSUME NEW c \in Cabinet
    PROVE  /\ {Closed(c), WidgetFails(c), Disposed(c)} \subseteq Cabinet
           /\ \A d \in {Closed(c), WidgetFails(c)} :
                  d.on = c.on /\ ~d.opening /\ d.frame = "none" /\ ~d.timer /\ d.widget \in {"closed", "error"}
           /\ Disposed(c).on = c.on /\ Disposed(c).opening = c.opening /\ Disposed(c).frame = "none"
           /\ ~Disposed(c).timer /\ Disposed(c).widget = c.widget /\ Disposed(c).token = c.token
           /\ Disposed(c).chosen = c.chosen /\ Disposed(c).shown = c.shown
           /\ Closed(c).chosen = c.chosen
<1>1. None \in 0..MaxLogins
  BY WebAssumption DEF None
<1>2. /\ Closed(c) \in Cabinet /\ Closed(c).on = c.on /\ Closed(c).opening = FALSE /\ Closed(c).frame = "none"
      /\ Closed(c).timer = FALSE /\ Closed(c).widget = "closed" /\ Closed(c).chosen = c.chosen
  <2>1. Closed(c) \in Cabinet
    BY <1>1, ZenonT(60) DEF Closed, Cabinet
  <2> QED
    BY <2>1 DEF Closed, Cabinet
<1>3. /\ WidgetFails(c) \in Cabinet /\ WidgetFails(c).on = c.on /\ WidgetFails(c).opening = FALSE
      /\ WidgetFails(c).frame = "none" /\ WidgetFails(c).timer = FALSE /\ WidgetFails(c).widget = "error"
  BY <1>2 DEF WidgetFails, Cabinet
<1>4. /\ Disposed(c) \in Cabinet /\ Disposed(c).on = c.on /\ Disposed(c).opening = c.opening
      /\ Disposed(c).frame = "none" /\ Disposed(c).timer = FALSE /\ Disposed(c).widget = c.widget
      /\ Disposed(c).token = c.token /\ Disposed(c).chosen = c.chosen /\ Disposed(c).shown = c.shown
  <2>1. Disposed(c) \in Cabinet
    BY ZenonT(60) DEF Disposed, Cabinet
  <2> QED
    BY <2>1 DEF Disposed, Cabinet
<1> QED
  BY <1>2, <1>3, <1>4

LEMMA ListsStep ==
    ASSUME SessionInv, BillingInv, NEW t \in Tabs, ListMore(t) \/ Listed(t) \/ DeepAnswered(t)
    PROVE  BillingInv'
<1> DEFINE c == cabinet[t]
<1>1. c \in Cabinet /\ stored \in 0..MaxLogins /\ None \in 0..MaxLogins
  BY CabinetFacts
<1>2. CASE c.on = "on"
  <2>1. CASE ListMore(t)
    <3> DEFINE d == [c EXCEPT !.list = "loading", !.listing = stored]
    <3>1. Becomes(t, d)
      BY <2>1 DEF ListMore
    <3>2. d \in Cabinet /\ d.on = c.on /\ d.chosen = c.chosen /\ d.shown = c.shown /\ d.token = c.token
          /\ d.opening = c.opening /\ d.frame = c.frame /\ d.widget = c.widget /\ d.timer = c.timer
      BY <1>1 DEF Cabinet
    <3> HIDE DEF d
    <3> QED
      BY <1>2, <3>1, <3>2, ListStep
  <2>2. CASE Listed(t)
    <3>1. PICK S \in SUBSET Purchases, more \in BOOLEAN, list \in {"loading", "ready", "error"} :
             \/ Becomes(t, [c EXCEPT !.listing = None])
             \/ Becomes(t, [c EXCEPT !.items = S, !.more = more, !.list = list, !.listing = None])
             \/ Becomes(t, [c EXCEPT !.list = list, !.listing = None])
      BY <2>2 DEF Listed
    <3>2. PICK d : /\ Becomes(t, d)
                   /\ \/ d = [c EXCEPT !.listing = None]
                      \/ d = [c EXCEPT !.items = S, !.more = more, !.list = list, !.listing = None]
                      \/ d = [c EXCEPT !.list = list, !.listing = None]
      BY <3>1
    <3>3. d \in Cabinet /\ d.on = c.on /\ d.chosen = c.chosen /\ d.shown = c.shown /\ d.token = c.token
          /\ d.opening = c.opening /\ d.frame = c.frame /\ d.widget = c.widget /\ d.timer = c.timer
      <4> HIDE DEF c
      <4>1. CASE d = [c EXCEPT !.listing = None]
        BY <1>1, <4>1 DEF Cabinet
      <4>2. CASE d = [c EXCEPT !.items = S, !.more = more, !.list = list, !.listing = None]
        BY <1>1, <4>2 DEF Cabinet
      <4>3. CASE d = [c EXCEPT !.list = list, !.listing = None]
        BY <1>1, <4>3 DEF Cabinet
      <4> QED
        BY <3>2, <4>1, <4>2, <4>3
    <3> QED
      BY <1>2, <3>2, <3>3, ListStep
  <2>3. CASE DeepAnswered(t)
    <3>1. PICK found \in BOOLEAN, deep \in {"loading", "ready", "error"} :
             \/ Becomes(t, [c EXCEPT !.deepening = None])
             \/ Becomes(t, [c EXCEPT !.deep = deep, !.found = found, !.deepening = None])
             \/ Becomes(t, [c EXCEPT !.deep = deep, !.deepening = None])
      BY <2>3 DEF DeepAnswered
    <3>2. PICK d : /\ Becomes(t, d)
                   /\ \/ d = [c EXCEPT !.deepening = None]
                      \/ d = [c EXCEPT !.deep = deep, !.found = found, !.deepening = None]
                      \/ d = [c EXCEPT !.deep = deep, !.deepening = None]
      BY <3>1
    <3>3. d \in Cabinet /\ d.on = c.on /\ d.chosen = c.chosen /\ d.shown = c.shown /\ d.token = c.token
          /\ d.opening = c.opening /\ d.frame = c.frame /\ d.widget = c.widget /\ d.timer = c.timer
      <4> HIDE DEF c
      <4>1. CASE d = [c EXCEPT !.deepening = None]
        BY <1>1, <4>1 DEF Cabinet
      <4>2. CASE d = [c EXCEPT !.deep = deep, !.found = found, !.deepening = None]
        BY <1>1, <4>2 DEF Cabinet
      <4>3. CASE d = [c EXCEPT !.deep = deep, !.deepening = None]
        BY <1>1, <4>3 DEF Cabinet
      <4> QED
        BY <3>2, <4>1, <4>2, <4>3
    <3> QED
      BY <1>2, <3>2, <3>3, ListStep
  <2> QED
    BY <2>1, <2>2, <2>3
<1>3. c.on = "on"
  <2>1. c.on = "off" => c = NoCabinet
    BY CabinetFacts DEF CabinetHolds
  <2>2. c.on = "new" => c = NewCabinet
    BY CabinetFacts DEF CabinetHolds
  <2>3. /\ NoCabinet.on = "off" /\ NoCabinet.listing = None /\ NoCabinet.deepening = None
        /\ NewCabinet.on = "new" /\ NewCabinet.listing = None /\ NewCabinet.deepening = None
    BY DEF NoCabinet, NewCabinet
  <2>4. c.on \in {"off", "new", "on"}
    BY <1>1 DEF Cabinet
  <2> QED
    BY <2>1, <2>2, <2>3, <2>4 DEF ListMore, Listed, DeepAnswered
<1> QED
  BY <1>2, <1>3

LEMMA OpensStep ==
    ASSUME SessionInv, BillingInv, NEW t \in Tabs, Opens(t)
    PROVE  BillingInv'
<1>1. PICK p \in Addresses, list \in {"loading", "error"}, chosen \in Purchases \cup {Account, ByDefault},
           deep \in {"ready", "loading", "error"}, deepening \in 0..MaxLogins :
         Becomes(t, [NoCabinet EXCEPT !.on = "on", !.listing = stored, !.address = p, !.list = list,
                                      !.chosen = chosen, !.deep = deep, !.deepening = deepening])
  <2>1. PICK p \in Addresses :
           Becomes(t, [NoCabinet EXCEPT !.on = "on", !.listing = stored, !.address = p,
                         !.list = IF stored = None THEN "error" ELSE "loading",
                         !.chosen = IF p = Account THEN ByDefault ELSE p,
                         !.deep = IF p = Account THEN "ready"
                                  ELSE IF stored = None THEN "error" ELSE "loading",
                         !.deepening = IF p = Account THEN None ELSE stored])
    BY DEF Opens
  <2> DEFINE list == IF stored = None THEN "error" ELSE "loading"
             chosen == IF p = Account THEN ByDefault ELSE p
             deep == IF p = Account THEN "ready" ELSE IF stored = None THEN "error" ELSE "loading"
             deepening == IF p = Account THEN None ELSE stored
  <2>2. chosen \in Purchases \cup {Account, ByDefault} /\ deepening \in 0..MaxLogins
    BY BillingAssumption, CabinetFacts
  <2>3. Becomes(t, [NoCabinet EXCEPT !.on = "on", !.listing = stored, !.address = p, !.list = list,
                                     !.chosen = chosen, !.deep = deep, !.deepening = deepening])
    BY <2>1
  <2>4. list \in {"loading", "error"} /\ deep \in {"ready", "loading", "error"}
    OBVIOUS
  <2> HIDE DEF list, chosen, deep, deepening
  <2> QED
    BY <2>2, <2>3, <2>4
<1>2. PICK c : /\ Becomes(t, c)
               /\ c = [NoCabinet EXCEPT !.on = "on", !.listing = stored, !.address = p, !.list = list,
                                        !.chosen = chosen, !.deep = deep, !.deepening = deepening]
  BY <1>1
<1>3. p \in Purchases \cup {Account} /\ NoCabinet \in Cabinet
  BY BillingAssumption, NewParts
<1>4. /\ c \in Cabinet /\ c.on = "on" /\ c.opening = NoCabinet.opening /\ c.frame = NoCabinet.frame
      /\ c.timer = NoCabinet.timer /\ c.widget = NoCabinet.widget
  BY <1>2, <1>3, CabinetFacts DEF Cabinet
<1>5. ~NoCabinet.opening /\ NoCabinet.frame = "none" /\ ~NoCabinet.timer /\ NoCabinet.widget = "closed"
  BY DEF NoCabinet
<1>6. cabinet[t].on # "off"
  BY DEF Opens
<1> QED
  BY <1>2, <1>4, <1>5, <1>6, ClosedStep

LEMMA ClosesStep ==
    ASSUME SessionInv, BillingInv, NEW t \in Tabs, Close(t) \/ Choose(t)
    PROVE  BillingInv'
<1> DEFINE c == cabinet[t]
<1>1. /\ c \in Cabinet /\ c.on = "on" /\ None \in 0..MaxLogins
  BY CabinetFacts DEF Close, Choose, CabinetHolds
<1>2. /\ Closed(c) \in Cabinet /\ Closed(c).on = "on" /\ ~Closed(c).opening /\ Closed(c).frame = "none"
      /\ ~Closed(c).timer /\ Closed(c).widget \in {"closed", "error"}
  BY <1>1, CabinetForms
<1>3. CASE Close(t)
  <2>1. Becomes(t, Closed(c))
    BY <1>3 DEF Close
  <2> QED
    BY <1>1, <1>2, <2>1, ClosedStep
<1>4. CASE Choose(t)
  <2>1. PICK p \in Offered(c) \cup {Account} : Becomes(t, Chosen(c, p))
    BY <1>4 DEF Choose
  <2>2. p \in Purchases \cup {Account}
    BY <1>1 DEF Offered, Cabinet
  <2>3. /\ Chosen(c, p) \in Cabinet /\ Chosen(c, p).on = "on" /\ ~Chosen(c, p).opening
        /\ Chosen(c, p).frame = "none" /\ ~Chosen(c, p).timer /\ Chosen(c, p).widget \in {"closed", "error"}
    BY <1>1, <1>2, <2>2 DEF Chosen, Cabinet
  <2> QED
    BY <1>1, <2>1, <2>3, ClosedStep
<1> QED
  BY <1>3, <1>4

\* A widget is opened for a purchase that is selected, with the stored session.
LEMMA OpeningStep ==
    ASSUME SessionInv, BillingInv, NEW t \in Tabs, NEW c \in Cabinet, NEW p \in Purchases \cup {Account},
           cabinet[t].on = "on", c.on = "on", c.chosen = p, Becomes(t, Opening(c, p))
    PROVE  BillingInv'
<1>1. /\ Closed(c) \in Cabinet /\ Closed(c).on = "on" /\ Closed(c).opening = FALSE /\ Closed(c).frame = "none"
      /\ Closed(c).timer = FALSE /\ Closed(c).chosen = p
  BY CabinetForms
<1>2. CASE stored = None
  <2>1. Becomes(t, [Closed(c) EXCEPT !.widget = "error"])
    BY <1>2 DEF Opening
  <2>2. PICK d : d = [Closed(c) EXCEPT !.widget = "error"]
    OBVIOUS
  <2>3. /\ d \in Cabinet /\ d.on = "on" /\ ~d.opening /\ d.frame = "none" /\ ~d.timer
        /\ d.widget \in {"closed", "error"}
    BY <1>1, <2>2 DEF Cabinet
  <2> QED
    BY <2>1, <2>2, <2>3, ClosedStep
<1>3. CASE stored # None
  <2>1. PICK d : d = [Closed(c) EXCEPT !.widget = "loading", !.opening = TRUE, !.shown = p, !.token = stored]
    OBVIOUS
  <2>2. Becomes(t, d)
    BY <1>3, <2>1 DEF Opening
  <2>3. /\ d \in Cabinet /\ d.on = "on" /\ d.opening = TRUE /\ d.frame = "none" /\ d.timer = FALSE
        /\ d.widget = "loading" /\ d.shown = p /\ d.token = stored /\ d.chosen = p
    BY <1>1, <2>1, CabinetFacts DEF Cabinet
  <2>4. p # ByDefault
    BY BillingAssumption
  <2>5. CabinetHolds(t, d) /\ WidgetHolds(t, d)
    BY <2>3, <2>4, CabinetFacts DEF CabinetHolds, WidgetHolds, Showing
  <2> QED
    BY <2>2, <2>3, <2>5, CabinetStep
<1> QED
  BY <1>2, <1>3

LEMMA OpenStep ==
    ASSUME SessionInv, BillingInv, NEW t \in Tabs, OpenSelected(t) \/ Manage(t)
    PROVE  BillingInv'
<1> DEFINE c == cabinet[t]
<1>1. c \in Cabinet /\ c.on = "on"
  BY CabinetFacts DEF OpenSelected, Manage
<1>2. CASE OpenSelected(t)
  <2>1. PICK p : p = Named(c)
    OBVIOUS
  <2>2. p \in Purchases \cup {Account} /\ Becomes(t, Opening(Frozen(c), p))
    BY <1>2, <2>1, BillingAssumption DEF OpenSelected
  <2>3. Frozen(c) \in Cabinet /\ Frozen(c).on = "on" /\ Frozen(c).chosen = p
    BY <1>1, <2>1, <2>2 DEF Frozen, Cabinet
  <2> QED
    BY <1>1, <2>2, <2>3, OpeningStep
<1>3. CASE Manage(t)
  <2>1. PICK p \in c.items \cap Linked : Becomes(t, Opening(Chosen(c, p), p))
    BY <1>3 DEF Manage
  <2>2. p \in Purchases \cup {Account}
    BY <2>1, BillingAssumption
  <2>3. Closed(c) \in Cabinet /\ Closed(c).on = "on" /\ None \in 0..MaxLogins
    BY <1>1, CabinetForms, CabinetFacts
  <2>4. Chosen(c, p) \in Cabinet /\ Chosen(c, p).on = "on" /\ Chosen(c, p).chosen = p
    BY <2>2, <2>3 DEF Chosen, Cabinet
  <2> QED
    BY <1>1, <2>1, <2>2, <2>4, OpeningStep
<1> QED
  BY <1>2, <1>3

\* The widget is taken off the page; the page of a changed session is about to
\* be told.
LEMMA DisposedStep ==
    ASSUME SessionInv, BillingInv, NEW t \in Tabs, NEW d \in Cabinet, Becomes(t, d),
           Showing(cabinet[t]), stored # cabinet[t].token,
           d = Disposed(cabinet[t]) \/ d = [cabinet[t] EXCEPT !.opening = FALSE]
    PROVE  BillingInv'
<1> DEFINE c == cabinet[t]
<1>1. c \in Cabinet /\ CabinetHolds(t, c) /\ WidgetHolds(t, c)
  BY CabinetFacts
<1>2. /\ d.on = c.on /\ d.widget = c.widget /\ d.token = c.token /\ d.chosen = c.chosen /\ d.shown = c.shown
      /\ Showing(d) => Showing(c) /\ (d.timer => d.frame # "none")
      /\ d.frame \notin {"none", "mounted"} => d.timer
  <2>1. CASE d = Disposed(c)
    BY <1>1, <2>1, CabinetForms DEF Showing
  <2>2. CASE d = [c EXCEPT !.opening = FALSE]
    <3>1. /\ d.on = c.on /\ d.widget = c.widget /\ d.token = c.token /\ d.chosen = c.chosen /\ d.shown = c.shown
          /\ d.frame = c.frame /\ d.timer = c.timer /\ d.opening = FALSE
      BY <1>1, <2>2 DEF Cabinet
    <3> QED
      BY <1>1, <3>1 DEF CabinetHolds, WidgetHolds, Showing
  <2> QED
    BY <2>1, <2>2
<1>3. c.on = "on" /\ events[t] > 0
  BY <1>1 DEF CabinetHolds
<1>4. CabinetHolds(t, d)
  <2>1. d.timer => d.frame # "none"
    <3>1. CASE d = Disposed(c)
      BY <1>1, <3>1, CabinetForms
    <3>2. CASE d = [c EXCEPT !.opening = FALSE]
      <4>1. d.frame = c.frame /\ d.timer = c.timer
        BY <1>1, <3>2 DEF Cabinet
      <4> QED
        BY <1>1, <4>1 DEF CabinetHolds
    <3> QED
      BY <3>1, <3>2
  <2> QED
    BY <1>1, <1>2, <1>3, <2>1 DEF CabinetHolds
<1>5. WidgetHolds(t, d)
  BY <1>2, <1>3 DEF WidgetHolds
<1> QED
  BY <1>4, <1>5, CabinetStep

LEMMA FateStep ==
    ASSUME SessionInv, BillingInv, NEW t \in Tabs, Showing(cabinet[t]), Becomes(t, Fate(cabinet[t]))
    PROVE  BillingInv'
<1> DEFINE c == cabinet[t]
<1>1. c \in Cabinet /\ c.on = "on"
  BY CabinetFacts DEF CabinetHolds
<1>2. CASE stored = c.token
  <2>1. Becomes(t, WidgetFails(c))
    BY <1>2 DEF Fate
  <2>2. /\ WidgetFails(c) \in Cabinet /\ WidgetFails(c).on = "on" /\ ~WidgetFails(c).opening
        /\ WidgetFails(c).frame = "none" /\ ~WidgetFails(c).timer /\ WidgetFails(c).widget \in {"closed", "error"}
    BY <1>1, CabinetForms
  <2> QED
    BY <1>1, <2>1, <2>2, ClosedStep
<1>3. CASE stored # c.token
  <2>1. Becomes(t, Disposed(c)) /\ Disposed(c) \in Cabinet
    BY <1>1, <1>3, CabinetForms DEF Fate
  <2> QED
    BY <1>3, <2>1, DisposedStep
<1> QED
  BY <1>2, <1>3

LEMMA BootstrapStep ==
    ASSUME SessionInv, BillingInv, NEW t \in Tabs, Bootstrapped(t)
    PROVE  BillingInv'
<1> DEFINE c == cabinet[t]
<1>1. c \in Cabinet /\ c.on = "on" /\ c.opening /\ Showing(c) /\ CabinetHolds(t, c)
  BY CabinetFacts DEF Bootstrapped, CabinetHolds, Showing
<1>2. CASE Becomes(t, WidgetFails(c))
  <2>1. /\ WidgetFails(c) \in Cabinet /\ WidgetFails(c).on = "on" /\ ~WidgetFails(c).opening
        /\ WidgetFails(c).frame = "none" /\ ~WidgetFails(c).timer /\ WidgetFails(c).widget \in {"closed", "error"}
    BY <1>1, CabinetForms
  <2> QED
    BY <1>1, <1>2, <2>1, ClosedStep
<1>3. CASE stored # c.token /\ Becomes(t, [c EXCEPT !.opening = FALSE])
  <2>1. [c EXCEPT !.opening = FALSE] \in Cabinet
    BY <1>1 DEF Cabinet
  <2> QED
    BY <1>1, <1>3, <2>1, DisposedStep
<1>4. CASE /\ IsCurrent(c)
           /\ Becomes(t, [c EXCEPT !.opening = FALSE, !.widget = "open", !.frame = "blank", !.timer = TRUE])
  <2>1. PICK d : d = [c EXCEPT !.opening = FALSE, !.widget = "open", !.frame = "blank", !.timer = TRUE]
    OBVIOUS
  <2>2. /\ d \in Cabinet /\ d.on = "on" /\ d.widget = "open" /\ d.frame = "blank" /\ d.timer = TRUE
        /\ d.chosen = c.chosen /\ d.shown = c.shown /\ d.token = c.token
    BY <1>1, <2>1 DEF Cabinet
  <2>3. CabinetHolds(t, d) /\ WidgetHolds(t, d)
    BY <1>1, <2>2 DEF CabinetHolds, WidgetHolds, Showing
  <2> QED
    BY <1>4, <2>1, <2>2, <2>3, CabinetStep
<1> QED
  BY <1>2, <1>3, <1>4 DEF Bootstrapped

LEMMA FrameNext ==
    ASSUME SessionInv, BillingInv, NEW t \in Tabs, FrameStep(t) \/ FrameFails(t) \/ TimesOut(t)
    PROVE  BillingInv'
<1> DEFINE c == cabinet[t]
<1>1. c \in Cabinet /\ c.on = "on" /\ Showing(c) /\ CabinetHolds(t, c) /\ WidgetHolds(t, c)
  BY CabinetFacts DEF FrameStep, FrameFails, TimesOut, CabinetHolds, Showing
<1>2. CASE FrameStep(t)
  <2>1. PICK at \in {"connected", "handed", "rendered", "mounted"} : Becomes(t, Comes(c, at))
    BY <1>2 DEF FrameStep
  <2>2. CASE IsCurrent(c)
    <3>1. PICK d : d = [c EXCEPT !.frame = at, !.timer = Deadline(at)]
      OBVIOUS
    <3>2. /\ d \in Cabinet /\ d.on = "on" /\ d.frame = at /\ d.timer = Deadline(at)
          /\ d.opening = c.opening /\ d.widget = c.widget
          /\ d.chosen = c.chosen /\ d.shown = c.shown /\ d.token = c.token
      <4>1. Deadline(at) \in BOOLEAN
        BY DEF Deadline
      <4> QED
        BY <1>1, <3>1, <4>1 DEF Cabinet
    <3>3. CabinetHolds(t, d)
      BY <1>1, <2>1, <3>2 DEF CabinetHolds, Showing
    <3>4. WidgetHolds(t, d)
      BY <1>1, <2>1, <3>2 DEF WidgetHolds, Deadline
    <3> QED
      BY <2>1, <2>2, <3>1, <3>2, <3>3, <3>4, CabinetStep DEF Comes
  <2>3. CASE ~IsCurrent(c)
    <3>1. Becomes(t, Disposed(c)) /\ Disposed(c) \in Cabinet /\ stored # c.token
      BY <1>1, <2>1, <2>3, CabinetForms DEF Comes, IsCurrent
    <3> QED
      BY <1>1, <3>1, DisposedStep
  <2> QED
    BY <2>2, <2>3
<1>3. CASE FrameFails(t) \/ TimesOut(t)
  <2>1. Becomes(t, Fate(c))
    BY <1>3 DEF FrameFails, TimesOut
  <2> QED
    BY <1>1, <2>1, FateStep
<1> QED
  BY <1>2, <1>3

LEMMA CabinetNextHolds ==
    ASSUME SessionInv, BillingInv, NEW t \in Tabs, CabinetNext(t)
    PROVE  BillingInv'
BY OpensStep, ListsStep, ClosesStep, OpenStep, BootstrapStep, FrameNext DEF CabinetNext

LEMMA SessionStutters ==
    ASSUME SessionInv, UNCHANGED svars
    PROVE  SessionInv'
<1>0. UNCHANGED <<stored, issued, dead, events, site, page, link, view, modal, auths, sent>>
  BY DEF svars
<1>1. SessionTypeOK'
  BY <1>0 DEF SessionInv, SessionTypeOK
<1>2. ViewsAreMade'
  BY <1>0 DEF SessionInv, ViewsAreMade, Readers
<1>3. SitesHold'
  BY <1>0 DEF SessionInv, SitesHold
<1>4. LoadsAreAwaited'
  BY <1>0 DEF SessionInv, LoadsAreAwaited, Readers
<1>5. RequestsHavePlaces'
  BY <1>0 DEF SessionInv, RequestsHavePlaces, Readers
<1>6. TokensAreOld'
  BY <1>0 DEF SessionInv, TokensAreOld
<1>7. ShownIsStored'
  BY <1>0 DEF SessionInv, ShownIsStored, Readers, Watched, Fits
<1> QED
  BY <1>1, <1>2, <1>3, <1>4, <1>5, <1>6, <1>7 DEF SessionInv

-----------------------------------------------------------------------------
(* Theorems *)

\* Whatever the tabs do and whenever they are answered, the invariant holds.
THEOREM Invariant == Spec => []WebInv
<1>1. Init => WebInv
  <2> SUFFICES ASSUME Init PROVE WebInv
    OBVIOUS
  <2>1. SessionInv
    BY SessionBegins DEF Init
  <2>2. BillingTypeOK
    BY NewParts DEF Init, BillingTypeOK
  <2>3. ConfirmationsHold /\ OneEach
    BY DEF Init, ConfirmationsHold, OneEach, Confirmed, One
  <2>4. PanelsHold
    BY DEF Init, PanelsHold, PanelHolds, Off
  <2>5. NoCabinet.on = "off" /\ ~Showing(NoCabinet) /\ NoCabinet.widget = "closed" /\ ~NoCabinet.timer
        /\ NoCabinet.frame = "none"
    BY DEF NoCabinet, Showing
  <2>6. \A t \in Tabs : cabinet[t] = NoCabinet
    BY DEF Init
  <2>7. CabinetsHold /\ WidgetComesOrFails
    BY <2>5, <2>6 DEF CabinetsHold, CabinetHolds, WidgetComesOrFails
  <2> QED
    BY <2>1, <2>2, <2>3, <2>4, <2>7 DEF WebInv, BillingInv
<1>2. WebInv /\ [Next]_vars => WebInv'
  <2> SUFFICES ASSUME WebInv, [Next]_vars PROVE WebInv'
    OBVIOUS
  <2>1. CASE SessionNext /\ Follows
    BY <2>1, SessionStep, BillingFollows DEF WebInv, StepHolds
  <2>2. ASSUME NEW t \in Tabs, PanelNext(t) PROVE WebInv'
    <3>1. UNCHANGED svars
      BY <2>2 DEF PanelNext, Start, Loaded, Buy, Refresh, Continue, Confirm, RefreshAnswered, BeforeAnswered,
                  TermsAnswered, Accepted, TermsChanged, Lost, ConfirmFailed, FindsPurchase, Fails, Ends, GoesOn,
                  Run, Sees
    <3>2. SessionInv'
      BY <3>1, SessionStutters DEF WebInv
    <3> QED
      BY <2>2, <3>2, PanelNextHolds DEF WebInv
  <2>3. ASSUME NEW t \in Tabs, CabinetNext(t) PROVE WebInv'
    <3>1. UNCHANGED svars
      BY <2>3 DEF CabinetNext, Opens, ListMore, Listed, DeepAnswered, Close, Choose, OpenSelected, Manage,
                  Bootstrapped, FrameStep, FrameFails, TimesOut, Becomes
    <3>2. SessionInv'
      BY <3>1, SessionStutters DEF WebInv
    <3> QED
      BY <2>3, <3>2, CabinetNextHolds DEF WebInv
  <2>4. CASE UNCHANGED vars
    <3>1. SessionInv'
      BY <2>4, SessionStutters DEF WebInv, vars
    <3>2. BillingInv'
      BY <2>4 DEF WebInv, vars, svars, bvars, BillingInv, BillingTypeOK, ConfirmationsHold, OneEach, PanelsHold,
                  CabinetsHold, WidgetComesOrFails, Confirmed, PanelHolds, CabinetHolds
    <3> QED
      BY <3>1, <3>2 DEF WebInv
  <2> QED
    BY <2>1, <2>2, <2>3, <2>4 DEF Next
<1> QED
  BY <1>1, <1>2, PTL DEF Spec

THEOREM TypeCorrect == Spec => []TypeOK
<1>1. WebInv => TypeOK
  BY DEF WebInv, SessionInv, BillingInv, BillingTypeOK, TypeOK
<1> QED
  BY <1>1, Invariant, PTL

\* No part of any tab goes on showing what does not fit the stored session,
\* unless an event or an answer is coming to it.
THEOREM ShownFits == Spec => []ShownIsStored
<1>1. WebInv => ShownIsStored
  BY DEF WebInv, SessionInv
<1> QED
  BY <1>1, Invariant, PTL

\* A session is let go or replaced for a cause that is about it.
THEOREM ChangesForCause == Spec => SessionChangesForCause
<1>1. WebInv /\ [Next]_vars =>
         [stored' # stored /\ sent' # sent => IF stored' = None THEN LetGo(stored) ELSE Brought(stored')]_svars
  <2> SUFFICES ASSUME WebInv, [Next]_vars, ~UNCHANGED svars PROVE Caused
    BY DEF Caused
  <2>1. CASE SessionNext /\ Follows
    BY <2>1, SessionStepCaused DEF WebInv
  <2>2. ASSUME NEW t \in Tabs, PanelNext(t) PROVE UNCHANGED svars
    BY <2>2 DEF PanelNext, Start, Loaded, Buy, Refresh, Continue, Confirm, RefreshAnswered, BeforeAnswered,
                TermsAnswered, Accepted, TermsChanged, Lost, ConfirmFailed, FindsPurchase, Fails, Ends, GoesOn,
                Run, Sees
  <2>3. ASSUME NEW t \in Tabs, CabinetNext(t) PROVE UNCHANGED svars
    BY <2>3 DEF CabinetNext, Opens, ListMore, Listed, DeepAnswered, Close, Choose, OpenSelected, Manage,
                Bootstrapped, FrameStep, FrameFails, TimesOut, Becomes
  <2> QED
    BY <2>1, <2>2, <2>3 DEF Next, vars
<1> QED
  BY <1>1, Invariant, PTL DEF Spec, SessionChangesForCause

\* A panel that has sent a confirmation and does not know what became of it
\* never sends another in its place.
THEOREM ConfirmedOnce == Spec => []OneConfirmation
<1>1. WebInv => OneConfirmation
  <2> SUFFICES ASSUME WebInv, NEW t \in Tabs, NEW s \in Sessions
               PROVE  Cardinality({k \in 1..MaxKeys : <<s, k>> \in unsettled[t]}) <= 1
    BY DEF OneConfirmation
  <2> DEFINE K == {k \in 1..MaxKeys : <<s, k>> \in unsettled[t]}
  <2>1. \A j, k \in K : j = k
    <3> SUFFICES ASSUME NEW j \in K, NEW k \in K PROVE j = k
      OBVIOUS
    <3>1. <<s, j>> \in unsettled[t] /\ <<s, k>> \in unsettled[t] /\ <<s, j>>[1] = <<s, k>>[1]
      OBVIOUS
    <3>2. <<s, j>> = <<s, k>>
      BY <3>1 DEF WebInv, BillingInv, OneEach, One
    <3> QED
      BY <3>2
  <2> HIDE DEF K
  <2>2. ASSUME K = {} PROVE Cardinality(K) <= 1
    <3>1. Cardinality(K) = 0
      BY <2>2, FS_EmptySet
    <3> QED
      BY <3>1
  <2>3. ASSUME K # {} PROVE Cardinality(K) <= 1
    <3>1. PICK k : k \in K
      BY <2>3
    <3>2. K = {k}
      BY <2>1, <3>1
    <3>3. Cardinality(K) = 1
      BY <3>2, FS_Singleton
    <3> QED
      BY <3>3
  <2> QED
    BY <2>2, <2>3 DEF K
<1> QED
  BY <1>1, Invariant, PTL

\* The widget is of the purchase the page names, and a frame of the user shown.
THEOREM PaidAsShown == Spec => []PaysAsShown
<1>1. WebInv => PaysAsShown
  <2> SUFFICES ASSUME WebInv, NEW t \in Tabs
               PROVE  LET c == cabinet[t] IN
                      /\ c.opening \/ c.frame # "none" => c.shown = Named(c)
                      /\ c.frame # "none" =>
                            /\ c.token # view[t]["page"].user \/ stored # c.token => events[t] > 0
    BY DEF PaysAsShown
  <2> DEFINE c == cabinet[t]
  <2>1. SessionInv /\ BillingInv /\ CabinetHolds(t, c)
    BY DEF WebInv, BillingInv, CabinetsHold
  <2>2. c.opening \/ c.frame # "none" => c.shown = Named(c)
    BY <2>1 DEF CabinetHolds, Showing, Named
  <2>3. ASSUME c.frame # "none", ~(events[t] > 0) PROVE c.token = stored /\ view[t]["page"].user = stored
    <3>1. c.token = stored /\ page[t] = "cabinet" /\ view[t]["page"].status = "user"
      BY <2>1, <2>3 DEF CabinetHolds, Showing
    <3>2. "page" \in Readers(t)
      BY <2>1, <3>1, PagesAreSites
    <3>3. Watched(t, "page") \/ Fits(t, "page", stored)
      BY <2>1, <3>2 DEF SessionInv, ShownIsStored
    <3>4. ~Watched(t, "page")
      BY <2>1, <2>3, <3>1, NoPageLoad DEF Watched, IsLoadOf
    <3> QED
      BY <3>1, <3>3, <3>4 DEF Fits
  <2> QED
    BY <2>2, <2>3
<1> QED
  BY <1>1, Invariant, PTL

\* An open widget has a frame, mounted or with a deadline, or is about to go.
THEOREM WidgetComes == Spec => []WidgetComesOrFails
<1>1. WebInv => WidgetComesOrFails
  BY DEF WebInv, BillingInv
<1> QED
  BY <1>1, Invariant, PTL
==================================================================================
