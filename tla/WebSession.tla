-------------------------------- MODULE WebSession --------------------------------
(***************************************************************************)
(* The session in the browser: one token in the storage that the tabs of a *)
(* browser share, and in each tab a header and a page that show whose it   *)
(* is (apps/web/src: shared/session, shared/ui/HeaderAccount,              *)
(* features/account, features/email-verification, features/password-reset, *)
(* ProductSession of features/billing).                                    *)
(*                                                                         *)
(* A tab writes the storage and tells its own components at once; the      *)
(* other tabs are told by an event that comes later.  Requests are         *)
(* answered at any time, in any order, or fail.  JavaScript runs to the    *)
(* next await; getItem sees what any tab has written.  An answer nobody    *)
(* waits for any more (refreshId of a load; mounted, epoch and attempt of  *)
(* an operation) changes nothing: its request is left out of the model     *)
(* when its place is taken.                                                *)
(***************************************************************************)
EXTENDS Integers, FiniteSets, Functions

CONSTANTS
    Tabs,
    Sites,          \* bound: what each tab shows in one behaviour
    MaxLogins,      \* bound: sessions the server opens
    MaxAttempts     \* bound: logins submitted, in all tabs

None     == 0
Sessions == 1..MaxLogins

ASSUME WebAssumption ==
    /\ IsFiniteSet(Tabs) /\ MaxLogins \in Nat \ {0} /\ MaxAttempts \in Nat
    /\ Sites \subseteq [Tabs -> {"account", "cabinet", "verify", "product", "reset", "any"}]

\* The account page of a user without and with purchases to look at.  "any": a
\* tab of which only what it writes is modelled.
AccountPages == {"account", "cabinet"}

VARIABLES
    stored,     \* localStorage: the session token
    issued,     \* sessions the server has opened
    dead,       \* sessions the server has refused: logged out, reset, lapsed
    events,     \* storage events a tab has not been given yet
    site,       \* the page a tab is on, when it is not elsewhere
    page,       \* that page, or "away"
    link,       \* the page has a token from a mail
    view,       \* what header and page show
    modal,      \* the login dialog of the header
    auths,      \* currentAuthAttempt: logins submitted in the tab, the newest counts
    sent        \* requests not answered yet

svars == <<stored, issued, dead, events, site, page, link, view, modal, auths, sent>>

\* asked: the session the part has asked about (header: loadedToken).
View == [status : {"loading", "out", "user", "error", "verified"},
         user : 0..MaxLogins, asked : 0..MaxLogins]

Out        == [status |-> "out", user |-> None, asked |-> None]
Shows(s)   == [status |-> "user", user |-> s, asked |-> s]
Waits(s)   == [status |-> "loading", user |-> None, asked |-> s]
Failed(s)  == [status |-> "error", user |-> None, asked |-> s]

\* same: no session change was heard since (version); nth: which login of its
\* tab.  The form to ask for another mail stands in the dialog or on the page.
Parts == {"header", "page", "modalPending", "pagePending"}

Request == [tab : Tabs, part : Parts,
            kind : {"load", "auth", "logout", "verify", "resend", "reset"},
            token : 0..MaxLogins, same : BOOLEAN, nth : Nat]

SessionTypeOK ==
    /\ stored \in 0..issued /\ issued \in 0..MaxLogins /\ dead \subseteq 1..issued
    /\ events \in [Tabs -> Nat] /\ site \in Sites
    /\ page \in [Tabs -> {"account", "cabinet", "verify", "product", "reset", "any", "away"}]
    /\ link \in [Tabs -> BOOLEAN]
    /\ view \in [Tabs -> [{"header", "page"} -> View]]
    /\ modal \in [Tabs -> {"closed", "form", "pending"}]
    /\ auths \in [Tabs -> Nat]
    /\ sent \subseteq Request

-----------------------------------------------------------------------------
(* Requests and what hears of a session change *)

Ask(tab, part, kind, s) ==
    [tab |-> tab, part |-> part, kind |-> kind, token |-> s,
     same |-> TRUE, nth |-> IF kind = "auth" THEN auths[tab] + 1 ELSE 0]

Operations(R, tab, part) == {r \in R : r.tab = tab /\ r.part = part /\ r.kind # "load"}

\* begin: an operation takes the place of the one before it in its component.
Begin(tab, part, kind) ==
    (sent \ Operations(sent, tab, part)) \cup {Ask(tab, part, kind, stored)}

Reading(where) == where \in AccountPages \cup {"verify", "product"}

\* The parts of a tab that read the session.
Readers(tab) == IF site[tab] = "any" THEN {}
                ELSE {"header"} \cup (IF Reading(page[tab]) THEN {"page"} ELSE {})

\* Mutation: the header keeps its user whatever session it asks about.
Asks_KeepsUser(part, v, s) ==
    IF s = None THEN Out ELSE IF part = "header" /\ v.user # None THEN v ELSE Waits(s)

\* What a part shows when it asks about session s: the header keeps the user it
\* has already found for s.
Asks(part, v, s) ==
    IF s = None THEN Out ELSE IF part = "header" /\ v.asked = s THEN v ELSE Waits(s)

Loads(tab, parts, s) == IF s = None THEN {} ELSE {Ask(tab, part, "load", s) : part \in parts}

\* The components of a tab are told of a session change.  All that read the
\* session ask again, but the page that has just changed it itself (skip).
Woken(tab, skip) == Readers(tab) \ (IF skip THEN {"page"} ELSE {})

SentAfter(tab, R, s, skip) ==
    LET heard == {IF r.tab = tab THEN [r EXCEPT !.same = FALSE] ELSE r : r \in R}
        old   == {r \in heard : r.tab = tab /\ (r.kind = "load" \/ r.part = "pagePending")}
    IN  (heard \ old) \cup Loads(tab, Woken(tab, skip), s)

ViewAfter(tab, s, skip) ==
    [part \in {"header", "page"} |->
        IF part \in Woken(tab, skip) THEN Asks(part, view[tab][part], s) ELSE view[tab][part]]

\* The browser tells the other tabs of a new value.
EventsAfter(tab, s) ==
    [t \in Tabs |-> IF t = tab \/ s = stored \/ site[t] = "any" THEN events[t] ELSE events[t] + 1]

\* Tab writes s and tells its own components; then a part shows something else.
Changes(tab, R, s, skip, shows) ==
    /\ stored' = s
    /\ events' = EventsAfter(tab, s)
    /\ sent' = SentAfter(tab, R, s, skip)
    /\ view' = [view EXCEPT ![tab] =
                   [part \in {"header", "page"} |->
                       IF part \in DOMAIN shows THEN shows[part] ELSE ViewAfter(tab, s, skip)[part]]]

Nothing == [part \in {} |-> Out]
On(part, v) == [p \in {part} |-> v]

Keeps(R) == sent' = R /\ UNCHANGED <<stored, events, view>>
Turns(R, tab, part, v) == sent' = R /\ view' = [view EXCEPT ![tab][part] = v] /\ UNCHANGED <<stored, events>>

-----------------------------------------------------------------------------
SessionInit ==
    /\ site \in Sites /\ page = site
    /\ issued \in {0, 1} /\ stored = issued /\ dead = {}
    /\ events = [t \in Tabs |-> 0] /\ link = [t \in Tabs |-> TRUE]
    /\ modal = [t \in Tabs |-> "closed"] /\ auths = [t \in Tabs |-> 0]
    /\ view = [t \in Tabs |-> [part \in {"header", "page"} |->
                  IF part \in Readers(t) THEN Asks(part, Out, stored) ELSE Out]]
    /\ sent = UNION {Loads(t, Readers(t), stored) : t \in Tabs}

\* The storage event of another tab's change.
Deliver(tab) ==
    /\ events[tab] > 0
    /\ events' = [events EXCEPT ![tab] = @ - 1]
    /\ sent' = SentAfter(tab, sent, stored, FALSE)
    /\ view' = [view EXCEPT ![tab] = ViewAfter(tab, stored, FALSE)]
    /\ UNCHANGED <<stored, issued, dead, site, page, link, modal, auths>>

\* The server refuses the session: it lapsed, was revoked, or was signed out of.
Denied(r) == dead' = dead \cup {r.token}

-----------------------------------------------------------------------------
(* Asking whose session it is *)

\* acceptResult: the answer is about another session than the stored one.
Superseded(r) == stored # r.token

Reload(r, R) ==
    Turns(R \cup Loads(r.tab, {r.part}, stored), r.tab, r.part, Asks(r.part, view[r.tab][r.part], stored))

Refused(r, R) ==
    IF r.part = "header" THEN Changes(r.tab, R, None, FALSE, Nothing)
    ELSE IF page[r.tab] = "product" THEN Turns(R, r.tab, "page", Out)
    ELSE Changes(r.tab, R, None, TRUE, On("page", Out))

\* Any other failure: the header keeps the user it shows.
LoadFailed(r, R) ==
    IF r.part = "header" /\ view[r.tab]["header"].user # None THEN Keeps(R)
    ELSE Turns(R, r.tab, r.part, Failed(r.token))

LoadAnswered(r) ==
    /\ r \in sent /\ r.kind = "load"
    /\ LET R == sent \ {r} IN
       IF Superseded(r) THEN Reload(r, R)
       ELSE \/ Turns(R, r.tab, r.part, Shows(r.token))
            \/ LoadFailed(r, R)
    /\ UNCHANGED <<issued, dead, site, page, link, modal, auths>>

\* 401: header, account and verification throw the session away.
LoadRefused(r) ==
    /\ r \in sent /\ r.kind = "load"
    /\ Denied(r)
    /\ IF Superseded(r) THEN Reload(r, sent \ {r}) ELSE Refused(r, sent \ {r})
    /\ UNCHANGED <<issued, site, page, link, modal, auths>>

\* retrySessionLoad: the effect is run again.
Retry(tab, part) ==
    /\ view[tab][part].status = "error"
    /\ Turns({r \in sent : ~(r.tab = tab /\ r.part = part /\ r.kind = "load")} \cup Loads(tab, {part}, stored),
             tab, part, Asks(part, Out, stored))
    /\ UNCHANGED <<issued, dead, site, page, link, modal, auths>>

-----------------------------------------------------------------------------
(* Logging in and out *)

\* Mutation: an operation stands as long as its component does.
Current_Mounted(r) == TRUE

\* isCurrent
Current(r) ==
    /\ r.same /\ stored = r.token
    /\ r.kind = "auth" => r.nth = auths[r.tab]

Dialog(tab, from, to) ==
    /\ modal[tab] \in from /\ modal' = [modal EXCEPT ![tab] = to]
    /\ Keeps(sent \ (Operations(sent, tab, "header") \cup Operations(sent, tab, "modalPending")))
    /\ UNCHANGED <<issued, dead, site, page, link, auths>>

OpenDialog(tab)  == site[tab] # "any" /\ view[tab]["header"].status = "out" /\ Dialog(tab, {"closed"}, "form")
CloseDialog(tab) == Dialog(tab, {"form", "pending"}, "closed")

\* The part offers the login form.
Form(tab, part) ==
    IF part = "header" THEN modal[tab] = "form"
    ELSE view[tab]["page"].status = "out" /\ (page[tab] \in AccountPages \/ (page[tab] = "verify" /\ link[tab]))

LoginsLeft == FoldFunction(+, 0, auths) < MaxAttempts

\* A form sends one request at a time (submittingRef, loading).
Submit(tab, part) ==
    /\ part \in {"header", "page"} /\ Form(tab, part)
    /\ LoginsLeft
    /\ \A r \in Operations(sent, tab, part) : r.kind = "auth" => ~r.same
    /\ Keeps(Begin(tab, part, "auth"))
    /\ auths' = [auths EXCEPT ![tab] = @ + 1]
    /\ UNCHANGED <<issued, dead, site, page, link, modal>>

AuthFailed(r) ==
    /\ r \in sent /\ r.kind = "auth"
    /\ Keeps(sent \ {r})
    /\ UNCHANGED <<issued, dead, site, page, link, modal, auths>>

\* The server has opened a session, whether it is still wanted or not.
AuthAnswered(r) ==
    /\ r \in sent /\ r.kind = "auth" /\ issued < MaxLogins
    /\ issued' = issued + 1
    /\ IF ~Current(r) THEN Keeps(sent \ {r}) /\ UNCHANGED modal
       ELSE /\ Changes(r.tab, sent \ {r}, issued', r.part = "page", On(r.part, Shows(issued')))
            /\ IF r.part = "page" THEN UNCHANGED modal
               ELSE \E to \in {"closed", "pending"} : modal' = [modal EXCEPT ![r.tab] = to]
    /\ UNCHANGED <<dead, site, page, link, auths>>

\* logout, switchAccount: at once here, as well as may be at the server.
SignOut(tab) ==
    /\ page[tab] \in AccountPages \cup {"verify"} /\ view[tab]["page"].status = "user"
    /\ page[tab] = "verify" => link[tab]
    /\ IF stored = None
       THEN Turns(sent \ (Operations(sent, tab, "page") \cup Operations(sent, tab, "pagePending")), tab, "page", Out)
       ELSE Changes(tab, Begin(tab, "page", "logout"), None, TRUE, On("page", Out))
    /\ UNCHANGED <<issued, dead, site, page, link, modal, auths>>

LogoutAnswered(r) ==
    /\ r \in sent /\ r.kind = "logout"
    /\ Keeps(sent \ {r})
    /\ UNCHANGED <<issued, dead, site, page, link, modal, auths>>

\* signOutLocally: of the session that could not be read, not of a newer one.
SignOutLocally(tab) ==
    LET failed == view[tab]["page"].asked IN
    /\ page[tab] \in AccountPages /\ view[tab]["page"].status = "error"
    /\ stored \in {None, failed}
    /\ IF stored = None THEN Turns(sent, tab, "page", Out)
       ELSE Changes(tab, sent, None, TRUE, On("page", Out))
    /\ UNCHANGED <<issued, dead, site, page, link, modal, auths>>

-----------------------------------------------------------------------------
(* Mails: verification, another mail, password reset *)

Verify(tab) ==
    /\ page[tab] = "verify" /\ view[tab]["page"].status = "user" /\ link[tab]
    /\ IF stored = None
       THEN Turns(sent \ Operations(sent, tab, "page"), tab, "page", Out)
       ELSE Keeps(Begin(tab, "page", "verify"))
    /\ UNCHANGED <<issued, dead, site, page, link, modal, auths>>

VerifyAnswered(r) ==
    /\ r \in sent /\ r.kind = "verify"
    /\ LET R == sent \ {r} IN
       \/ Keeps(R) /\ UNCHANGED <<link, dead>>
       \/ /\ Current(r)
          /\ Changes(r.tab, R, stored, TRUE, On("page", [Out EXCEPT !.status = "verified"]))
          /\ link' = [link EXCEPT ![r.tab] = FALSE] /\ UNCHANGED dead
       \/ Denied(r) /\ Current(r) /\ Changes(r.tab, R, None, TRUE, On("page", Out)) /\ UNCHANGED link
    /\ UNCHANGED <<issued, site, page, modal, auths>>

\* The user shown may have a mail to confirm.
Resend(tab, part) ==
    /\ \/ part = "modalPending" /\ modal[tab] = "pending"
       \/ /\ part = "pagePending" /\ view[tab]["page"].status = "user"
          /\ page[tab] = "account" \/ (page[tab] = "verify" /\ ~link[tab])
    /\ stored # None
    /\ Operations(sent, tab, part) = {}
    /\ Keeps(Begin(tab, part, "resend"))
    /\ UNCHANGED <<issued, dead, site, page, link, modal, auths>>

ResendAnswered(r) ==
    /\ r \in sent /\ r.kind = "resend"
    /\ \/ Keeps(sent \ {r}) /\ UNCHANGED dead
       \/ Denied(r) /\ Current(r) /\ Changes(r.tab, sent \ {r}, None, FALSE, Nothing)
    /\ UNCHANGED <<issued, site, page, link, modal, auths>>

Reset(tab) ==
    /\ page[tab] = "reset" /\ link[tab]
    /\ Operations(sent, tab, "page") = {}
    /\ Keeps(Begin(tab, "page", "reset"))
    /\ UNCHANGED <<issued, dead, site, page, link, modal, auths>>

\* The server has revoked the sessions of the account; the mail may be of
\* another account than the session here.
ResetAnswered(r) ==
    /\ r \in sent /\ r.kind = "reset"
    /\ LET R == sent \ {r} IN
       \/ Keeps(R) /\ UNCHANGED link
       \/ /\ IF r.token # None /\ Current(r) THEN Changes(r.tab, R, None, FALSE, Nothing) ELSE Keeps(R)
          /\ link' = [link EXCEPT ![r.tab] = FALSE]
    /\ UNCHANGED <<issued, dead, site, page, modal, auths>>

-----------------------------------------------------------------------------
(* Going elsewhere in the same tab, and coming back *)

Leave(tab) ==
    /\ page[tab] \notin {"away", "any"} /\ page' = [page EXCEPT ![tab] = "away"]
    /\ Turns({r \in sent : ~(r.tab = tab /\ r.part \in {"page", "pagePending"})}, tab, "page", Out)
    /\ UNCHANGED <<issued, dead, site, link, modal, auths>>

Enter(tab) ==
    /\ page[tab] = "away" /\ page' = [page EXCEPT ![tab] = site[tab]]
    /\ link' \in {link, [link EXCEPT ![tab] = TRUE]}
    /\ IF Reading(site[tab])
       THEN Turns(sent \cup Loads(tab, {"page"}, stored), tab, "page", Asks("page", Out, stored))
       ELSE Keeps(sent)
    /\ UNCHANGED <<issued, dead, site, modal, auths>>

\* A tab of which nothing else is modelled logs in or out.
Elsewhere(tab) ==
    /\ site[tab] = "any"
    /\ \/ stored # None /\ stored' = None /\ UNCHANGED issued
       \/ issued < MaxLogins /\ stored = None /\ issued' = issued + 1 /\ stored' = issued'
    /\ events' = EventsAfter(tab, stored')
    /\ UNCHANGED <<dead, site, page, link, view, modal, auths, sent>>

-----------------------------------------------------------------------------
SessionNext ==
    \/ \E tab \in Tabs :
        \/ Deliver(tab) \/ OpenDialog(tab) \/ CloseDialog(tab)
        \/ SignOut(tab) \/ SignOutLocally(tab) \/ Verify(tab) \/ Reset(tab)
        \/ Leave(tab) \/ Enter(tab) \/ Elsewhere(tab)
        \/ \E part \in Parts : Resend(tab, part) \/ Submit(tab, part)
        \/ \E part \in {"header", "page"} : Retry(tab, part)
    \/ \E r \in sent :
        \/ LoadAnswered(r) \/ LoadRefused(r) \/ AuthFailed(r) \/ AuthAnswered(r) \/ LogoutAnswered(r)
        \/ VerifyAnswered(r) \/ ResendAnswered(r) \/ ResetAnswered(r)

SessionSpec == SessionInit /\ [][SessionNext]_svars

-----------------------------------------------------------------------------
(* Properties *)

\* Something will make the part look at the storage again.
Watched(tab, part) ==
    \/ events[tab] > 0
    \/ \E r \in sent : r.tab = tab /\ r.part = part /\ r.kind = "load"

\* What a part may show while s is the stored session.  (The product page only
\* calls a refused session a guest's.)
Fits(tab, part, s) ==
    LET v == view[tab][part] IN
    /\ v.status # "loading"
    /\ v.status = "user"  => v.user = s
    /\ v.status = "error" => v.asked = s
    /\ v.status = "out"   => s = None \/ (part = "page" /\ page[tab] = "product" /\ s \in dead)

\* No part of any tab goes on showing a user, a login form, an error or a
\* spinner that does not belong to the stored session, unless it is about to
\* look again: whatever tab logs in or out, and whenever its requests are
\* answered.
ShownIsStored ==
    \A tab \in Tabs : \A part \in Readers(tab) : Watched(tab, part) \/ Fits(tab, part, stored)

\* What lets a session go: the server refused it, the user signed out of it, or
\* set a new password from a page opened under it.
LetGo(s) ==
    \/ s \in dead'
    \/ \E r \in sent' \ sent : r.kind = "logout" /\ r.token = s
    \/ \E r \in sent \ sent' : r.kind = "reset" /\ r.token = s
    \/ \E tab \in Tabs : view[tab]["page"] = Failed(s) /\ view'[tab]["page"] = Out

\* What brings one: the newest login of its tab, sent when the session it
\* replaces was the stored one already.
Brought(s) ==
    \E r \in sent \ sent' : r.kind = "auth" /\ r.token = stored /\ r.nth = auths[r.tab] /\ s = issued'

\* A late answer never throws away a session it is not about, nor puts its own
\* in the place of one it does not know, in this tab or in another.  (A step of
\* Elsewhere answers nothing.)
SessionChangesForCause ==
    [][stored' # stored /\ sent' # sent => IF stored' = None THEN LetGo(stored) ELSE Brought(stored')]_svars
==================================================================================
