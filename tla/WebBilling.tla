-------------------------------- MODULE WebBilling --------------------------------
(***************************************************************************)
(* What the user buys and pays with in a page: the purchase panel of the   *)
(* product page (features/billing/ProductBilling.tsx) and the purchases    *)
(* and billing widget of the account page (AccountBilling.tsx,             *)
(* use-account-purchases.ts, use-billing-widget.ts,                        *)
(* official-widget-sdk.ts), composed with WebSession.                      *)
(*                                                                         *)
(* Both parts exist while their page shows a user: any session change      *)
(* takes them off the page.  A new one begins from nothing.                *)
(***************************************************************************)
EXTENDS WebSession

CONSTANTS
    Purchases,  \* purchases of the user
    Linked,     \* those that are prepared, and can be paid
    Addresses,  \* what the address of the account page may name: a purchase, or Account
    Account,    \* the widget shows the account and no purchase
    ByDefault,  \* nothing is selected, a single purchase is
    MaxKeys     \* bound: reviews opened in a panel

ASSUME BillingAssumption ==
    /\ IsFiniteSet(Purchases) /\ Linked \subseteq Purchases
    /\ Addresses \subseteq Purchases \cup {Account}
    /\ Account \notin Purchases /\ ByDefault \notin Purchases \cup {Account}
    /\ MaxKeys \in Nat

VARIABLES
    panel,      \* the purchase panel of each tab
    unsettled,  \* confirmations a panel has sent and knows nothing of
    cabinet     \* the billing part of the account page of each tab

bvars == <<panel, unsettled, cabinet>>
vars  == <<svars, bvars>>

-----------------------------------------------------------------------------
(* The purchase panel.  It has at most one request under way (busy).        *)

Phases == {"held", "linked", "released"}    \* of the purchase shown

Panel == [kind : {"off", "new", "loading", "unavailable", "none", "review", "purchase"},
          phase : Phases, key : 0..MaxKeys, submitted : BOOLEAN, token : 0..MaxLogins,
          ask : {"idle", "load", "status", "current", "before", "terms",
                 "confirm", "inspect", "advance", "saved"}]

Off == [kind |-> "off", phase |-> "held", key |-> 0, submitted |-> FALSE, token |-> None, ask |-> "idle"]

Unavailable(p) == [Off EXCEPT !.kind = "unavailable", !.key = p.key]
Nobody(p)      == [Off EXCEPT !.kind = "none", !.key = p.key]
Holds(p, f)    == [Off EXCEPT !.kind = "purchase", !.phase = f, !.key = p.key]
Settled(p)     == [p EXCEPT !.ask = "idle", !.token = None]

Sees(tab, p) == panel' = [panel EXCEPT ![tab] = p] /\ UNCHANGED <<svars, cabinet>>

Forget(tab) == unsettled' = [unsettled EXCEPT ![tab] = {}]

\* The effect of the new panel.
Start(tab) ==
    /\ panel[tab].kind = "new"
    /\ Sees(tab, [Off EXCEPT !.kind = "loading", !.ask = "load", !.token = stored])
    /\ UNCHANGED unsettled

Loaded(tab) ==
    LET p == panel[tab] IN
    /\ p.ask = "load"
    /\ IF stored # p.token THEN Sees(tab, Settled(p))
       ELSE \/ Sees(tab, Unavailable(p))
            \/ p.token # None /\ \E q \in {Nobody(p), Holds(p, "held"), Holds(p, "linked")} : Sees(tab, q)
    /\ UNCHANGED unsettled

\* run: a click sends a request with the session stored now.
Run(tab, p, ask) ==
    /\ panel[tab].ask = "idle" /\ stored # None
    /\ Sees(tab, [p EXCEPT !.ask = ask, !.token = stored])

MayBuy(p) == p.kind = "none" \/ (p.kind = "purchase" /\ p.phase = "released")

Buy(tab) == MayBuy(panel[tab]) /\ Run(tab, panel[tab], "before") /\ UNCHANGED unsettled

Refresh(tab) ==
    LET p == panel[tab] IN
    /\ p.kind \in {"unavailable", "review", "purchase"}
    /\ p.kind = "purchase" => p.phase # "linked"
    /\ Run(tab, p, IF p.kind = "purchase" THEN "status" ELSE "current")
    /\ UNCHANGED unsettled

Continue(tab) ==
    LET p == panel[tab] IN
    /\ p.kind = "purchase" /\ p.phase = "held"
    /\ Run(tab, p, "advance")
    /\ UNCHANGED unsettled

\* All documents are ticked; the request and its key stay as they are.
Confirm(tab) ==
    LET p == panel[tab] IN
    /\ p.kind = "review"
    /\ Run(tab, [p EXCEPT !.submitted = TRUE], "confirm")
    /\ unsettled' = [unsettled EXCEPT ![tab] = @ \cup {<<stored, p.key>>}]

\* A run goes on with another request, or ends: what a panel that was left in a
\* changed session showed is unknown (finally).
Ends(tab, p) == Sees(tab, IF stored = panel[tab].token THEN Settled(p) ELSE Unavailable(p))

GoesOn(tab, p, ask) == Sees(tab, [p EXCEPT !.ask = ask, !.token = panel[tab].token])

\* A purchase that is shown settles what became of the confirmation.
FindsPurchase(tab, phases) ==
    /\ \E f \in phases : Ends(tab, Holds(panel[tab], f))
    /\ IF stored = panel[tab].token THEN Forget(tab) ELSE UNCHANGED unsettled

Fails(tab) == Ends(tab, panel[tab]) /\ UNCHANGED unsettled

\* Mutation: nothing found is taken for nothing bought.
Empty_Released(p) == Nobody(p)

\* A submitted review outlives an answer that shows no purchase.
Empty(p) == IF p.kind = "review" THEN p ELSE Nobody(p)

RefreshAnswered(tab) ==
    \/ /\ panel[tab].ask \in {"status", "current", "before", "inspect", "advance", "saved"}
       /\ FindsPurchase(tab, IF panel[tab].ask \in {"status", "saved", "advance"} THEN Phases ELSE {"held", "linked"})
    \/ panel[tab].ask \in {"status", "current", "before", "terms", "inspect", "saved", "advance"} /\ Fails(tab)
    \/ panel[tab].ask = "current" /\ Ends(tab, Empty(panel[tab])) /\ UNCHANGED unsettled

\* No purchase is held: ask for the terms.
BeforeAnswered(tab) ==
    /\ panel[tab].ask = "before"
    /\ IF stored = panel[tab].token THEN GoesOn(tab, panel[tab], "terms") ELSE Ends(tab, panel[tab])
    /\ UNCHANGED unsettled

\* A review has a key of its own.
TermsAnswered(tab) ==
    LET p == panel[tab] IN
    /\ p.ask = "terms" /\ p.key < MaxKeys
    /\ Ends(tab, [Off EXCEPT !.kind = "review", !.key = p.key + 1])
    /\ UNCHANGED unsettled

\* The confirmation is accepted: unless the purchase is finished, go on with it.
Accepted(tab) ==
    LET p == panel[tab] IN
    /\ p.ask = "confirm"
    /\ IF stored # p.token THEN Ends(tab, p) /\ UNCHANGED unsettled
       ELSE /\ \/ \E f \in Phases : Sees(tab, Settled(Holds(p, f)))
               \/ GoesOn(tab, Holds(p, "held"), "advance")
            /\ Forget(tab)

\* The terms have changed: refused before anything was done.
TermsChanged(tab) ==
    LET p == panel[tab] IN
    /\ p.ask = "confirm" /\ Ends(tab, Nobody(p))
    /\ unsettled' = [unsettled EXCEPT ![tab] = @ \ {<<p.token, p.key>>}]

\* The answer was lost, or another purchase is held: look once.
Lost(tab) ==
    LET p == panel[tab] IN
    /\ p.ask \in {"confirm", "advance"}
    /\ IF p.ask = "advance" THEN GoesOn(tab, p, "saved")
       ELSE IF stored = p.token THEN GoesOn(tab, p, "inspect") ELSE Ends(tab, p)
    /\ UNCHANGED unsettled

\* Any other refusal of the confirmation keeps it as it is.
ConfirmFailed(tab) == panel[tab].ask = "confirm" /\ Fails(tab)

PanelNext(tab) ==
    \/ Start(tab) \/ Loaded(tab)
    \/ Buy(tab) \/ Refresh(tab) \/ Continue(tab) \/ Confirm(tab)
    \/ RefreshAnswered(tab) \/ BeforeAnswered(tab) \/ TermsAnswered(tab)
    \/ Accepted(tab) \/ TermsChanged(tab) \/ Lost(tab) \/ ConfirmFailed(tab)

-----------------------------------------------------------------------------
(* The billing part of the account page: the list of purchases, the         *)
(* selected one, and the widget of the billing system in a frame.           *)

\* list, more: the list of purchases, and whether there is another page of it;
\* chosen: what the user has selected; deep: whether the purchase of the address,
\* asked about on its own, is there.  listing, deepening: the sessions of the requests under way.
\* widget: opening has a request under way; frame: how far the frame has come;
\* shown: what it was opened for; token: the session that asked; timer: its
\* deadline.
Cabinet == [on : {"off", "new", "on"}, items : SUBSET Purchases, more : BOOLEAN,
            list : {"loading", "ready", "error"}, listing : 0..MaxLogins,
            chosen : Purchases \cup {Account, ByDefault}, address : Purchases \cup {Account},
            deep : {"loading", "ready", "error"}, found : BOOLEAN, deepening : 0..MaxLogins,
            widget : {"closed", "loading", "open", "error"}, opening : BOOLEAN,
            shown : Purchases \cup {Account}, token : 0..MaxLogins,
            frame : {"none", "blank", "connected", "handed", "rendered", "mounted"},
            timer : BOOLEAN]

NoCabinet == [on |-> "off", items |-> {}, more |-> FALSE, list |-> "loading", listing |-> None,
              chosen |-> ByDefault, address |-> Account, deep |-> "ready", found |-> FALSE, deepening |-> None,
              widget |-> "closed", opening |-> FALSE, shown |-> Account, token |-> None,
              frame |-> "none", timer |-> FALSE]

NewCabinet == [NoCabinet EXCEPT !.on = "new"]

Becomes(tab, c) == cabinet' = [cabinet EXCEPT ![tab] = c] /\ UNCHANGED <<svars, panel, unsettled>>

\* The effects of the new part: it lists the purchases, and asks about the one
\* of the address; without a session both fail at once.
Opens(tab) ==
    /\ cabinet[tab].on = "new"
    /\ \E p \in Addresses :
        Becomes(tab, [NoCabinet EXCEPT !.on = "on", !.listing = stored, !.address = p,
                          !.list = IF stored = None THEN "error" ELSE "loading",
                          !.chosen = IF p = Account THEN ByDefault ELSE p,
                          !.deep = IF p = Account THEN "ready"
                                   ELSE IF stored = None THEN "error" ELSE "loading",
                          !.deepening = IF p = Account THEN None ELSE stored])

ListMore(tab) ==
    LET c == cabinet[tab] IN
    /\ c.on = "on" /\ c.listing = None /\ (c.more \/ c.list = "error") /\ stored # None
    /\ Becomes(tab, [c EXCEPT !.list = "loading", !.listing = stored])

\* The list has two pages at most.
Listed(tab) ==
    LET c == cabinet[tab] IN
    /\ c.listing # None
    /\ IF stored # c.listing THEN Becomes(tab, [c EXCEPT !.listing = None])
       ELSE \/ \E S \in SUBSET Purchases :
                 /\ c.items \subseteq S
                 /\ \E more \in {S # {} /\ S # Purchases /\ ~c.more, FALSE} :
                        Becomes(tab, [c EXCEPT !.items = S, !.more = more, !.list = "ready", !.listing = None])
            \/ Becomes(tab, [c EXCEPT !.list = "error", !.listing = None])

DeepAnswered(tab) ==
    LET c == cabinet[tab] IN
    /\ c.deepening # None
    /\ IF stored # c.deepening THEN Becomes(tab, [c EXCEPT !.deepening = None])
       ELSE \/ Becomes(tab, [c EXCEPT !.deep = "ready", !.found = TRUE, !.deepening = None])
            \/ Becomes(tab, [c EXCEPT !.deep = "error", !.deepening = None])

Offered(c) == c.items \cup (IF c.found THEN {c.address} ELSE {})

Default(c) == IF c.list = "ready" /\ ~c.more /\ Cardinality(c.items) = 1
              THEN CHOOSE p \in c.items : TRUE ELSE Account

\* What the page names as the selected purchase.
Named(c) == IF c.chosen = ByDefault THEN Default(c) ELSE c.chosen

Blocked(c) == c.deep # "ready" \/ (Named(c) # Account /\ Named(c) \notin Offered(c))

\* clear, close: whatever is under way is given up, the frame removed.
Closed(c) == [c EXCEPT !.widget = "closed", !.opening = FALSE, !.shown = Account, !.token = None,
                       !.frame = "none", !.timer = FALSE]

Close(tab) == cabinet[tab].widget # "closed" /\ Becomes(tab, Closed(cabinet[tab]))

Chosen(c, p) == [Closed(c) EXCEPT !.chosen = p, !.deep = "ready", !.deepening = None]

Choose(tab) ==
    LET c == cabinet[tab] IN
    /\ c.on = "on" /\ c.deep # "loading"
    /\ \E p \in Offered(c) \cup {Account} : Becomes(tab, Chosen(c, p))

\* open: the request for a credential; without a session there is none.
Opening(c, p) ==
    IF stored = None THEN [Closed(c) EXCEPT !.widget = "error"]
    ELSE [Closed(c) EXCEPT !.widget = "loading", !.opening = TRUE, !.shown = p, !.token = stored]

\* Mutation: what is shown as selected by default may change while it opens.
Frozen_Not(c) == c

\* openSelected: what is named now is selected from now on.
Frozen(c) == [c EXCEPT !.chosen = Named(c)]

OpenSelected(tab) ==
    LET c == cabinet[tab] IN
    /\ c.on = "on" /\ ~Blocked(c) /\ c.widget # "loading" /\ ~c.opening
    /\ Named(c) \in Linked \cup {Account}
    /\ Becomes(tab, Opening(Frozen(c), Named(c)))

Manage(tab) ==
    LET c == cabinet[tab] IN
    /\ c.on = "on"
    /\ \E p \in c.items \cap Linked : Becomes(tab, Opening(Chosen(c, p), p))

\* isCurrent of the opening: a session change or a newer opening has closed it.
IsCurrent(c) == stored = c.token

WidgetFails(c) == [Closed(c) EXCEPT !.widget = "error"]

\* The credential has come: a frame is made for it, unless it is too late or its
\* addresses are refused.
Bootstrapped(tab) ==
    LET c == cabinet[tab] IN
    /\ c.opening
    /\ \/ Becomes(tab, IF stored = c.token THEN WidgetFails(c) ELSE [c EXCEPT !.opening = FALSE])
       \/ ~IsCurrent(c) /\ Becomes(tab, WidgetFails(c))
       \/ /\ IsCurrent(c)
          /\ Becomes(tab, [c EXCEPT !.opening = FALSE, !.widget = "open", !.frame = "blank", !.timer = TRUE])

\* The frame is removed; the page is told unless the session has changed.
Disposed(c) == [c EXCEPT !.frame = "none", !.timer = FALSE]

Fate(c) == IF stored = c.token THEN WidgetFails(c) ELSE Disposed(c)

\* Mutation: what has rendered is taken for mounted.
Deadline_Rendered(at) == at \notin {"rendered", "mounted"}

\* The deadline stands until the vendor's own frame is ready.
Deadline(at) == at # "mounted"

Comes(c, at) == IF IsCurrent(c) THEN [c EXCEPT !.frame = at, !.timer = Deadline(at)] ELSE Disposed(c)

\* The frame loads, asks for the options, has rendered, is ready: each step is
\* looked at with the session of the moment.  The options go once.
FrameStep(tab) ==
    LET c == cabinet[tab] IN
    \/ c.frame = "blank"     /\ Becomes(tab, Comes(c, "connected"))
    \/ c.frame = "connected" /\ Becomes(tab, Comes(c, "handed"))
    \/ c.frame = "handed"    /\ Becomes(tab, Comes(c, "rendered"))
    \/ c.frame = "rendered"  /\ Becomes(tab, Comes(c, "mounted"))

FrameFails(tab) ==
    LET c == cabinet[tab] IN
    c.frame \in {"handed", "rendered"} /\ Becomes(tab, Fate(c))

TimesOut(tab) ==
    LET c == cabinet[tab] IN
    c.timer /\ c.frame # "mounted" /\ Becomes(tab, Fate(c))

CabinetNext(tab) ==
    \/ Opens(tab) \/ ListMore(tab) \/ Listed(tab) \/ DeepAnswered(tab)
    \/ Close(tab) \/ Choose(tab) \/ OpenSelected(tab) \/ Manage(tab)
    \/ Bootstrapped(tab) \/ FrameStep(tab) \/ FrameFails(tab) \/ TimesOut(tab)

-----------------------------------------------------------------------------
(* Composition *)

TypeOK ==
    /\ SessionTypeOK
    /\ panel \in [Tabs -> Panel]
    /\ unsettled \in [Tabs -> SUBSET (Sessions \X (1..MaxKeys))]
    /\ cabinet \in [Tabs -> Cabinet]

Init ==
    /\ SessionInit
    /\ panel = [t \in Tabs |-> Off] /\ unsettled = [t \in Tabs |-> {}]
    /\ cabinet = [t \in Tabs |-> NoCabinet]

\* The parts are on the page while it shows a user; another user, or the same
\* one read again, gets new ones.
Has(tab, what) == page'[tab] = what /\ view'[tab]["page"].status = "user"

Follows ==
    LET same(tab) == view'[tab]["page"] = view[tab]["page"] IN
    /\ panel' = [t \in Tabs |-> IF same(t) THEN panel[t]
                                ELSE IF Has(t, "product") THEN [Off EXCEPT !.kind = "new"] ELSE Off]
    /\ unsettled' = [t \in Tabs |-> IF same(t) THEN unsettled[t] ELSE {}]
    /\ cabinet' = [t \in Tabs |-> IF same(t) THEN cabinet[t]
                                  ELSE IF Has(t, "cabinet") THEN NewCabinet ELSE NoCabinet]

Next ==
    \/ SessionNext /\ Follows
    \/ \E tab \in Tabs : PanelNext(tab) \/ CabinetNext(tab)

Spec == Init /\ [][Next]_vars

-----------------------------------------------------------------------------
(* Properties *)

\* Of the confirmations that a panel has sent under one session, at most one may
\* still have been accepted unseen: a lost one is repeated under its own key,
\* never under another, until it is known what became of it (confirm, refresh).
OneConfirmation ==
    \A tab \in Tabs : \A s \in Sessions :
        Cardinality({k \in 1..MaxKeys : <<s, k>> \in unsettled[tab]}) <= 1

\* A widget that opens or is open is for the purchase the page names as selected,
\* whatever list, selection or credential comes late, and a frame holds no
\* credential but one the user shown has asked for; one whose session is not the
\* stored one any more is about to be removed.
PaysAsShown ==
    \A tab \in Tabs : LET c == cabinet[tab] IN
        /\ c.opening \/ c.frame # "none" => c.shown = Named(c)
        /\ c.frame # "none" =>
            /\ c.token # view[tab]["page"].user \/ stored # c.token => events[tab] > 0

\* A widget that is open has a frame, mounted or with a deadline, but for one
\* whose session has just changed: the user is never left before a frame that
\* comes to nothing.
WidgetComesOrFails ==
    \A tab \in Tabs : LET c == cabinet[tab] IN
        /\ c.widget = "open" /\ c.frame = "none" => events[tab] > 0
        /\ c.frame \notin {"none", "mounted"} => c.timer
        /\ c.widget = "loading" /\ ~c.opening => events[tab] > 0
==================================================================================
