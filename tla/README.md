# Specifications of the payments portal

TLA+ models of the payments portal's own logic, the TLC configurations that check them
and TLAPS proofs about them. Paths are relative to the repository; `app/` stands for
`apps/api/app/`.

The portal sells products of a separate kernel. Money and contracts live at an external
billing provider, LBX, which knows users, agreements and subscriptions. The portal has
no shared transaction with LBX, LBX's create requests are not idempotent, and an answer
can be lost. Nearly everything difficult in this code follows from that: create at most
once, recover by reading only, never attach somebody else's object, and never wait
forever.

## 1. Inventory

| Component | State | Operations | Talks to |
|---|---|---|---|
| Customer create operation (`app/domains/billing/customers.py`, `customer_reviews.py`, `app/composition/billing.py`) | rows: customer slot, one operation with `send_fence`, work item with lease, review cases; locals of every opening | reserve, claim, record receipt / failure, release, finish, apply read, recheck, escalate | LBX users; preflight budget; called by purchases |
| Preflight admission (`app/infrastructure/preflight.py`) | `_active`, `_waiting`, `closed`, per budget `_tasks`, `_cleanup_tasks`, deadline | enter, wait, run a source task, protect cleanup, drain, leave, shut down | everything that does outer I/O |
| Purchase preparation and payment openings (`app/domains/purchases/financial.py`, `service.py`, `inventory.py`, `app/composition/purchases.py`, `billing.py`) | rows: purchase intent, product hold, agreement and subscription operations, work items, review cases, linked subscription | accept, advance, recover, claim, receipt, not sent, pending, conflict, terms changed, bind, escalate, open a payment, recheck it | customer operation, LBX agreements and subscriptions, catalog |
| Purchase acceptance over HTTP (`app/composition/purchases.py`, `app/domains/purchases/service.py`) | locals of a review or confirmation; purchase intents by idempotency key, the hold on the product | review, confirm, pin | link, offer and documents |
| Product links (`app/domains/catalog/link_publication.py`, `app/infrastructure/persistence/*`, `app/domains/billing/customer_scope.py`) | product heads, immutable revisions, connection origin | publish, query current, query history | purchases pin the current link |
| Commercial mappings, first version (`app/domains/catalog/publication.py`, `mapping_evidence.py`, `app/integrations/lbx/selected_offer.py`) | revisions of a scope, the scope's lock; locals of an operator's command | read twice, evaluate, append, recover a lost COMMIT | shares table, numbers and lock with product links |
| Password reset, login sessions (`app/domains/identity/services/password_reset.py`, `auth.py`) | users, sessions, reset tokens, rate limits | request and confirm a reset, log in, authenticate, log out | every API call authenticates |
| Registration, email verification (`app/domains/identity/services/auth.py`, `email_verification.py`) | users, verification tokens, evidence | register, verify, resend | legal documents |
| Legal (`app/domains/legal/service.py`, `app/legal_seed.py`) | document versions, acceptance events and acceptances | accept, seed, evidence at registration and purchase | registration, acceptance of purchases |
| LBX client (`app/integrations/lbx/client.py`, `_transport.py`) | one cached provider session, two connection pools | read with one reauthentication and bounded retries, create without retry | LBX |
| Kernel client, catalog, offers (`app/composition/catalog.py`, `app/integrations/kernel/*`, `lbx/current_offer.py`) | locals of a preview | fetch the manifest, read a link, read an offer twice | kernel, LBX client |
| Source resources (`app/composition/sources.py`) | the clients of the process | open, close in order | admissions, clients |
| Web session (`apps/web/src/shared/session`, `HeaderAccount`, account, verification and reset pages) | the stored token, what every part of every tab shows, requests under way | load, log in and out, verify, resend, reset | API, local storage, other tabs |
| Web billing (`apps/web/src/features/billing`) | the purchase panel, the list and selection of the account page, the widget | review, confirm, refresh, advance; list, choose, open, close | API, the provider's frame |
| Account pages, diagnostics, operator commands, HTTP layer, settings, e-mail, observability | none that decides anything | reads, formatting, I/O | - |
| Access, allowances, observations, workers, webhooks | tables only | not written yet | - |

How they interact: a request authenticates, takes the customer's or user's row lock for
each short transaction, and releases it before any provider I/O. All provider I/O runs
as counted tasks under one budget of the admission. Facts read from LBX are applied in a
later transaction guarded by the `send_fence` that was in the snapshot.

Hard behaviours: several openings or advances of one customer at once; snapshots that
are stale when applied; POSTs that time out and are processed later; claims that are
proven unsent next to others that are ambiguous; deadlines passing between two steps;
objects edited by hand at the provider; tasks that ignore cancellation; a slot handed to
a waiter that has just given up; shutdown during cleanup; a session that ends while
others wait for one; offers, links and documents replaced between two reads; commits
whose acknowledgement is lost; late answers and other tabs in the browser.

What makes each component correct:

* customer: no two live sends of one customer, every send recorded before it leaves,
  early release invalidates earlier discoveries, only proven and unshared identities, a
  credential only on a standing proof, every opening ends;
* admission: never more running tasks than slots, no lost wake-up, no lost slot, first
  come first served, cleanup undisturbed, a clean shutdown is clean;
* purchases: at most one request per object and purchase, released only if nothing was
  asked for, bindings own and permanent, linked means bound, a payment only on standing
  proofs; what is accepted is what was shown, and a repeated confirmation is answered
  with its own purchase;
* product links and mappings: one current revision per product, one product per offer, a
  lost acknowledgement never published twice, terms published only while they apply, an
  approval never reused for something else;
* identity: a token works once, a reset ends older sessions, limits count every attempt;
  legal: evidence names documents that were in force together;
* LBX client: a stale 401 never drops a fresh session, few authentications, "not sent"
  is never said of a request that left; catalog: a shown offer stood;
* web: what is shown belongs to the stored session, a lost confirmation is not repeated
  under another key, the widget pays for what the page names.

## 2. The modules

| Module | Models | Composes or implements | Proofs |
|---|---|---|---|
| `CustomerBinding`, `CustomerOps` | customer operation | CustomerOps implements CustomerBinding | `CustomerOpsProofs` |
| `PreflightAdmission` | admission | - | `PreflightAdmissionProofs` |
| `PurchaseEffects`, `PurchaseOps` | preparation, payment openings | PurchaseOps implements PurchaseEffects | `PurchaseOpsProofs` |
| `PasswordReset` | resets, logins | - | `PasswordResetProofs` |
| `LinkRegister`, `ProductLinks` | product links | ProductLinks implements LinkRegister | `ProductLinksProofs` |
| `CreatePromise`, `LbxWire`, `LbxClient` | LBX client | LbxClient implements CreatePromise | `SourcesProofs` |
| `OfferTerms`, `Catalog` | previews of the catalog | - | `SourcesProofs` |
| `Mappings` | first version of publication | extends Catalog's seller and calendar | `SourcesProofs` |
| `Sources` | one process with its clients | LbxClient and Catalog | `SourcesProofs` |
| `Legal`, `Registration`, `EmailVerification`, `PurchaseTerms` | accounts, documents, acceptance | - | `AccountsProofs` |
| `Accounts` | from registration to purchase | the four above | `AccountsProofs` |
| `WebSession`, `WebBilling` | the browser | WebBilling composes WebSession | `WebProofs` |
| `LockOrder` | the locks of all these transactions | - | `PurchaseOpsProofs` |

`MC` modules instantiate these for TLC.

## 3. The customer operation

`CustomerOps` models one customer slot per portal user and any number of *openings* (one
POST of the account Widget each).

| Code | Model |
|---|---|
| `external_billing_customers` | `slot[c]` (binding, id) |
| `external_create_operations` of kind customer | `op[c]` (state, fence, receipt, bound, deadline) |
| lease of the work item | `lease[c]` |
| open review cases | `reviews[c]` |
| locals of `bootstrap_account`/`ensure_customer` and where it awaits | `opening[o]` |
| users of LBX, POSTs under way | `users`, `posts` (external) |
| `utc_now()`, `time.monotonic()` | `clock` |

Each transaction of `customers.py` is one action; each provider call is one action for
its answer, and a create request is three: it leaves (`Dispatch`), LBX processes it at
any later time or never (`ProviderCreates`, `ProviderRefuses`), and the opening sees an
answer, an error or a timeout. Fences are natural numbers that only grow where the code
draws a fresh UUID; nothing compares them except for equality. Failures of a transaction
and cancellation of a request (`TransactionFails`, `Abort`) are possible at every step.
A proof whose id another customer has rolls back and bars its own customer in a second
transaction that compares nothing again (`RecordElsewhere`): others may bind, claim or
recover in between, and the process may die before it.

Assumptions. `Slack` bounds how far local work may overrun the budget: row locks and
statements time out after one and two seconds
(`app/infrastructure/queries/billing_customers.py:24-42`), so `Total + Slack < Window`
(two hours). `Cleanup < Total` is required by the settings. `UniqueEmail` is a promise
of LBX that the repository documents (`docs/SECURITY.md`); no theorem uses it.

`CustomerBinding` is what all this promises about identity: a customer is open, bound,
lost (its key vanished) or barred; an id is proven once and for ever, for one customer.

Properties: `SendsAreSafe` (`OneLiveSend` and `SendIsRecorded`), `LeaseEndsWithFence`,
`OneIdentity` (`BoundIsOurs` and `NoSharedIdentity`), `ProofStands`, `BindingLifecycle`
(refinement), `OpeningEnds` (liveness). Each is explained where it is defined.

Runs:

| Run | Instance | Shows |
|---|---|---|
| `customer_one` | 2 customers, 2 openings of the first, 1 provider id, clock to 4 with `Total`=2, `Cleanup`=1, `Window`=4, 2 edits of outer ids; the second customer may be bound already | a lease can run out while the second opening is still within its budget, POSTs overlap processing; the key is lost, restored and contradicted between the other opening's proof and credential; the user that is found may be the other customer's |
| `customer_live` | 2 openings, fairness | every opening ends |
| `customer_unknown` | 1 opening | violated, see Findings |

The bounds: `MaxTime` stops the clock, `MaxRekeys` limits edits at LBX (one loses or
contradicts a key, two restore it), `EditsEarly` has the last of them come early enough
for an opening to meet it. Two openings are enough for every property that relates a
holder of a claim to a rival; what one opening left in the slot is met by the other. Of
a second customer only what it is bound to matters (`Earlier`); that two customers prove
a user in turn is covered by the proof. `MaxActive` is the limit of the account's
admission.

`VIEW View` (in `MCCustomerOps`) renames fences by their rank among those still held,
forgets which way an ended opening ended and keeps of `first` only whether it is unset,
current or stale. No guard or property looks at more (fences are compared for equality
only, and a new one is larger than all others), so states with one view have the same
futures and the same verdict, for the liveness property too. Openings and provider ids
are symmetric in the safety runs only.

Fairness (`customer_live`): time passes and the event loop runs an opening that has
started. Nothing is assumed of the provider; a wait ends because the budget expires. A
started opening is never starved in the row locks because lock waits are bounded.

## 4. The admission

`PreflightAdmission` models one process's admission object. A step lasts from one
`await` to the next; a future or a done-callback acts in a later step than the one that
sets it, which is where the interleavings come from.

| Code | Model |
|---|---|
| `_active`, `_waiting`, futures | `active`, `waiting`, `waiter` |
| `budget._tasks`, `_cleanup_tasks`, `cancelling()` | `task[o]` (state, depth, protected, cancelled) |
| deadline passed | `expired` |
| `closed`, `aclose()` | `shutdown`, `drained` |

Source tasks are unconstrained: they may ignore cancellation, enter nested cleanup
blocks (to `MaxDepth`) and stop at any time or never.

Properties: `SlotsFollowTasks` (`BoundedSources` and `SlotsReturn`), `NoLostWakeup`,
`NoOvertaking`, `CleanShutdown`, `CleanupUndisturbed`, `OperationEnds`.

| Run | Instance | Shows |
|---|---|---|
| `preflight` | 3 operations, 1 slot, 2 places, cleanup nested twice, fairness | a full pool with two waiters, dead entries before live ones, cancellation and shutdown against protected tasks; every operation ends |

With one slot the third operation waits behind another. Several slots add only releases
that grant several entries at once, and more operations only longer queues; the proofs
cover both.

Fairness: deadlines pass, the loop runs ready coroutines and timers, the drain's timeout
fires. A body or a wait is only assumed to end after its deadline (`asyncio.timeout`,
`wait_for`). Nothing is assumed of source tasks.

## 5. Purchases

`PurchaseOps` models the purchases of one customer and *flows*: advance requests, which
may send, recover commands, which only read and bind, and payment openings, which prove
both objects anew and then hand out the credential of the billing widget.

| Code | Model |
|---|---|
| `purchase_intents.state` | `row[p]` |
| `billing_purchase_scope_holds` | `held` |
| the two financial operations, their work items and open cases | `op[p][kind]` |
| locals of `_prepare` and of a payment opening, and the `Purchase` snapshot they hold | `flow[f]` |
| POSTs that left, objects at LBX, objects whose owner, seller or terms are not the accepted ones | `requests`, `objects`, `strange` (external) |

Every transaction of `financial.py` and `pin_purchase` is one action; so is each read,
answer and provider event. A flow that is refused, fails or is cancelled takes no
further step, and a flow may stop anywhere: this is also the crash of the process. Hence
`CHECK_DEADLOCK FALSE`: when all flows have ended nothing more happens. A request is
identified by purchase, kind and fence, an object by the request that made it.

Simplifications, all towards more behaviour: the two-hour deadline may pass at any time
(`Overdue`); a read may fail at any time; LBX may process any dispatched request
whenever it likes. Simplifications towards less: the several reads of one inventory, or
of one snapshot, are one step; a purchase has one tariff, which the others share, so
that every other subscription is relevant; foreign objects that nobody's request made,
closed subscriptions and renumbered agreements are not there, so the integrity error of
`bind_financial` cannot occur; refusals of `claim_financial` for the customer's or the
session's sake are flows that stop. `work_state`, attempt counts and failure facts have
no influence and are left out. The constraints the model relies on: one hold per user
and product, one operation per purchase and kind
(`app/models/billing_purchase.py:219-353`). The trigger
`guard_financial_create_evidence`
(`apps/api/alembic/versions/20261029_0003_normal_billing.py:150-176`) is not relied on:
`Guarded` states which updates it lets pass, and `BindingsStay` that the code never runs
into it.

`PurchaseEffects` is the promise to the outside: an accepted purchase holds its product,
asks at most once for each object, asks for a subscription only under the agreement it
got, and gives the product up only if it never asked. `AsksOnce` says PurchaseOps
implements it.

Properties: `UnsentIsUnsent`, `BindingsAreOwn`, `BindingsStay`, `AsksOnce`,
`PaymentIsProven`, and `ConflictNeedsDecision`, which is violated. `PaymentIsProven`
asks for the hold, the state and both bindings at the moment of the credential, which is
what the recheck looks at; open conflict cases it does not look at, so the finding
`purchase_review` can, with enough flows, reach as far as a credential.

| Run | Instance | Shows |
|---|---|---|
| `purchase_prepare` | 3 purchases, 2 of them of one product, 2 flows that advance or recover, 1 payment opening, 1 edit | claims, timeouts, reviews and rebinding of one purchase under concurrent flows; a purchase demoted between the proofs of a payment and its credential; inventories that meet another purchase's half-made objects; acceptance after release, the hold as the only gate; in turns with all that, the locks of section 12 |
| `purchase_review` | 1 purchase, 1 advance, 2 recovers, 2 edits | violated, see Findings |

The constraints of `purchase_prepare`: two of the three flows run at a time
(`TwoAtATime`), which suffices for a snapshot made stale by a rival, and a flow that
ended can be followed by the third; recoveries, payments and edits meet one accepted
purchase, several purchases meet only advances (`OnePurchase`), because only the
inventory of an advance looks at another purchase's objects. `MaxEdits` bounds edits at
LBX: one makes an object strange, two restore it. Flows of one kind are symmetric. The
proofs need none of these bounds.

No liveness is claimed: flows are requests a user makes, and the sweep
(`escalate_overdue_financial`, `financial.py:404`) has no caller in the repository.

## 6. Password reset

`PasswordReset` models one user's reset tokens, sessions and limits.

| Code | Model |
|---|---|
| `users.password_hash` | `password`: who set it |
| `magic_link_tokens` of purpose PASSWORD_RESET | `token`, `expired`, `decoys` (rows without user) |
| row locks on them | `holder` |
| `auth_sessions` | `session` |
| `password_reset_rate_limits` | `attempts` |
| transactions of confirmations and requests | `worker` |
| a login between password check and commit; a logout between authentication and delete | `login`, `leaving` |

A confirmation is one READ COMMITTED transaction of three bulk updates and a commit, and
nothing in it locks the user. A bulk update is therefore modelled row by row: the
matching rows are fixed when the statement begins (`BeginOthers`, `BeginPrune`), each is
visited in any order, waited for if locked and looked at again (`TakeRow`). PostgreSQL
fails one transaction of a waiting cycle (`DeadlockVictim`); `Fail` is any other failure
or the death of the process. The new password is flushed by the commit only, because
sessions of the ORM are created with `autoflush=False` (`app/core/database.py:22`). The
lifetime of a token is compared with the time at which its confirmation starts
(`Confirm`); one that runs out while the row is waited for is accepted. The
revocation of sessions is one step: only one confirmation at a time gets there (theorem
`MutualExclusion`), and logouts wait for its rows. `oldTokens` and `oldSessions` are
history: what was outstanding or active when the token was claimed. A token issued
later, by a request during the confirmation, may outlive it; nothing in the repository
promises otherwise.

Left out: registration (section 11), the pruning of counters whose window is over, which
`WindowEnds` stands for, and the hashing of tokens (a token is its hash).

Properties: `ResetIsWhole` (`ResetIsAtomic` and `ResetSweeps`), `ConfirmEnds`, and
`ResetRevokesEverySession`, which is violated.

| Run | Instance | Shows |
|---|---|---|
| `reset_sweep` | 2 confirmations, 2 requests, 1 login, 2 tokens, limits of 1, fairness | confirmations of one token and of two, that wait for each other, for a pruning request, or deadlock; tokens issued and sessions opened between claim and commit |
| `reset_late` | 1 confirmation, 1 request, 1 login | violated, see Findings |

Fairness: a started transaction goes on, and the database breaks deadlocks. Lock waits
have no timeout here, so `ConfirmEnds` rests on exactly that; nothing is assumed of
`Fail`.

## 7. Email verification

`EmailVerification` models one registered user. Both a confirmation and a resend take
the lock on the user's row, and what they do under it is one step; before it, a
confirmation has read its token without the lock (`ConfirmBegin`) and decides on what it
reads again. Time passes in between. `verified` and `used` are timestamps, which the
code compares to recognise the link that verified the email.

| Code | Model |
|---|---|
| `users.email_verified_at` | `verified` |
| `magic_link_tokens` of purpose EMAIL_VERIFICATION | `token` (state, used, created, expires) |
| requests and their locals | `request` |

Properties: `LinksAreSound` (`OneLink` and `RefusedIsNoProof`), `VerifiedInTime`. They
are checked by the run `accounts` (section 11). No liveness: nothing waits for more than
the lock.

## 8. Product links

`ProductLinks` models the links, customers and storage accounts of one provider origin.
An account is not stored anywhere: each transaction infers it from heads and customers
that carry the origin and from retained heads that its own credentials may explain
(`ProvenAccounts`, `Visible`, `Scopes`).

| Code | Model |
|---|---|
| `commercial_mapping_revisions` | `revision`, by revision id |
| `commercial_product_heads` and their `provider_origin` | `head`, `proven` |
| `external_billing_customers`, and whether a create request may have left or an identity is bound | `customer` |
| one `publish` command with its `attempted_id` | `command[c]` |
| a commit that was sent and not acknowledged | `inflight` |
| `lbx_external_billing_account_id`, `lbx_legacy_credential_scope` | `Default`, `Legacy[k]` |

Publications, reservations and acceptances take the connection's advisory lock before
their first read and hold it to the end of the transaction, which is READ COMMITTED, so
each is one action. The exception is a lost acknowledgement: the command goes on while
the database still holds the lock and decides later (`Commits`, `RollsBack`). The
recovery reads without the lock at any time before or after. A reservation or acceptance
whose acknowledgement is lost equals one that happens later, since nothing else can take
the lock in between. The fresh evaluation of a command reads nothing of this state; a
command therefore begins with its transaction. Queries are not actions: `Shows` is what
the catalog's query would answer at once, the properties compare it.

Retained databases (`Databases`): rows written before origins were recorded carry none
(`app/models/billing_projections.py:160-162`); the code recognises such heads, but only
publication may attach an origin to them. `HeadsFit` is all the proofs assume of them.

Left out: validation of stored documents and simulated rows of the first version, which
refuse or are skipped; quantity, provenance and evidence mode, which belong to the
identity of a link but never change for a selection here; other origins, whose rows only
ever add refusals; the product and offer locks, which exclude nothing the connection's
lock does not exclude already. `Use` lets customers gain or lose an outstanding create
request at any time; CustomerOps says when they really do.

Properties: `OneCatalog` (`OneAccount`, `OneOwner`, `AgreeOnCurrent`), `AnswersAreTrue`,
`AcceptedIsCurrent`, and `LinksAreRegisters`: `LinkRegister` is the promise that each
product has one register written by compare-and-set, all in one account.

Run `links_origin`: 2 users, 2 products, 2 offers, 2 commands, the default account and
two credentials with a legacy account each, and every database with at most two retained
rows in legacy accounts (revisions, current or only history, and customers).
`MaxExpected` is 1, so that a product is retargeted once or a retained link replaced,
and both right and wrong numbers are named. Two commands suffice for one to overtake the
other between its lost commit and its recovery; any third actor is a customer. `VIEW`
merges the three ways to be refused, which nothing tells apart; users, products and
offers are symmetric, and so are the two credentials together with their accounts.
`CHECK_DEADLOCK FALSE`: commands end. No liveness: every command is one transaction and
one read, bounded by its deadline.

## 9. The billing client, the catalog and the mappings

Run `sources` checks the three together, `MCSources` says how they take turns.

**Client.** `LbxClient` models any number of reads, creates and `prepare` calls on one
event loop with one cached session. A call is a source task and the caller awaiting it,
which may give up while the task goes on; a step lasts from one await to the next.

| Code | Model |
|---|---|
| `_session`, `_session_lock` | `session`, `lock` |
| sessions LBX opened | `opened` (until when portal and LBX keep each) |
| a source task with its attempts, last session, reauthentication | `call[c]` |
| what a create's caller was told | `told[c]` |
| budgets, shutdown of `source_resources` | `expired`, `shutdown` |
| history: requests of a create that left, sessions a read used | `left`, `carried` |

`LbxWire` is the decoder of one answer: status, code in the body, error field and texts
may contradict each other, and the order of its tests decides. `Meanings` is what its
answers amount to over all of them. `CreatePromise` is what callers of a create rely on:
it leaves at most once, and "not sent" is true for ever.

Properties: `SessionsAreShared` (one authentication at a time, two sessions per read at
most), `SessionsLiveOut` (a session that lives is lost only to a refusal of itself, and
none is used after its life), `CreatePromiseKept` (refinement).

**Catalog.** `Catalog` models a preview: manifest with retries, link, and an offer that
is read as four records, twice. The seller edits records and days pass in between.
`OfferTerms` is `normalize_current_offer`: completeness before sellability, the price of
a day, the agreement of the two price lists and of the two discount lists, and the
fingerprint. The day is fixed when the first read begins, so a read across midnight
shows the offer of the day before; the date a scheduled price ends the current one is
not part of the fingerprint. Every edit brings terms that were not there before: two
equal read sets cannot tell an earlier record that was restored in between in two places
at once from one that stayed.

Property: `OfferStood`, an offer that is shown stood as a whole at one moment.

**Mappings.** `Mappings` models the publication of approved terms in one scope, by
commands that take the seller and the calendar from `Catalog`: a double read with
configured evidence, evaluation, the scope's lock, the checks of replacement approvals,
insert, COMMIT and its recovery. A set of reads is one step here, the mixing of reads is
`Catalog`'s subject. A command may be refused anywhere before its COMMIT (`Refuse`),
which also stands for the wrong expected number, an approval of something else, and the
deadline. `PublishLink` is the current publication, whose rows the first version refuses
to follow. What the model made visible: `published_at` may lie after the last check of
the window before the insert, the check before COMMIT refuses then; when a COMMIT whose
acknowledgement was lost has rolled back and another command publishes the same document
under the same number, the first one reports it as recovered (which is true of the
document). A new legal approval is asked for only when the meaning of the terms has
changed.

Properties: `RevisionsAreSound` (`PublishedInForce` and `ApprovalsPin`),
`ReportsAreTrue`.

Run `sources`: the calls of one behaviour are two reads, a read and a create, or a
prepare and a create, four requests per read (`Limit`), three sessions that live one
tick of two; or no calls: then one preview under two edits and one midnight, or two
commands of operators under one edit and one midnight, with an earlier first revision or
none. Two calls suffice for a waiter behind an authentication and for a late 401 of a
replaced session; three sessions, for a read to be offered a third one. `EachInTime` and
`OneByOne` keep apart what shares no state: releases of the kernel from edits of the
seller, calls from previews, the readings of two commands. `CHECK_DEADLOCK FALSE`:
requests end. No liveness: every call ends with its budget, which `PreflightAdmission`
is about.

## 10. The browser

`WebSession` models the token in local storage, shared by the tabs of a browser, and in
each tab a header and a page that show whose it is. A tab writes the storage and tells
its own components at once; other tabs are told by an event that comes later (`events`).
Answers come in any order or never; those nobody waits for are dropped when their place
is taken. A tab of site "any" stands for tabs of which only what they write matters.

| Code | Model |
|---|---|
| `localStorage` token, storage events | `stored`, `events` |
| states of `HeaderAccount` and of the pages, with the token they loaded | `view` |
| requests with captured token, version, epoch and attempt | `sent`, `auths` |
| the login dialog, the token from a mail | `modal`, `link` |
| sessions at the server, opened and refused | `issued`, `dead` (external) |

`WebBilling` adds the purchase panel (`panel`, with the confirmations it has sent and
knows nothing of, `unsettled`) and the billing part of the account page (`cabinet`:
list, selection, address, widget, frame and its deadline). Both live while their page
shows one user (`Follows`).

Properties: `ShownIsStored`, `SessionChangesForCause`, `OneConfirmation`, `PaysAsShown`,
`WidgetComesOrFails`. They speak of every tab whose event has been delivered: a click in
a tab that has not heard of another tab's login acts with the session stored now. The
product page shows a session that was refused as a guest's without removing it.

Run `web`: two tabs, one of any page and one that only writes, or both account pages;
two logins, two submissions, two purchases, two keys. Two logins let a late answer meet
a newer session; two keys, a second confirmation. `FewDialogs` uses the header's dialog
in one tab, and not over the purchases. `CHECK_DEADLOCK FALSE`: logins are bounded. No
liveness: a frame's deadline is a timer of the browser; `WidgetComesOrFails` says there
always is one.

## 11. Accounts

`Accounts` composes `Registration`, `EmailVerification` and `PurchaseTerms` over the
documents of `Legal`.

| Code | Model |
|---|---|
| `document_versions`, `is_active` | `stored`, `active`; `past` is history |
| acceptances of one document | `acceptance[a]` |
| `register_user` with its locals; the row that committed | `registration[r]`, `account` |
| the product's head and what its revisions select | `head`, `selects` |
| the seller's offers | `offered` (external) |
| reviews and confirmations with their locals | `asked[r]` |
| `purchase_intents`, `billing_purchase_scope_holds` | `purchase`, `hold` |

A release seeds its manifest in one transaction at its start: what it names replaces the
active versions, other types stay, a version with other contents is refused. Deployments
run one replica; two concurrent seeders are not modelled. A registration reads its pack
without a lock, so the evidence may be of a pack replaced meanwhile; what holds is that
the pack is complete, was active as a whole at some moment of the registration, and that
each of its documents was effective at the time the evidence gives, `accepted_at`
(`EvidenceStood`; `at` in the model). That time is taken before the pack is read, so a
pack that becomes effective at the midnight in between is refused, not dated back. A
single acceptance takes its time after the document was found. Consents sent by a client
carry no version. A type of document that requires acceptance beyond
the three and the recurring consent makes every registration fail (`Complete`). A
registration whose commit is acknowledged to nobody makes its retry say "taken", truly.
A confirmation of a purchase locks the user's row, the head and the table of documents
(`DocumentsFree`), which is why what it compared still stands when it commits.

Properties: `EvidenceStood`, `TakenMeansTaken`, `LinksAreSound`, `VerifiedInTime`,
`PurchasesAreAnswered` (`AcceptedStands` and `RepeatsAreAnswered`).

Run `accounts`: two registrations, two confirmations and a resend of the email with a
lifetime of 3 and a cooldown of 2 under a clock to 5, one acceptance, two reviews and
two confirmations with two keys, two revisions of the link, two terms of the offer, two
starts out of four releases (the same again, a renewal with a further type, one for the
next day, one that alters a version) and one midnight. `InTurn` lets registrations meet
releases, then one account be verified, then its purchases meet at most two disturbances
of the terms; `OneReview` runs reviews one after the other, since they only supply what
is confirmed. `CHECK_DEADLOCK FALSE`: requests end.

## 12. The order of locks

The other modules make one step of a transaction that holds its locks from its first
statement to its end. `LockOrder` looks inside: transactions of customers, purchases,
publications, identity and the legal seed take one lock after the other, wait for those
that others hold, and may end after any of them (commit, refusal, failure, lock timeout
of `_bound_transaction`).

| Code | Model |
|---|---|
| `lock_user`, `lock_active_user_by_id_and_scope`, the user's row changed by a login or referred to by an acceptance | kind `user` |
| `pg_advisory_xact_lock` of `lock_connection_scope` and `lock_mapping_scope` | `connection`; `product`, `offer` |
| `FOR UPDATE` of heads, purchases, operations, linked subscriptions, customers | `head`, `purchase`, `agreement`, `subscription`, `linked`, `customer`, `create` |
| `LOCK TABLE document_versions IN SHARE MODE`, writes of `seed_legal_documents` | `documents` in mode `share`, `write` |
| a provider id entered under a unique index, the foreign key of a linked subscription | `object`, `identity`; `customer` in mode `share` |

A transaction that may run only a beginning of another one's locks (receipt, not sent,
pending, escalation, recheck of a payment; receipt, failure, release and finish of a
customer) is that other one ended early. `pin_purchase` locks the connection and the
customer a second time, out of order, which is harmless because it has them already.
Work items, review cases and rows inserted by the transaction itself are reached only
under one of these locks. That PostgreSQL queues waiters is left out: a waiter behind
another waiter for the same lock waits for the same holders in the end.

`NoDeadlock`: no set of transactions in which each waits for another one of the set. No
caller handles a deadlock (40P01), only a lock timeout (55P03), so one would be an
error of the server under load. It is checked in `purchase_prepare`, where locks and
purchases take turns (`TurnsNext`): three connections, two users, each with a purchase,
one product, offer and provider id; enough for circles of two and three, and the theorem
has no bounds. If `pin_purchase` locked the product before its connection, it would
meet a publication in a circle.

## 13. Findings

* `customer_unknown` (`app/domains/billing/customers.py:310`): a claim proven unsent
  resets the operation to pending and drops its recovery deadline although an earlier
  ambiguous POST of the same operation may still be processed. The accepted design
  (`docs/superpowers/specs/2026-09-15-external-billing-boundary-design.md:800-808`) has
  such an operation go to manual review at its deadline.
* `purchase_review` (`app/domains/purchases/financial.py:237`): a pending result of one
  operation takes the purchase out of manual review that the *other* operation's known
  conflict put it in; `_bind_financial` then accepts a point read of the operation in
  conflict, and the case stays open. The runbook
  (`docs/engineering/ANY-709-billing-runbook.md:372`) says point proof does not resolve
  a known conflict.
* `reset_late` (`app/domains/identity/services/password_reset.py:232`): a login that
  checked the previous password and commits its session after the confirmation has
  revoked sessions, but before it commits the new password, stays signed in. The
  baseline (`docs/architecture/portal-identity-session-legal-baseline.md:81-82`,
  `:91-94`) says that a reset revokes all active sessions.

## 14. Proofs

Proved with TLAPS for all values of the constants that satisfy the named assumptions,
hence for any number of openings, customers, slots, flows, purchases, calls, tabs and
edits. The assumptions are the `ASSUME`s of the modules, which TLC evaluates on every
instance; none restricts the sizes. Every safety property and every action property of a
passing run is proved, and so are the four implementations of an abstract specification.

`CustomerOpsProofs`: `IInv == TypeOK /\ SendInv /\ IdentityInv` is inductive.

* `SendInv` carries the argument about sends. The fence of a snapshot is never ahead of
  the operation's (`FencesBehind`); an opening that may still post is within its budget
  plus `Slack` (`InTime`) and its claim's lease reaches as far (`PostingOwnsLease`), so
  a rival cannot claim before; fences of concurrent sends differ (`DistinctSends`); and
  while the fence is current the operation is in `possible_send` (`CurrentSend`).
  `OneLiveSend` and `SendIsRecorded` alone are not inductive: nothing in them says the
  lease outlives the send.
* `IdentityInv` ties slot, operation and reviews together (`BindingState`), says what
  candidates are in hand (`CandidateInHand`) and that a point read is still true as long
  as nobody edits LBX (`ReadIsTrue`).

Steps of an opening that write nothing are handled once (`MoveTo` and the lemmas about
it); each transaction has a lemma about what it writes and one lemma per half of the
invariant. Theorems: `TypeCorrect`, `OneSend`, `SendRecorded`, `SafeSends`, `LeaseEnds`,
`BoundOurs`, `ProofsStand`, `IdentityIsOne`, and `RefinesBinding`, the implementation of
CustomerBinding step by step.

`PreflightAdmissionProofs`: `IInv` says who may hold a slot and why (running coroutine,
granted waiter, or task that has not stopped) and that after `aclose()` every live task
is one it waits for. Theorems: `TypeCorrect`, `SourcesBounded`, `SlotsFollow`,
`WakeupsKept`, `ShutdownClean`, `CleanupLeftAlone`, `ServedInOrder`.

`PurchaseOpsProofs`: what a flow read may be stale when it acts, so `IInv` says what
stays true of it. A binding is permanent, hence a binding that was read is the binding
(`SnapshotStands`); what LBX made stays made, and a candidate names an object of its own
request (`OwnObject`). While a flow holds a claim it has not used, its operation is not
in an unsent state, no request of it has left, and no other flow holds a claim of the
same operation (`ClaimIsSole`): this is what makes "not sent" safe to write down, and
the reason for one request per object. An operation is pending only as long as it was
never claimed, so no update runs into the trigger. `UnsentIsUnsent` alone is not
inductive: a flow between claim and POST breaks it unless the claim is known to be sole.
Theorems: `TypeCorrect`, `NothingUnsentWasSent`, `BoundToOwn`, `BindingsAreKept`,
`PaidOnProof`, and `AskedOnce`, the implementation of PurchaseEffects. The module also
holds the proof about `LockOrder`, whose transactions are mostly these: `LockInv` says
that locks which conflict are not held together and that every plan is `Ordered`, each of
its locks either held before or ranked above all before. Whoever waits for another
therefore wants a lock ranked above the one it keeps others waiting with (`WantsAbove`),
and in a circle nobody could want the highest (`SomeHighest`). Theorem
`LockDeadlockFree`.

`PasswordResetProofs`: confirmations exclude each other without a lock on the user. Each
holds its own token, which everybody else still sees outstanding (`OwnIsLocked`); of two
that have begun to consume the other tokens, at least one still has the other's token to
visit (`OneMeetsTheOther`), since the later of the two saw the earlier one's token. So
at most one has visited everything. `OldTokensAreMet` and `OldSessionsAreFound` follow
what was there at the claim to the commit. Theorems: `TypeCorrect`, `MutualExclusion`,
`ResetsAreAtomic`, `ResetsSweep`, and
`ResetsAreWhole`.

`ProductLinksProofs`: every write that becomes visible is `Apply` of something that was
`Ready` when its transaction checked it: an account that agrees with all origin
evidence, an offer nobody else holds, and the number after the current one. While a
commit is undecided nobody else gets the lock, so what is in flight stays ready
(`WriteInv`). `StateInv` relates rows, heads and origins: heads fit their revisions,
proven heads exist (`ProvenStand`), and no retained history or customer contradicts a
proven head (`AllCompatible`), which is what makes the first link of a product in a
second account impossible. Two processes that infer different accounts cannot both show
a link (`AgreeOnCurrent`): each one's link is foreign history to the other. `CommandInv`
ties the locals of a command to its row, the one nobody else can write. Theorems:
`TypeCorrect`, `AccountIsOne`, `OwnerIsOne`, `ProcessesAgree`, `CatalogIsOne`,
`AnswersStayTrue`, `PurchasesAreCurrent`, `RefinesRegister`.

`SourcesProofs`:

* client: `ClientInv`. A task that asks for a session holds the lock and has emptied the
  cache, so there is one authentication; a read that changed its session has been
  through two and gives up before a third (`CarriedBy`); what has left of a create and
  what its caller knows are in the place of its task (`CreateStands`). Every step leads
  the task of a read or a prepare on (`LeadsOn`), goes on with a create (`Posts`), is a
  caller's (`Asks`), or leaves what tasks hold alone (`Aside`); the invariant is kept by
  each kind. Theorems: `FewSessions`, `LivedOut`, and `PromiseKept`, the implementation
  of CreatePromise.
* catalog: `CatalogInv`. A first read set stood, or it mixes an old record with one
  edited since; in that case the record that was read old has newer terms, so the second
  set differs and the answer shows nothing. Theorem `OffersStood`.
* mappings: `MappingInv`. Who is about to insert, or waits for an undecided COMMIT,
  still has the scope's lock, so his number is still the next one and his document still
  approved against all there is; the numbers are 1 to n. The evidence's end lies within
  the command's day, so what is published is published on that day, of which the terms
  were selected. A row exists only of commands that have sent their COMMIT. Theorems:
  `MappingTypes`, `SoundRevisions`, `TrueReports`.
* `SourcesImplement`: a behaviour of the process is one of the client and one of the
  catalog, so what is proved of each holds in it.

`AccountsProofs`:

* verification: a refused token is dead for a reason that lasts (`Dead`: deleted,
  rotated out before, expired, or superseded by the token that verified). Theorems:
  `TypeCorrect`, `OneWorkingLink`, `RefusedForGood`, `SoundLinks`, `Verifies`;
  `AccountsVerify` carries them to the composition.
* registration: `AgreedInv`. At most one insertion is undecided; the pack a registration
  has read was active at some time since it began, through any number of releases and
  rollbacks, and effective at the time it took before (`ReadSince`); a document found
  for an acceptance was active since, and was effective when it was found, hence also at
  the later time that is recorded (`FoundSince`). Theorems: `TakenIsTaken`,
  `EvidenceHolds`.
* purchases: `TermsInv`. What a confirmation compared stays as it is while the user's
  row and the documents' table are locked; two purchases of one key cannot be, since the
  second finds the first before it pins. Theorem `Answered`.

`WebProofs`: `WebInv == SessionInv /\ BillingInv`. Of every load under way its part is
still waiting for it (`LoadsAreAwaited`), operations are in the places that wait for
them, and the session of a logout under way is not stored and never will be again. A
step of the session changes no view and no session (`Quiet`), shows something else in
one part (`Turn`), writes the storage, delivers an event, or is of a tab that is not
modelled; each kind keeps the invariant, and each action is of one kind. The billing
parts live only while their user is shown, and as long as they do the stored session is
theirs or an event is coming (`CabinetsHold`); an unsettled confirmation of the stored
session is the review's own. Theorems: `TypeCorrect`, `ShownFits`, `ChangesForCause`,
`ConfirmedOnce`, `PaidAsShown`, `WidgetComes`.

## 15. Only model-checked

`OpeningEnds`, `OperationEnds` and `ConfirmEnds` are liveness properties under fairness,
which the prover cannot handle. The three properties of the findings are false, which
TLC's counterexamples show. Everything else that a run checks is also proved.

## 16. Not modelled

* The interplay of locks and data: transactions are atomic where their data is modelled,
  and `LockOrder` has no data. Only for the resets, whose bulk updates take rows in no
  order, are both in one model (`PasswordReset`), deadlocks and their victims included.
* Progress of purchases: the sweeps that move overdue operations to review
  (`financial.py:404` and its counterpart in `customers.py`) have no scheduler in the
  repository, so no liveness can be claimed.
* The comparison of an agreement or subscription with its purchase (proofs of objects)
  is pure and enters `PurchaseOps` as the verdict on `strange`; parsing and wording of
  endpoints, rendering of documents and pages.
* Account pages, customer diagnostics, operator commands (entry points of modelled
  flows), settings, observability, e-mail delivery and pages without operations decide
  nothing the properties speak of; access, allowances, observations and webhooks exist
  as tables only; migrations, deployment and repository scripts run outside the program.
* Steps that are coarser than the code: a command of the first version reads the four
  records of an offer in one step (`Mappings`; the reads of the catalog, of the same
  records, are one by one); a call of the billing client decides to use a session and
  sends with it in one step (`LbxClient`), so a wait for a connection of the pool in
  between is not seen; an inventory takes every subscription of the customer as relevant
  (`PurchaseOps`), without the filter by tariff, the limit of 20 and the closed ones
  that are skipped, and a binding refused by an index is not modelled. A price whose
  period or next change contradicts the rest of the record is refused by the code and
  not by `OfferTerms`, so the model shows more than the code does.
* `get_missing_required_documents_for_user` and `apply_customer_read` with neither id
  nor ambiguity have no caller.
