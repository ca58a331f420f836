------------------------------- MODULE LockOrder -------------------------------
(***************************************************************************)
(* The locks that the database transactions of the portal wait for, and    *)
(* the order in which each takes them.  The other modules make one step of *)
(* a transaction; here a transaction takes one lock after the other, waits *)
(* for those that others hold, and keeps what it has until it ends.        *)
(*                                                                         *)
(* Only locks that two transactions may want are here.  Rows a transaction *)
(* inserts itself, work items and review cases, which are reached only     *)
(* under their operation's lock, and the rows of a password reset (see     *)
(* PasswordReset) are not.  PostgreSQL breaks a deadlock by failing one of *)
(* its transactions; the transactions below have no answer to that, only   *)
(* to a lock timeout.                                                      *)
(***************************************************************************)
EXTENDS Naturals, Sequences

CONSTANTS
    Transactions,   \* connections that run one transaction after the other
    Users, Products, Offers,
    Intents, Owner, \* purchase intents, and the user of each
    Ids             \* provider ids

ASSUME OwnerAssumption == Owner \in [Intents -> Users]

VARIABLES
    plan,   \* the locks a transaction takes, in order; <<>> when none runs
    taken   \* how many of them it has

locks == <<plan, taken>>

-----------------------------------------------------------------------------
(* Locks *)

\* The kinds of lock, ranked.  "connection" and "product" and "offer" are
\* advisory locks, "documents" is the table, "object" and "identity" are keys of
\* unique indexes that hold a provider id, the others are rows.
Rank == [user |-> 1, connection |-> 2, product |-> 3, offer |-> 4, head |-> 5,
         documents |-> 6, purchase |-> 7, agreement |-> 8, subscription |-> 9,
         linked |-> 10, object |-> 11, customer |-> 12, create |-> 13, identity |-> 14]

Things == Users \cup Products \cup Offers \cup Intents \cup Ids \cup {"portal"}

Lock == [kind : DOMAIN Rank, of : Things, mode : {"exclusive", "share", "write"}]

Exclusive(kind, of) == [kind |-> kind, of |-> of, mode |-> "exclusive"]
Shared(kind, of)    == [kind |-> kind, of |-> of, mode |-> "share"]
Writing(kind, of)   == [kind |-> kind, of |-> of, mode |-> "write"]

\* Shared locks go together, and so do the writers of a table.
Conflicting(a, b) ==
    /\ a.kind = b.kind /\ a.of = b.of
    /\ a.mode = b.mode => a.mode = "exclusive"

-----------------------------------------------------------------------------
(* What each transaction takes.  Any of them may end after any lock. *)

\* reserve_customer
ReservePlan(u) ==
    <<Exclusive("user", u), Exclusive("connection", "portal"),
      Exclusive("customer", u), Exclusive("create", u)>>

\* claim_customer_send, recheck_widget_session
ClaimPlan(u) == <<Exclusive("user", u), Exclusive("customer", u), Exclusive("create", u)>>

\* apply_customer_read, whose commit enters the provider id; the other
\* transactions of one customer end before.
ReadPlan(u, i) == <<Exclusive("customer", u), Exclusive("create", u), Exclusive("identity", i)>>

\* Mutation: the product is locked before its connection.
PinPlan_ProductFirst(u, p) ==
    <<Exclusive("user", u), Exclusive("product", p), Exclusive("connection", "portal"),
      Exclusive("head", p), Shared("documents", "portal"),
      Exclusive("customer", u), Exclusive("create", u)>>

\* pin_purchase: the connection and the customer are locked once more.
PinPlan(u, p) ==
    <<Exclusive("user", u), Exclusive("connection", "portal"), Exclusive("product", p),
      Exclusive("head", p), Shared("documents", "portal"), Exclusive("connection", "portal"),
      Exclusive("customer", u), Exclusive("create", u), Exclusive("customer", u)>>

\* claim_financial; the other transactions of one purchase end before.
FinancialPlan(b) ==
    <<Exclusive("user", Owner[b]), Exclusive("purchase", b), Exclusive("agreement", b),
      Exclusive("subscription", b), Exclusive("customer", Owner[b]), Exclusive("create", Owner[b])>>

\* _bind_financial: the provider id is entered, the new row refers to the customer.
BindPlan(b, i) ==
    <<Exclusive("user", Owner[b]), Exclusive("purchase", b), Exclusive("agreement", b),
      Exclusive("subscription", b), Exclusive("linked", b), Exclusive("object", i),
      Shared("customer", Owner[b])>>

\* publish_product_link
PublishPlan(p, o) ==
    <<Exclusive("connection", "portal"), Exclusive("product", p), Exclusive("offer", o),
      Exclusive("head", p)>>

-----------------------------------------------------------------------------
(* Transactions *)

Taken(t)   == {plan[t][n] : n \in 1..taken[t]}
Going(t)   == taken[t] < Len(plan[t])
Wanted(t)  == plan[t][taken[t] + 1]

WaitsFor(t, u) == u # t /\ \E a \in Taken(u) : Conflicting(a, Wanted(t))

LockInit ==
    /\ plan = [t \in Transactions |-> <<>>]
    /\ taken = [t \in Transactions |-> 0]

Begin(t, p) ==
    /\ plan[t] = <<>>
    /\ plan' = [plan EXCEPT ![t] = p]
    /\ UNCHANGED taken

\* A lock is granted when no other transaction holds one that conflicts; to
\* lock again what one has does not wait.
Take(t) ==
    /\ Going(t)
    /\ \A u \in Transactions : ~WaitsFor(t, u)
    /\ taken' = [taken EXCEPT ![t] = @ + 1]
    /\ UNCHANGED plan

\* Commit, rollback, refusal or lock timeout.
Leave(t) ==
    /\ plan[t] # <<>>
    /\ plan' = [plan EXCEPT ![t] = <<>>]
    /\ taken' = [taken EXCEPT ![t] = 0]

BeginAny(t) ==
    \/ \E u \in Users :
          \/ Begin(t, ReservePlan(u))
          \/ Begin(t, ClaimPlan(u))
          \/ \E i \in Ids : Begin(t, ReadPlan(u, i))
          \/ \E p \in Products : Begin(t, PinPlan(u, p))
          \* email verification and login change the user, a legal acceptance refers to it
          \/ Begin(t, <<Exclusive("user", u)>>)
          \/ Begin(t, <<Shared("user", u)>>)
    \/ \E b \in Intents :
          \/ Begin(t, FinancialPlan(b))
          \/ \E i \in Ids : Begin(t, BindPlan(b, i))
    \/ \E p \in Products, o \in Offers : Begin(t, PublishPlan(p, o))
    \/ \E o \in Offers : Begin(t, <<Exclusive("offer", o)>>)      \* publish_mapping
    \/ Begin(t, <<Writing("documents", "portal")>>)    \* seed_legal_documents

LockNext == \E t \in Transactions : BeginAny(t) \/ Take(t) \/ Leave(t)

LockSpec == LockInit /\ [][LockNext]_locks

-----------------------------------------------------------------------------
(* Properties *)

\* Every one of these transactions waits, and for another of them.
Deadlocked(c) == c # {} /\ \A t \in c : Going(t) /\ \E u \in c : WaitsFor(t, u)

\* No transactions ever wait for each other in a circle, whichever users,
\* purchases, products and offers they are about and wherever they end early, so
\* a lock timeout is only ever due to a transaction that takes long
\* (domains/purchases/financial.py:81, admission.py:1, customer_scope.py:15).
NoDeadlock == \A c \in SUBSET Transactions : ~Deadlocked(c)
=============================================================================
