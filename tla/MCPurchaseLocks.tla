---------------------------- MODULE MCPurchaseLocks ----------------------------
(* What transactions do about purchases, and the locks they take: in turns. *)
EXTENDS MCPurchaseOps, LockOrder

\* Every user has a purchase.
OwnPurchases == CHOOSE f \in [Intents -> Users] : {f[b] : b \in Intents} = Users

NoTransactions == \A t \in Transactions : plan[t] = <<>>

TurnsInit == Init /\ LockInit

TurnsNext ==
    \/ NoTransactions /\ Next /\ UNCHANGED locks
    \/ Init /\ LockNext /\ UNCHANGED vars

TurnsSpec == TurnsInit /\ [][TurnsNext]_<<vars, locks>>
=============================================================================
