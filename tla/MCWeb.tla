-------------------------------- MODULE MCWeb --------------------------------
(* Instances of WebBilling for TLC. *)
EXTENDS WebBilling

CONSTANTS a, b, p1, p2

Beside(here, there) == [t \in {a, b} |-> IF t = a THEN here ELSE there]

TwoTabs ==
    {Beside("account", "account")}
        \cup {Beside(here, "any") : here \in {"verify", "reset", "product", "cabinet"}}

\* The dialog of the header is used in the first tab, and not over a cabinet,
\* where one login is submitted.
FewDialogs ==
    /\ modal[b] = "closed"
    /\ site[a] = "cabinet" => modal[a] = "closed" /\ auths[a] <= 1
==================================================================================
