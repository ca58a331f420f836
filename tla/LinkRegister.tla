---------------------------- MODULE LinkRegister ----------------------------
(***************************************************************************)
(* What publication promises about the proven links of one provider        *)
(* origin: all of them live in one storage account, chosen once; each      *)
(* product has one register holding a number and an offer, written by      *)
(* compare-and-set, so that numbers go up by one; and no two products      *)
(* hold one offer.  A link retained from before origins were recorded      *)
(* enters its register with the number it has.                             *)
(***************************************************************************)
EXTENDS Integers

CONSTANTS Products, Offers, Accounts, NoAccount, NoOffer

VARIABLES
    home,       \* the account of the origin, or NoAccount
    link        \* the register of every product

vars == <<home, link>>

Empty == [number |-> 0, offer |-> NoOffer]

Init ==
    /\ home = NoAccount
    /\ link = [p \in Products |-> Empty]

\* A customer may settle the account before any link does.
Settle(a) ==
    /\ home = NoAccount
    /\ home' = a
    /\ UNCHANGED link

\* The register of p gets a number and an offer nobody else holds.
Write(p, a) ==
    /\ home \in {NoAccount, a}
    /\ home' = a
    /\ link[p] = Empty \/ link'[p].number = link[p].number + 1
    /\ link'[p] \in [number : Nat \ {0}, offer : Offers]
    /\ \A q \in Products \ {p} : link[q].offer # link'[p].offer
    /\ link' = [link EXCEPT ![p] = link'[p]]

Next == \E a \in Accounts : Settle(a) \/ \E p \in Products : Write(p, a)

Spec == Init /\ [][Next]_vars
=============================================================================
