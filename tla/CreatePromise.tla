------------------------------ MODULE CreatePromise ------------------------------
(***************************************************************************)
(* What the callers of the billing client rely on when they create an      *)
(* object at LBX: the request leaves the process at most once, a caller    *)
(* told "not sent" may forget the request, and a caller told nothing for   *)
(* certain must look for the object before it asks again.                  *)
(***************************************************************************)
EXTENDS Naturals

CONSTANTS
    Creates,    \* create requests
    Outcomes    \* what a caller may be told

VARIABLES
    left,       \* how often each request left the process
    told        \* what the caller of each request was told, "none" so far

vars == <<left, told>>

Init ==
    /\ left = [c \in Creates |-> 0]
    /\ told = [c \in Creates |-> "none"]

\* A request may still leave after its caller gave up waiting for it.
Leave(c) ==
    /\ left[c] = 0 /\ told[c] \notin {"notSent", "ok"}
    /\ left' = [left EXCEPT ![c] = 1]
    /\ UNCHANGED told

Tell(c, answer) ==
    /\ told[c] = "none"
    /\ answer = "notSent" => left[c] = 0
    /\ answer = "ok" => left[c] = 1
    /\ told' = [told EXCEPT ![c] = answer]
    /\ UNCHANGED left

Next == \E c \in Creates : Leave(c) \/ \E answer \in Outcomes : Tell(c, answer)

Spec == Init /\ [][Next]_vars
==================================================================================
