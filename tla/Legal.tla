--------------------------------- MODULE Legal ---------------------------------
(***************************************************************************)
(* The legal documents that require acceptance: what a deployment puts in  *)
(* force when it starts (legal_seed.py), what is read of them              *)
(* (infrastructure/queries/legal.py), and POST /api/legal/acceptances      *)
(* (domains/legal/service.py).  Documents that require no acceptance are   *)
(* left out.                                                               *)
(***************************************************************************)
EXTENDS Naturals, Sequences, FiniteSets

CONSTANTS
    Manifests,      \* the manifests of the releases that may be deployed
    Installed,      \* the one that has started first
    Acceptances,    \* requests to accept one document
    MaxStarts,      \* bound: how often a release is started
    MaxDay          \* bound: the clock stops here

\* REGISTRATION_DOCUMENT_TYPES
Required  == {"privacy", "pd_consent", "offer"}
Recurring == "recurring_consent"

\* "content" stands for the fields a version must keep: its hash, its title.
Document == [type : STRING, version : Nat, from : Nat, content : Nat]

\* A manifest names one version of each of its types, and publishes all of
\* them at one time.
ASSUME ManifestAssumption ==
    \A m \in Manifests :
        /\ m \subseteq Document
        /\ \A d, e \in m : d.type = e.type => d = e
        /\ \A d, e \in m : d.from = e.from
ASSUME InstalledAssumption == Installed \in Manifests
ASSUME BoundAssumption == MaxStarts \in Nat /\ MaxDay \in Nat

VARIABLES
    stored,     \* document_versions, ever
    active,     \* those with is_active
    past,       \* what was active before, in order
    day,
    acceptance  \* the requests, with what they record

legal == <<stored, active, past, day, acceptance>>

-----------------------------------------------------------------------------
NewAcceptance == [pc |-> "idle", since |-> 0, at |-> 0, document |-> {}]

LegalInit ==
    /\ stored = Installed /\ active = Installed
    /\ past = <<>> /\ day = 0
    /\ acceptance = [a \in Acceptances |-> NewAcceptance]

\* list_active_required_documents: the rows read as in effect on a day.
Effective(d) == {x \in active : x.from <= d}
InForce      == Effective(day)

Stamp == Len(past)

\* What was active at some time since a request came.
Stood(since) == {past[i] : i \in (since + 1)..Len(past)} \cup {active}

Mismatch(m) ==
    \E x \in stored, y \in m : x.type = y.type /\ x.version = y.version /\ x # y

\* The types a manifest names are replaced, others stay.
Replaced(m) == {x \in active : \E y \in m : x.type = y.type}

\* seed_legal_documents in one transaction, at the start of a release.  It
\* refuses a version that is stored with other contents.
Seed(m) ==
    /\ m \in Manifests /\ Stamp < MaxStarts
    /\ past' = Append(past, active)
    /\ IF Mismatch(m)
       THEN UNCHANGED <<stored, active>>
       ELSE /\ stored' = stored \cup m
            /\ active' = (active \ Replaced(m)) \cup m
    /\ UNCHANGED <<day, acceptance>>

NextDay ==
    /\ day < MaxDay
    /\ day' = day + 1
    /\ UNCHANGED <<stored, active, past, acceptance>>

-----------------------------------------------------------------------------
(* Accepting one document; its id comes from a page that may be old *)

AcceptFind(a) ==
    /\ acceptance[a].pc = "idle"
    /\ \E d \in stored :
          acceptance' = [acceptance EXCEPT ![a] =
              IF d \in InForce
              THEN [pc |-> "found", since |-> Stamp, at |-> 0, document |-> {d}]
              ELSE [NewAcceptance EXCEPT !.pc = "refused"]]
    /\ UNCHANGED <<stored, active, past, day>>

\* The text's hash is compared with what was found; then the event, with a time
\* of its own, and one commit.
AcceptEnd(a) ==
    /\ acceptance[a].pc = "found"
    /\ \/ acceptance' = [acceptance EXCEPT ![a].pc = "accepted", ![a].at = day]
       \/ acceptance' = [acceptance EXCEPT ![a] = [NewAcceptance EXCEPT !.pc = "refused"]]
    /\ UNCHANGED <<stored, active, past, day>>

LegalNext ==
    \/ \E m \in Manifests : Seed(m)
    \/ NextDay
    \/ \E a \in Acceptances : AcceptFind(a) \/ AcceptEnd(a)
=============================================================================
