------------------------------ MODULE Registration ------------------------------
(***************************************************************************)
(* Registrations of one email (register_user in domains/identity/services/ *)
(* auth.py).  The email is looked up, then the documents are read, then    *)
(* the user's row is inserted; the evidence, the session and the first     *)
(* verification token join it in one transaction.  The unique index makes  *)
(* an insertion wait for another that is not decided yet.                  *)
(***************************************************************************)
EXTENDS Legal

CONSTANTS
    Registrations,
    Nobody          \* the account of an email nobody has registered

ASSUME NobodyAssumption == Nobody \notin Registrations

VARIABLES
    registration,   \* program counters and locals
    account         \* the registration whose rows are committed

register == <<registration, account>>

-----------------------------------------------------------------------------
Answers == {"registered", "taken", "refused"}

NewRegistration == [pc |-> "idle", since |-> 0, at |-> 0, documents |-> {}]

RegistrationInit ==
    /\ registration = [r \in Registrations |-> NewRegistration]
    /\ account = Nobody

Registering(r, pc) == registration' = [registration EXCEPT ![r].pc = pc]

\* The consents, the password policy, and an email that is free; then the time
\* that the evidence will give, accepted_at.
Register(r) ==
    /\ registration[r].pc = "idle"
    /\ \E pc \in {"refused"} \cup {IF account = Nobody THEN "free" ELSE "taken"} :
          registration' = [registration EXCEPT ![r].pc = pc, ![r].since = Stamp, ![r].at = day]
    /\ UNCHANGED <<legal, account>>

\* Mutation: the newest versions are taken, whatever is active.
Current_Newest == {x \in stored : \A y \in stored : y.type = x.type => y.version <= x.version}

\* list_active_required_documents_for_registration
Current == active

Pack == {x \in Current : x.type # Recurring}

\* Mutation: effective when they are read, and not at accepted_at.
Complete_WhenRead(pack, at) ==
    /\ {x.type : x \in pack} = Required /\ Cardinality(pack) = Cardinality(Required)
    /\ \A x \in pack : x.from <= day

Complete(pack, at) ==
    /\ {x.type : x \in pack} = Required /\ Cardinality(pack) = Cardinality(Required)
    /\ \A x \in pack : x.from <= at

\* get_registration_required_documents
ReadPack(r) ==
    /\ registration[r].pc = "free"
    /\ IF Complete(Pack, registration[r].at)
       THEN registration' = [registration EXCEPT ![r].pc = "read", ![r].documents = Pack]
       ELSE Registering(r, "refused")
    /\ UNCHANGED <<legal, account>>

Undecided == {r \in Registrations : registration[r].pc = "inserted"}

\* The flush of the user's row, once no other insertion is undecided.
Insert(r) ==
    /\ registration[r].pc = "read" /\ Undecided = {}
    /\ Registering(r, IF account = Nobody THEN "inserted" ELSE "conflict")
    /\ UNCHANGED <<legal, account>>

\* Any step may fail and roll back; a commit whose acknowledgement is lost
\* leaves the account behind a refusal.
Commit(r) ==
    /\ registration[r].pc = "inserted"
    /\ account' = r
    /\ \E pc \in {"registered", "refused"} : Registering(r, pc)
    /\ UNCHANGED legal

\* Mutation: every failure is taken for a conflict.
Taken_AnyFailure(r) == TRUE

\* is_scoped_email_unique_conflict, and the winner is there.
Taken(r) == registration[r].pc = "conflict" /\ account # Nobody

RollBack(r) ==
    /\ registration[r].pc \in {"free", "read", "inserted", "conflict"}
    /\ \E pc \in {"refused"} \cup (IF Taken(r) THEN {"taken"} ELSE {}) : Registering(r, pc)
    /\ UNCHANGED <<legal, account>>

RegistrationNext ==
    \E r \in Registrations : Register(r) \/ ReadPack(r) \/ Insert(r) \/ Commit(r) \/ RollBack(r)

-----------------------------------------------------------------------------
(* Properties *)

\* The evidence of an account is a complete pack: active as a whole, with no
\* other document to agree to, while the registration ran, and effective at the
\* time the evidence gives, although that time is taken before the pack is read
\* and releases, rollbacks and midnight come in between (auth.py:167-197,
\* legal/service.py:63-87).  What was accepted later was active while it was,
\* and effective by the time given (legal/service.py:219-279).
EvidenceStood ==
    /\ account # Nobody =>
          LET r == registration[account] IN
          /\ \E s \in Stood(r.since) : r.documents = {x \in s : x.type # Recurring}
          /\ {x.type : x \in r.documents} = Required
          /\ \A x \in r.documents : x.from <= r.at
    /\ \A a \in Acceptances :
          LET q == acceptance[a] IN
          q.pc = "accepted" =>
              /\ \E s \in Stood(q.since) : q.document \subseteq s
              /\ \A x \in q.document : x.from <= q.at

\* Whoever is told that the email is taken can rely on it: somebody else's
\* account is committed.  Of registrations at the same time one wins, and no
\* two (auth.py:222-235).
TakenMeansTaken ==
    \A r \in Registrations :
        /\ registration[r].pc = "taken" => account \notin {Nobody, r}
        /\ registration[r].pc = "registered" => account = r
=============================================================================
