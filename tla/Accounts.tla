-------------------------------- MODULE Accounts --------------------------------
(***************************************************************************)
(* From a registration to an accepted purchase: the registrations of one   *)
(* email, the verification of the account that one of them commits, with   *)
(* the token it stored, and what the verified user agrees to, under legal  *)
(* documents that releases replace meanwhile.                              *)
(***************************************************************************)
EXTENDS Registration, PurchaseTerms, EmailVerification

accountVars == <<legal, register, terms, vars>>

\* The clock of the verification starts with the registration that commits.
AccountsInit == LegalInit /\ RegistrationInit /\ TermsInit /\ Init

\* get_current_session: an account's requests carry a session of it.
Registered == account # Nobody

\* authenticate in domains/billing/customers.py.
Verified == verified # 0

LegalStep ==
    /\ \/ DocumentsFree /\ \E m \in Manifests : Seed(m)
       \/ NextDay
       \/ Registered /\ \E a \in Acceptances : AcceptFind(a) \/ AcceptEnd(a)
    /\ UNCHANGED <<register, terms, vars>>

RegistrationStep == RegistrationNext /\ UNCHANGED <<terms, vars>>

VerificationStep == Registered /\ Next /\ UNCHANGED <<legal, register, terms>>

TermsStep ==
    /\ \/ Verified /\ \E r \in Requests : Review(r) \/ Confirm(r)
       \/ TermsNext
    /\ UNCHANGED <<legal, register, vars>>

AccountsNext == LegalStep \/ RegistrationStep \/ VerificationStep \/ TermsStep

AccountsSpec == AccountsInit /\ [][AccountsNext]_accountVars
=============================================================================
