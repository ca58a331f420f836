------------------------- MODULE ProductLinksProofs -------------------------
(***************************************************************************)
(* Proofs about ProductLinks: for any number of commands, users, products  *)
(* and credentials, and any database the migration may find.               *)
(***************************************************************************)
EXTENDS ProductLinks, TLAPS

(***************************************************************************)
(* The inductive invariant.  StateInv speaks of the tables only.  Every    *)
(* write of a publication is Apply of something that is Ready, at once or, *)
(* when its acknowledgement is lost, later; it stays ready because nobody  *)
(* else gets the lock.  CommandInv ties commands to their revisions.       *)
(***************************************************************************)
ProvenStand   == \A place \in proven : HasHead(place[1], place[2])
AllCompatible == \A place \in proven : Compatible(place[1], place[2])

StateInv ==
    /\ HeadsFit(revision, head)
    /\ ProvenStand
    /\ OneAccount
    /\ OneOwner
    /\ AllCompatible

Ready(id, row, a, p) ==
    /\ ProvenAccounts \subseteq {a}
    /\ Compatible(a, p)
    /\ row = NoRevision =>
          /\ id = head[a][p]
          /\ Owner(a, p, revision[id].offer)
    /\ row # NoRevision =>
          /\ revision[id] = NoRevision
          /\ row.account = a /\ row.product = p
          /\ row.number = Number(a, p) + 1
          /\ Owner(a, p, row.offer)

WriteInv ==
    inflight # NoWrite =>
        /\ Ready(inflight.id, inflight.row, inflight.place[1], inflight.place[2])
        /\ inflight.row # NoRevision =>
              /\ inflight.id \in Commands
              /\ command[inflight.id].row = inflight.row

Void == {"refused", "conflict", "failed", "unchanged"}

CommandInv ==
    \A c \in Commands :
        /\ command[c].pc = "idle" =>
              /\ command[c].answer = "none"
              /\ revision[c] = NoRevision
              /\ inflight.id # c
        /\ command[c].answer \in Void =>
              /\ revision[c] = NoRevision
              /\ inflight.id # c
        /\ command[c].answer \in {"inserted", "recovered"} => revision[c] # NoRevision
        /\ revision[c] # NoRevision => revision[c] = command[c].row
        /\ command[c].row # NoRevision =>
              /\ command[c].row.product = command[c].request.product
              /\ command[c].row.offer = command[c].request.offer
              /\ command[c].row.number = command[c].request.expected + 1

IInv == TypeOK /\ StateInv /\ WriteInv /\ CommandInv

-----------------------------------------------------------------------------
(* Types and small facts *)

LEMMA NullFacts ==
    /\ NoRevision \notin Revision
    /\ NoRevision \notin Ids
    /\ NoOffer \notin Offers
    /\ NoAccount \notin Accounts
    /\ Commands \cap Kept = {}
  BY NullAssumption, AccountAssumption DEF Ids

\* What the types say pointwise.
LEMMA Types ==
  ASSUME TypeOK
  PROVE  /\ \A i \in Ids : revision[i] \in Revision \cup {NoRevision}
         /\ \A a \in Accounts, p \in Products : head[a][p] \in Ids \cup {NoRevision}
         /\ \A place \in proven : place \in Places
         /\ \A u \in Users, a \in Accounts : customer[u][a] \in Customer
         /\ \A c \in Commands : command[c] \in Command
         /\ inflight # NoWrite => inflight \in Write
  BY DEF TypeOK

\* A head names a revision of its place.
LEMMA HeadOfPlace ==
  ASSUME TypeOK, HeadsFit(revision, head), NEW a \in Accounts, NEW p \in Products, HasHead(a, p)
  PROVE  /\ head[a][p] \in Ids
         /\ revision[head[a][p]] \in Revision
         /\ revision[head[a][p]].account = a
         /\ revision[head[a][p]].product = p
  BY Types, NullFacts DEF HeadsFit, HasHead

\* A place is a pair.
LEMMA PlaceFacts ==
  ASSUME NEW place \in Places
  PROVE  /\ place[1] \in Accounts /\ place[2] \in Products
         /\ place = <<place[1], place[2]>>
  BY DEF Places

LEMMA ProvenAccountsAre ==
  ASSUME TypeOK
  PROVE  /\ ProvenAccounts \subseteq Accounts
         /\ \A a \in Accounts, p \in Products : <<a, p>> \in proven => a \in ProvenAccounts
         /\ \A a \in Accounts, u \in Users : customer[u][a].proven => a \in ProvenAccounts
  BY Types, PlaceFacts DEF ProvenAccounts

-----------------------------------------------------------------------------
(* Initial states *)

LEMMA InitInv == Init => IInv
<1> SUFFICES ASSUME Init PROVE IInv
  OBVIOUS
<1>1. PICK d \in Databases :
        /\ revision = [i \in Ids |-> IF i \in Kept THEN d.revision[i] ELSE NoRevision]
        /\ head = d.head
        /\ customer = [u \in Users |-> [a \in Accounts |->
                          [use |-> d.use[u][a], proven |-> FALSE]]]
  BY DEF Init
<1>2. d \in Retained /\ HeadsFit(d.revision, d.head)
  BY DatabaseAssumption
<1>3. TypeOK
  <2>1. revision \in [Ids -> Revision \cup {NoRevision}]
    BY <1>1, <1>2 DEF Retained, Ids
  <2>2. head \in [Accounts -> [Products -> Ids \cup {NoRevision}]]
    BY <1>1, <1>2 DEF Retained, Ids
  <2>3. customer \in [Users -> [Accounts -> Customer]]
    BY <1>1, <1>2 DEF Retained, Customer
  <2>4. command \in [Commands -> Command]
    BY DEF Init, Command, NewCommand, Answers
  <2>5. QED
    BY <2>1, <2>2, <2>3, <2>4 DEF TypeOK, Init
<1>4. HeadsFit(revision, head)
  <2> SUFFICES ASSUME NEW a \in Accounts, NEW p \in Products, head[a][p] # NoRevision
               PROVE  /\ revision[head[a][p]] # NoRevision
                      /\ revision[head[a][p]].account = a
                      /\ revision[head[a][p]].product = p
    BY DEF HeadsFit
  <2>1. head[a][p] \in Kept
    BY <1>1, <1>2 DEF Retained
  <2>2. revision[head[a][p]] = d.revision[head[a][p]]
    BY <2>1, <1>1 DEF Ids
  <2>3. QED
    BY <2>2, <1>1, <1>2 DEF HeadsFit
<1>5. ProvenAccounts = {}
  BY <1>1 DEF Init, ProvenAccounts
<1>6. StateInv
  BY <1>4, <1>5 DEF StateInv, ProvenStand, OneAccount, OneOwner, AllCompatible, Init
<1>7. WriteInv
  BY DEF Init, WriteInv
<1>8. CommandInv
  BY <1>1, NullFacts DEF Init, CommandInv, NewCommand, NoWrite, Void, Ids
<1>9. QED
  BY <1>3, <1>6, <1>7, <1>8 DEF IInv
-----------------------------------------------------------------------------
(* A write becomes visible *)

\* What Apply does to single rows.
LEMMA Applied ==
  ASSUME TypeOK, StateInv, NEW id \in Ids, NEW row \in Revision \cup {NoRevision},
         NEW a \in Accounts, NEW p \in Products, Ready(id, row, a, p),
         Apply(id, row, <<a, p>>)
  PROVE  /\ revision' \in [Ids -> Revision \cup {NoRevision}]
         /\ head' \in [Accounts -> [Products -> Ids \cup {NoRevision}]]
         /\ proven' \in SUBSET Places
         /\ head'[a][p] = id
         /\ \A b \in Accounts, q \in Products : <<b, q>> # <<a, p>> => head'[b][q] = head[b][q]
         /\ revision'[id] \in Revision
         /\ revision'[id].account = a /\ revision'[id].product = p
         /\ Owner(a, p, revision'[id].offer)
         /\ \A i \in Ids : revision[i] # NoRevision => revision'[i] = revision[i]
         /\ \A i \in Ids : i # id => revision'[i] = revision[i]
         /\ row = NoRevision => revision' = revision /\ head' = head
         /\ row # NoRevision =>
               /\ revision'[id] = row
               /\ revision'[id].number = Number(a, p) + 1
<1>1. /\ revision' = IF row = NoRevision THEN revision ELSE [revision EXCEPT ![id] = row]
      /\ head' = [head EXCEPT ![a][p] = id]
      /\ proven' = proven \cup {<<a, p>>}
  BY DEF Apply
<1>2. /\ revision' \in [Ids -> Revision \cup {NoRevision}]
      /\ head' \in [Accounts -> [Products -> Ids \cup {NoRevision}]]
      /\ proven' \in SUBSET Places
  BY <1>1 DEF TypeOK, Places
<1>3. /\ head'[a][p] = id
      /\ \A b \in Accounts, q \in Products : <<b, q>> # <<a, p>> => head'[b][q] = head[b][q]
  BY <1>1 DEF TypeOK
<1>4. /\ \A i \in Ids : i # id => revision'[i] = revision[i]
      /\ row # NoRevision => revision'[id] = row
      /\ row = NoRevision => revision' = revision
  BY <1>1 DEF TypeOK
<1>5. CASE row = NoRevision
  <2>1. id = head[a][p] /\ Owner(a, p, revision[id].offer) /\ HasHead(a, p)
    BY <1>5, NullFacts DEF Ready, HasHead
  <2>2. head' = head
    BY <1>1, <2>1 DEF TypeOK
  <2>3. revision[id] \in Revision /\ revision[id].account = a /\ revision[id].product = p
    BY <2>1, HeadOfPlace DEF StateInv
  <2>4. QED
    BY <1>2, <1>3, <1>4, <1>5, <2>1, <2>2, <2>3
<1>6. CASE row # NoRevision
  <2>1. /\ revision[id] = NoRevision
        /\ row.account = a /\ row.product = p
        /\ row.number = Number(a, p) + 1
        /\ Owner(a, p, row.offer)
    BY <1>6 DEF Ready
  <2>2. QED
    BY <1>2, <1>3, <1>4, <1>6, <2>1
<1>7. QED
  BY <1>5, <1>6

\* The tables stay sound when something ready becomes visible.
LEMMA ApplyKeeps ==
  ASSUME TypeOK, StateInv, NEW id \in Ids, NEW row \in Revision \cup {NoRevision},
         NEW a \in Accounts, NEW p \in Products, Ready(id, row, a, p),
         Apply(id, row, <<a, p>>), UNCHANGED customer
  PROVE  StateInv' /\ ProvenAccounts' = {a}
<1>0. /\ HeadsFit(revision, head) /\ ProvenStand /\ OneOwner /\ AllCompatible
      /\ proven' = proven \cup {<<a, p>>}
  BY DEF StateInv, Apply
<1>1. HeadsFit(revision', head')
  <2> SUFFICES ASSUME NEW b \in Accounts, NEW q \in Products, head'[b][q] # NoRevision
               PROVE  /\ revision'[head'[b][q]] # NoRevision
                      /\ revision'[head'[b][q]].account = b
                      /\ revision'[head'[b][q]].product = q
    BY DEF HeadsFit
  <2>1. CASE <<b, q>> = <<a, p>>
    BY <2>1, Applied, NullFacts
  <2>2. CASE <<b, q>> # <<a, p>>
    <3>1. head'[b][q] = head[b][q] /\ HasHead(b, q)
      BY <2>2, Applied DEF HasHead
    <3>2. /\ head[b][q] \in Ids /\ revision[head[b][q]] # NoRevision
          /\ revision[head[b][q]].account = b /\ revision[head[b][q]].product = q
      BY <3>1, <1>0, HeadOfPlace, NullFacts
    <3>3. revision'[head[b][q]] = revision[head[b][q]]
      BY <3>2, Applied
    <3>4. QED
      BY <3>1, <3>2, <3>3
  <2>3. QED
    BY <2>1, <2>2
<1>2. ProvenAccounts' = {a}
  <2>1. ProvenAccounts' = ProvenAccounts \cup {a}
    BY <1>0 DEF ProvenAccounts
  <2>2. QED
    BY <2>1 DEF Ready
\* A proven place lies in a, and it is p's or was proven before.
<1>3. \A place \in proven' :
         /\ place \in Places /\ place[1] = a
         /\ place[2] # p => place \in proven
  <2> SUFFICES ASSUME NEW place \in proven'
               PROVE  /\ place \in Places /\ place[1] = a
                      /\ place[2] # p => place \in proven
    OBVIOUS
  <2>1. place \in Places
    BY Applied
  <2>2. place[1] \in ProvenAccounts'
    BY DEF ProvenAccounts
  <2>3. QED
    BY <1>0, <1>2, <2>1, <2>2
<1>4. ProvenStand'
  <2> SUFFICES ASSUME NEW place \in proven' PROVE head'[place[1]][place[2]] # NoRevision
    BY DEF ProvenStand, HasHead
  <2>1. CASE place[2] = p
    BY <2>1, <1>3, Applied, NullFacts
  <2>2. CASE place[2] # p
    BY <2>2, <1>3, <1>0, Applied, PlaceFacts DEF ProvenStand, HasHead
  <2>3. QED
    BY <2>1, <2>2
<1>5. OneAccount'
  BY <1>2 DEF OneAccount
<1>6. OneOwner'
  <2> SUFFICES ASSUME NEW place \in proven', NEW q \in Products \ {place[2]},
                      head'[a][q] # NoRevision
               PROVE  revision'[head'[a][q]].offer # revision'[head'[a][place[2]]].offer
    BY <1>3 DEF OneOwner, Owner, HasHead
  <2>0. place[2] \in Products /\ place = <<a, place[2]>>
    BY <1>3, PlaceFacts
  <2>1. CASE place[2] = p
    <3>1. head'[a][q] = head[a][q] /\ HasHead(a, q)
      BY <2>1, Applied DEF HasHead
    <3>2. head[a][q] \in Ids /\ revision[head[a][q]] # NoRevision
      BY <3>1, <1>0, HeadOfPlace, NullFacts
    <3>3. revision'[head[a][q]] = revision[head[a][q]] /\ head'[a][p] = id
      BY <3>2, Applied
    <3>4. Owner(a, p, revision'[id].offer)
      BY Applied
    <3>5. QED
      BY <2>1, <3>1, <3>3, <3>4 DEF Owner
  <2>2. CASE place[2] # p
    <3>1. place \in proven /\ HasHead(a, place[2])
      BY <2>0, <2>2, <1>3, <1>0 DEF ProvenStand
    <3>2. head'[a][place[2]] = head[a][place[2]]
      BY <2>0, <2>2, Applied
    <3>3. revision'[head[a][place[2]]] = revision[head[a][place[2]]]
      BY <2>0, <3>1, <1>0, HeadOfPlace, NullFacts, Applied
    <3>4. CASE q = p
      BY <3>1, <3>2, <3>3, <3>4, <2>0, <2>2, Applied DEF Owner
    <3>5. CASE q # p
      <4>1. head'[a][q] = head[a][q] /\ HasHead(a, q)
        BY <3>5, Applied DEF HasHead
      <4>2. revision'[head[a][q]] = revision[head[a][q]]
        BY <4>1, <1>0, HeadOfPlace, NullFacts, Applied
      <4>3. Owner(a, place[2], revision[head[a][place[2]]].offer)
        BY <3>1, <2>0, <1>0 DEF OneOwner
      <4>4. QED
        BY <4>1, <4>2, <4>3, <3>2, <3>3 DEF Owner
    <3>6. QED
      BY <3>4, <3>5
  <2>3. QED
    BY <2>1, <2>2
<1>7. AllCompatible'
  <2> SUFFICES ASSUME NEW place \in proven' PROVE Compatible(a, place[2])'
    BY <1>3 DEF AllCompatible
  <2>1. Compatible(a, place[2])
    BY <1>3, <1>0 DEF AllCompatible, Ready
  <2>2. \A u \in Users, b \in Accounts \ {a} : customer'[u][b].use # "used"
    BY <2>1 DEF Compatible
  <2>3. ASSUME NEW i \in Ids, revision'[i] # NoRevision, revision'[i].product = place[2]
        PROVE  revision'[i].account = a
    <3>1. CASE i = id
      BY <3>1, Applied
    <3>2. CASE i # id
      BY <3>2, <2>1, <2>3, Applied DEF Compatible
    <3>3. QED
      BY <3>1, <3>2
  <2>4. QED
    BY <2>2, <2>3 DEF Compatible
<1>8. QED
  BY <1>1, <1>2, <1>4, <1>5, <1>6, <1>7 DEF StateInv
-----------------------------------------------------------------------------
(* A customer is reserved or used *)

CustomerStep(u, a) ==
    /\ customer' \in [Users -> [Accounts -> Customer]]
    /\ \A v \in Users, b \in Accounts : <<v, b>> # <<u, a>> => customer'[v][b] = customer[v][b]
    /\ customer'[u][a].proven
    /\ ProvenAccounts \subseteq {a}
    /\ inflight # NoWrite => inflight.place[1] = a
    /\ UNCHANGED <<revision, head, proven, command, inflight>>

LEMMA UseIsCustomerStep ==
  ASSUME TypeOK, StateInv, WriteInv, NEW u \in Users, NEW a \in Accounts, Use(u, a)
  PROVE  CustomerStep(u, a)
<1>1. PICK use \in {"unbound", "used"} : customer' = [customer EXCEPT ![u][a].use = use]
  BY DEF Use
<1>2. customer[u][a] \in Customer /\ customer[u][a].proven
  BY Types DEF Use
<1>3. /\ customer' \in [Users -> [Accounts -> Customer]]
      /\ \A v \in Users, b \in Accounts : <<v, b>> # <<u, a>> => customer'[v][b] = customer[v][b]
      /\ customer'[u][a].proven
  BY <1>1, <1>2 DEF TypeOK, Customer
<1>4. a \in ProvenAccounts
  BY <1>2, ProvenAccountsAre
<1>5. ProvenAccounts \subseteq {a}
  BY <1>4 DEF StateInv, OneAccount
<1>6. inflight # NoWrite => inflight.place[1] = a
  BY <1>4 DEF WriteInv, Ready
<1>7. QED
  BY <1>3, <1>5, <1>6 DEF CustomerStep, Use

LEMMA ReservedIsCustomerStep ==
  ASSUME TypeOK, NEW k \in Credentials, NEW u \in Users, NEW a \in Accounts,
         Reserves(k, u, a), customer' = Reserved(u, a),
         UNCHANGED <<revision, head, proven, command, inflight>>
  PROVE  CustomerStep(u, a)
<1>1. /\ customer' \in [Users -> [Accounts -> Customer]]
      /\ \A v \in Users, b \in Accounts : <<v, b>> # <<u, a>> => customer'[v][b] = customer[v][b]
      /\ customer'[u][a].proven
  <2>1. CASE customer[u][a].proven
    BY <2>1 DEF Reserved, TypeOK
  <2>2. CASE ~customer[u][a].proven
    BY <2>2 DEF Reserved, TypeOK, Customer
  <2>3. QED
    BY <2>1, <2>2
<1>2. ProvenAccounts \subseteq {a} /\ inflight = NoWrite
  BY DEF Reserves, CustomerAccount, Unlocked
<1>3. QED
  BY <1>1, <1>2 DEF CustomerStep

LEMMA CustomersKeep ==
  ASSUME IInv, NEW u \in Users, NEW a \in Accounts, CustomerStep(u, a)
  PROVE  IInv' /\ ProvenAccounts' = {a}
<1>0. TypeOK /\ StateInv /\ WriteInv /\ CommandInv
  BY DEF IInv
<1>1. TypeOK'
  BY <1>0 DEF CustomerStep, TypeOK
<1>2. ProvenAccounts' = {a}
  <2>1. ProvenAccounts' \subseteq ProvenAccounts \cup {a}
    <3> SUFFICES ASSUME NEW b \in ProvenAccounts' PROVE b \in ProvenAccounts \cup {a}
      OBVIOUS
    <3>1. CASE \E place \in proven : b = place[1]
      BY <3>1 DEF ProvenAccounts
    <3>2. CASE b \in Accounts /\ \E v \in Users : customer'[v][b].proven
      BY <3>2 DEF ProvenAccounts, CustomerStep
    <3>3. QED
      BY <3>1, <3>2 DEF ProvenAccounts, CustomerStep
  <2>2. a \in ProvenAccounts'
    BY DEF ProvenAccounts, CustomerStep
  <2>3. QED
    BY <2>1, <2>2 DEF CustomerStep
\* Elsewhere than in a nobody's use changes.
<1>3. ASSUME NEW p \in Products, Compatible(a, p) PROVE Compatible(a, p)'
  BY <1>3 DEF Compatible, CustomerStep
<1>4. StateInv'
  <2>1. HeadsFit(revision, head)' /\ ProvenStand' /\ OneOwner'
    BY <1>0 DEF StateInv, CustomerStep, HeadsFit, ProvenStand, HasHead, OneOwner, Owner
  <2>2. OneAccount'
    BY <1>2 DEF OneAccount
  <2>3. AllCompatible'
    <3> SUFFICES ASSUME NEW place \in proven PROVE Compatible(place[1], place[2])'
      BY DEF AllCompatible, CustomerStep
    <3>1. place \in Places /\ place[1] \in ProvenAccounts
      BY <1>0, Types DEF ProvenAccounts
    <3>2. place[1] = a /\ place[2] \in Products
      BY <3>1, PlaceFacts DEF CustomerStep
    <3>3. Compatible(a, place[2])
      BY <1>0, <3>2 DEF StateInv, AllCompatible
    <3>4. QED
      BY <3>2, <3>3, <1>3
  <2>4. QED
    BY <2>1, <2>2, <2>3 DEF StateInv
<1>5. WriteInv'
  <2> SUFFICES ASSUME inflight # NoWrite
               PROVE  WriteInv'
    BY DEF WriteInv, CustomerStep
  <2>0. inflight.place[2] \in Products /\ inflight.place[1] = a
    BY <1>0, Types, PlaceFacts DEF Write, CustomerStep
  <2>1. PICK p \in Products, id \in {inflight.id}, row \in {inflight.row} : p = inflight.place[2]
    BY <2>0
  <2>2. /\ Ready(id, row, a, p)
        /\ row # NoRevision => id \in Commands /\ command[id].row = row
    BY <1>0, <2>0, <2>1 DEF WriteInv
  <2>3. Compatible(a, p)'
    BY <2>1, <2>2, <1>3 DEF Ready
  <2>4. Ready(id, row, a, p)'
    BY <2>2, <2>3, <1>2 DEF Ready, CustomerStep, Owner, HasHead, Number
  <2>5. QED
    BY <2>0, <2>1, <2>2, <2>4 DEF WriteInv, CustomerStep
<1>6. CommandInv'
  BY <1>0 DEF CommandInv, CustomerStep
<1>7. QED
  BY <1>1, <1>2, <1>4, <1>5, <1>6 DEF IInv
-----------------------------------------------------------------------------
(* What a publication writes is ready *)

LEMMA NumbersAreNat ==
  ASSUME TypeOK, HeadsFit(revision, head), NEW a \in Accounts, NEW p \in Products
  PROVE  Number(a, p) \in Nat
<1>1. CASE HasHead(a, p)
  <2>1. revision[head[a][p]] \in Revision
    BY <1>1, HeadOfPlace
  <2>2. QED
    BY <1>1, <2>1 DEF Number, Revision
<1>2. CASE ~HasHead(a, p)
  BY <1>2 DEF Number
<1>3. QED
  BY <1>1, <1>2

LEMMA OfferNumbersAreNat ==
  ASSUME TypeOK, NEW a \in Accounts, NEW o \in Offers
  PROVE  OfferNumbers(a, o) \subseteq Nat
<1> SUFFICES ASSUME NEW i \in Ids, revision[i] # NoRevision PROVE revision[i].offerNumber \in Nat
  BY DEF OfferNumbers
<1>1. revision[i] \in Revision
  BY Types
<1>2. QED
  BY <1>1 DEF Revision

LEMMA AdmittedFacts ==
  ASSUME NEW c \in Commands, NEW r \in Request, NEW a \in Accounts, Admitted(c, r, a)
  PROVE  /\ command[c].pc = "idle"
         /\ inflight = NoWrite
         /\ r.product \in Products /\ r.offer \in Offers /\ r.expected \in Nat
         /\ ProvenAccounts \subseteq {a}
         /\ Compatible(a, r.product)
         /\ Owner(a, r.product, r.offer)
  BY DEF Admitted, Unlocked, Resolved, Scopes, Request

LEMMA SameIsReady ==
  ASSUME TypeOK, StateInv, NEW c \in Commands, NEW r \in Request, NEW a \in Accounts,
         Admitted(c, r, a), Unchanged(r, a)
  PROVE  /\ head[a][r.product] \in Ids
         /\ revision[head[a][r.product]] # NoRevision
         /\ Ready(head[a][r.product], NoRevision, a, r.product)
<1>1. HasHead(a, r.product) /\ revision[head[a][r.product]].offer = r.offer
  BY DEF Unchanged
<1>2. head[a][r.product] \in Ids /\ revision[head[a][r.product]] # NoRevision
  BY <1>1, AdmittedFacts, HeadOfPlace, NullFacts DEF StateInv
<1>3. QED
  BY <1>1, <1>2, AdmittedFacts DEF Ready

LEMMA RowIsReady ==
  ASSUME TypeOK, StateInv, NEW c \in Commands, NEW r \in Request, NEW a \in Accounts, NEW n,
         revision[c] = NoRevision, Inserts(c, r, a, n)
  PROVE  /\ Row(r, a, n) \in Revision
         /\ Row(r, a, n) # NoRevision
         /\ Ready(c, Row(r, a, n), a, r.product)
         /\ Row(r, a, n).product = r.product
         /\ Row(r, a, n).offer = r.offer
         /\ Row(r, a, n).number = r.expected + 1
<1>1. Admitted(c, r, a) /\ r.expected = Number(a, r.product) /\ n \in OfferNumbers(a, r.offer)
  BY DEF Inserts, IsLatest
<1>2. r.product \in Products /\ r.offer \in Offers
  BY <1>1, AdmittedFacts
<1>3. n \in Nat /\ Number(a, r.product) \in Nat
  BY <1>1, <1>2, NumbersAreNat, OfferNumbersAreNat DEF StateInv
<1>4. Row(r, a, n) \in Revision
  BY <1>2, <1>3 DEF Row, Revision
<1>5. QED
  BY <1>1, <1>4, NullFacts, AdmittedFacts DEF Row, Ready

-----------------------------------------------------------------------------
(* Each action keeps the invariant *)

\* A command answers and nothing else happens.
LEMMA AnswerKeeps ==
  ASSUME IInv, NEW c \in Commands, NEW x \in Answers, Answer(c, x),
         x # "none",
         x \in Void => revision[c] = NoRevision /\ inflight.id # c,
         x \in {"inserted", "recovered"} => revision[c] # NoRevision,
         UNCHANGED <<revision, head, proven, customer, inflight>>
  PROVE  IInv'
<1>0. TypeOK /\ StateInv /\ WriteInv /\ CommandInv
  BY DEF IInv
<1>1. command[c] \in Command
  BY <1>0, Types
<1>2. /\ command' \in [Commands -> Command]
      /\ \A d \in Commands : d # c => command'[d] = command[d]
      /\ command'[c] = [command[c] EXCEPT !.pc = "ended", !.answer = x]
  BY <1>0, <1>1 DEF Answer, TypeOK, Command
<1>3. /\ command'[c].pc = "ended" /\ command'[c].answer = x
      /\ command'[c].row = command[c].row /\ command'[c].request = command[c].request
  BY <1>1, <1>2 DEF Command
<1>4. TypeOK'
  BY <1>0, <1>2 DEF TypeOK
<1>5. StateInv'
  BY <1>0 DEF StateInv, HeadsFit, ProvenStand, HasHead, OneAccount, ProvenAccounts, OneOwner,
              Owner, AllCompatible, Compatible
<1>6. \A d \in Commands : command'[d].row = command[d].row
  BY <1>2, <1>3
<1>7. WriteInv'
  BY <1>0, <1>6 DEF WriteInv, Ready, ProvenAccounts, Compatible, Owner, HasHead, Number
<1>8. CommandInv'
  <2> SUFFICES ASSUME NEW d \in Commands
               PROVE  /\ command'[d].pc = "idle" =>
                            /\ command'[d].answer = "none"
                            /\ revision'[d] = NoRevision
                            /\ inflight'.id # d
                      /\ command'[d].answer \in Void =>
                            /\ revision'[d] = NoRevision
                            /\ inflight'.id # d
                      /\ command'[d].answer \in {"inserted", "recovered"} => revision'[d] # NoRevision
                      /\ revision'[d] # NoRevision => revision'[d] = command'[d].row
                      /\ command'[d].row # NoRevision =>
                            /\ command'[d].row.product = command'[d].request.product
                            /\ command'[d].row.offer = command'[d].request.offer
                            /\ command'[d].row.number = command'[d].request.expected + 1
    BY DEF CommandInv
  <2>1. CASE d = c
    BY <2>1, <1>0, <1>3 DEF CommandInv
  <2>2. CASE d # c
    BY <2>2, <1>0, <1>2 DEF CommandInv
  <2>3. QED
    BY <2>1, <2>2
<1>9. QED
  BY <1>4, <1>5, <1>7, <1>8 DEF IInv

LEMMA IdleIsEmpty ==
  ASSUME IInv, NEW c \in Commands, command[c].pc = "idle"
  PROVE  revision[c] = NoRevision /\ inflight.id # c
  BY DEF IInv, CommandInv

LEMMA RefusalsKeep ==
  ASSUME IInv, NEW c \in Commands, NEW r \in Request, NEW a \in Accounts,
         Refuse(c, r) \/ Conflict(c, r, a)
  PROVE  IInv'
<1>1. CASE Refuse(c, r)
  BY <1>1, IdleIsEmpty, AnswerKeeps DEF Refuse, Answers
<1>2. CASE Conflict(c, r, a)
  BY <1>2, IdleIsEmpty, AnswerKeeps DEF Conflict, Admitted, Answers
<1>3. QED
  BY <1>1, <1>2

LEMMA SameKeeps ==
  ASSUME IInv, NEW c \in Commands, NEW r \in Request, NEW a \in Accounts, Same(c, r, a)
  PROVE  IInv' /\ Apply(head[a][r.product], NoRevision, <<a, r.product>>)
<1>0. TypeOK /\ StateInv /\ WriteInv /\ CommandInv
  BY DEF IInv
<1>1. PICK p \in Products : p = r.product
  BY AdmittedFacts DEF Same
<1>2. PICK id \in Ids : id = head[a][p]
  BY <1>0, <1>1, SameIsReady DEF Same
<1>3. Ready(id, NoRevision, a, p)
  BY <1>0, <1>1, <1>2, SameIsReady DEF Same
<1>4. head' = [head EXCEPT ![a][p] = id] /\ UNCHANGED <<revision, head, customer, inflight>>
  BY <1>0, <1>2 DEF Same, TypeOK
<1>5. Apply(id, NoRevision, <<a, p>>)
  BY <1>1, <1>4 DEF Apply, Same
<1>6. StateInv' /\ proven' \in SUBSET Places
  BY <1>0, <1>3, <1>4, <1>5, ApplyKeeps, Applied
<1>7. command[c] \in Command /\ command[c].pc = "idle" /\ inflight = NoWrite
  BY <1>0, Types, AdmittedFacts DEF Same
<1>8. /\ command' \in [Commands -> Command]
      /\ \A d \in Commands : d # c => command'[d] = command[d]
      /\ command'[c].pc = "ended" /\ command'[c].answer = "unchanged"
      /\ command'[c].row = command[c].row /\ command'[c].request = command[c].request
  BY <1>0, <1>7 DEF Same, Answer, TypeOK, Command, Answers
<1>9. TypeOK'
  BY <1>0, <1>4, <1>6, <1>8 DEF TypeOK
<1>10. WriteInv'
  BY <1>4, <1>7 DEF WriteInv
<1>11. CommandInv'
  <2>1. revision[c] = NoRevision /\ inflight.id # c
    BY <1>7, IdleIsEmpty
  <2>2. QED
    BY <2>1, <1>0, <1>4, <1>8 DEF CommandInv, Void
<1>12. QED
  BY <1>1, <1>2, <1>5, <1>6, <1>9, <1>10, <1>11 DEF IInv

LEMMA SameLostKeeps ==
  ASSUME IInv, NEW c \in Commands, NEW r \in Request, NEW a \in Accounts, SameLost(c, r, a)
  PROVE  IInv'
<1>0. TypeOK /\ StateInv /\ WriteInv /\ CommandInv
  BY DEF IInv
<1>1. PICK p \in Products : p = r.product
  BY AdmittedFacts DEF SameLost
<1>2. PICK id \in Ids : id = head[a][p]
  BY <1>0, <1>1, SameIsReady DEF SameLost
<1>3. Ready(id, NoRevision, a, p) /\ revision[id] # NoRevision
  BY <1>0, <1>1, <1>2, SameIsReady DEF SameLost
<1>4. /\ UNCHANGED <<revision, head, proven, customer>>
      /\ inflight' = [id |-> id, row |-> NoRevision, place |-> <<a, p>>]
  BY <1>1, <1>2 DEF SameLost
<1>5. inflight' \in Write /\ inflight'.id = id /\ inflight'.row = NoRevision
      /\ inflight'.place[1] = a /\ inflight'.place[2] = p
  BY <1>4 DEF Write, Places
<1>6. command[c] \in Command /\ command[c].pc = "idle"
  BY <1>0, Types, AdmittedFacts DEF SameLost
<1>7. /\ command' \in [Commands -> Command]
      /\ \A d \in Commands : d # c => command'[d] = command[d]
      /\ command'[c].pc = "ended" /\ command'[c].answer = "uncertain"
      /\ command'[c].row = command[c].row /\ command'[c].request = command[c].request
  BY <1>0, <1>6 DEF SameLost, Answer, TypeOK, Command, Answers
<1>8. TypeOK'
  BY <1>0, <1>4, <1>5, <1>7 DEF TypeOK
<1>9. StateInv'
  BY <1>0, <1>4 DEF StateInv, HeadsFit, ProvenStand, HasHead, OneAccount, ProvenAccounts, OneOwner,
              Owner, AllCompatible, Compatible
<1>10. WriteInv'
  <2>1. Ready(id, NoRevision, a, p)'
    BY <1>3, <1>4 DEF Ready, ProvenAccounts, Compatible, Owner, HasHead, Number
  <2>2. QED
    BY <2>1, <1>5 DEF WriteInv
<1>11. CommandInv'
  <2>1. \A d \in Commands : revision[d] = NoRevision => id # d
    BY <1>3
  <2>2. QED
    BY <2>1, <1>0, <1>4, <1>5, <1>6, <1>7 DEF CommandInv, Void
<1>12. QED
  BY <1>8, <1>9, <1>10, <1>11 DEF IInv

LEMMA InsertKeeps ==
  ASSUME IInv, NEW c \in Commands, NEW r \in Request, NEW a \in Accounts, NEW n, Insert(c, r, a, n)
  PROVE  IInv' /\ Row(r, a, n) \in Revision
               /\ Ready(c, Row(r, a, n), a, r.product)
<1>0. TypeOK /\ StateInv /\ WriteInv /\ CommandInv
  BY DEF IInv
<1>1. /\ command[c].pc = "idle" /\ inflight = NoWrite /\ inflight' = NoWrite
      /\ customer' = customer
      /\ r.product \in Products
  BY AdmittedFacts DEF Insert, Inserts
<1>2. revision[c] = NoRevision /\ c \in Ids
  BY <1>1, IdleIsEmpty DEF Ids
<1>3. PICK p \in Products : p = r.product
  BY <1>1
<1>4. PICK row \in Revision : row = Row(r, a, n)
  BY <1>0, <1>2, RowIsReady DEF Insert
<1>5. /\ Ready(c, row, a, p)
      /\ row # NoRevision
      /\ row.product = r.product /\ row.offer = r.offer /\ row.number = r.expected + 1
  BY <1>0, <1>2, <1>3, <1>4, RowIsReady DEF Insert
<1>6. /\ Apply(c, row, <<a, p>>)
      /\ command' = [command EXCEPT ![c] =
            [pc |-> "ended", request |-> r, row |-> row, answer |-> "inserted"]]
  BY <1>3, <1>4 DEF Insert
<1>7. StateInv'
  BY <1>0, <1>1, <1>2, <1>5, <1>6, ApplyKeeps
<1>8. /\ revision' \in [Ids -> Revision \cup {NoRevision}]
      /\ head' \in [Accounts -> [Products -> Ids \cup {NoRevision}]]
      /\ proven' \in SUBSET Places
      /\ revision'[c] = row
      /\ \A i \in Ids : i # c => revision'[i] = revision[i]
  BY <1>0, <1>2, <1>5, <1>6, Applied
<1>9. /\ command' \in [Commands -> Command]
      /\ \A d \in Commands : d # c => command'[d] = command[d]
      /\ command'[c] = [pc |-> "ended", request |-> r, row |-> row, answer |-> "inserted"]
  BY <1>0, <1>6 DEF TypeOK, Command, Answers
<1>10. TypeOK'
  BY <1>0, <1>1, <1>8, <1>9 DEF TypeOK
<1>11. WriteInv'
  BY <1>1 DEF WriteInv
<1>12. CommandInv'
  BY <1>0, <1>1, <1>5, <1>8, <1>9 DEF CommandInv, Void, Ids
<1>13. QED
  BY <1>3, <1>4, <1>5, <1>7, <1>10, <1>11, <1>12 DEF IInv

LEMMA InsertLostKeeps ==
  ASSUME IInv, NEW c \in Commands, NEW r \in Request, NEW a \in Accounts, NEW n,
         InsertLost(c, r, a, n)
  PROVE  IInv'
<1>0. TypeOK /\ StateInv /\ WriteInv /\ CommandInv
  BY DEF IInv
<1>1. /\ command[c].pc = "idle" /\ inflight = NoWrite
      /\ UNCHANGED <<revision, head, proven, customer>>
      /\ r.product \in Products
  BY AdmittedFacts DEF InsertLost, Inserts
<1>2. revision[c] = NoRevision /\ c \in Ids
  BY <1>1, IdleIsEmpty DEF Ids
<1>3. PICK p \in Products : p = r.product
  BY <1>1
<1>4. PICK row \in Revision : row = Row(r, a, n)
  BY <1>0, <1>2, RowIsReady DEF InsertLost
<1>5. /\ Ready(c, row, a, p)
      /\ row # NoRevision
      /\ row.product = r.product /\ row.offer = r.offer /\ row.number = r.expected + 1
  BY <1>0, <1>2, <1>3, <1>4, RowIsReady DEF InsertLost
<1>6. /\ inflight' = [id |-> c, row |-> row, place |-> <<a, p>>]
      /\ command' = [command EXCEPT ![c] =
            [pc |-> "recover", request |-> r, row |-> row, answer |-> "none"]]
  BY <1>3, <1>4 DEF InsertLost
<1>7. inflight' \in Write /\ inflight'.id = c /\ inflight'.row = row
      /\ inflight'.place[1] = a /\ inflight'.place[2] = p
  BY <1>2, <1>6 DEF Write, Places
<1>8. /\ command' \in [Commands -> Command]
      /\ \A d \in Commands : d # c => command'[d] = command[d]
      /\ command'[c] = [pc |-> "recover", request |-> r, row |-> row, answer |-> "none"]
  BY <1>0, <1>6 DEF TypeOK, Command, Answers
<1>9. TypeOK'
  BY <1>0, <1>1, <1>7, <1>8 DEF TypeOK
<1>10. StateInv'
  BY <1>0, <1>1 DEF StateInv, HeadsFit, ProvenStand, HasHead, OneAccount, ProvenAccounts, OneOwner,
              Owner, AllCompatible, Compatible
<1>11. WriteInv'
  <2>1. Ready(c, row, a, p)'
    BY <1>1, <1>5 DEF Ready, ProvenAccounts, Compatible, Owner, HasHead, Number
  <2>2. QED
    BY <2>1, <1>7, <1>8 DEF WriteInv
<1>12. CommandInv'
  BY <1>0, <1>1, <1>2, <1>5, <1>7, <1>8 DEF CommandInv, Void
<1>13. QED
  BY <1>9, <1>10, <1>11, <1>12 DEF IInv

\* The undecided write is well formed and ready.
LEMMA InflightIsReady ==
  ASSUME IInv, inflight # NoWrite
  PROVE  \E id \in Ids, row \in Revision \cup {NoRevision}, a \in Accounts, p \in Products :
            /\ inflight.id = id /\ inflight.row = row /\ inflight.place = <<a, p>>
            /\ Ready(id, row, a, p)
            /\ row # NoRevision => id \in Commands /\ command[id].row = row
<1>1. inflight \in Write /\ WriteInv
  BY Types DEF IInv
<1>2. /\ inflight.id \in Ids
      /\ inflight.row \in Revision \cup {NoRevision}
      /\ inflight.place \in Places
  BY <1>1 DEF Write
<1>3. QED
  BY <1>1, <1>2, PlaceFacts DEF WriteInv

LEMMA CommitsKeeps == IInv /\ Commits => IInv'
<1> SUFFICES ASSUME IInv, Commits PROVE IInv'
  OBVIOUS
<1>0. TypeOK /\ StateInv /\ CommandInv
  BY DEF IInv
<1>1. PICK id \in Ids, row \in Revision \cup {NoRevision}, a \in Accounts, p \in Products :
         /\ inflight.id = id /\ inflight.row = row /\ inflight.place = <<a, p>>
         /\ Ready(id, row, a, p)
         /\ row # NoRevision => id \in Commands /\ command[id].row = row
  BY InflightIsReady DEF Commits
<1>2. /\ Apply(id, row, <<a, p>>)
      /\ inflight' = NoWrite
      /\ UNCHANGED <<customer, command>>
  BY <1>1 DEF Commits
<1>3. StateInv'
  BY <1>0, <1>1, <1>2, ApplyKeeps
<1>4. /\ revision' \in [Ids -> Revision \cup {NoRevision}]
      /\ head' \in [Accounts -> [Products -> Ids \cup {NoRevision}]]
      /\ proven' \in SUBSET Places
      /\ row = NoRevision => revision' = revision
      /\ row # NoRevision => revision'[id] = row
      /\ \A i \in Ids : i # id => revision'[i] = revision[i]
  BY <1>0, <1>1, <1>2, Applied
<1>5. TypeOK'
  BY <1>0, <1>2, <1>4 DEF TypeOK
<1>6. WriteInv'
  BY <1>2 DEF WriteInv
<1>7. CommandInv'
  <2>1. \A d \in Commands : inflight'.id # d
    BY <1>2, NullFacts DEF NoWrite, Ids
  <2>2. CASE row = NoRevision
    BY <2>1, <2>2, <1>0, <1>2, <1>4 DEF CommandInv
  <2>3. CASE row # NoRevision
    <3>1. command[id].pc # "idle" /\ command[id].answer \notin Void
      BY <2>3, <1>0, <1>1 DEF CommandInv
    <3>2. QED
      BY <2>1, <2>3, <3>1, <1>0, <1>1, <1>2, <1>4 DEF CommandInv, Ids
  <2>4. QED
    BY <2>2, <2>3
<1>8. QED
  BY <1>3, <1>5, <1>6, <1>7 DEF IInv

LEMMA RollsBackKeeps == IInv /\ RollsBack => IInv'
<1> SUFFICES ASSUME IInv, RollsBack PROVE IInv'
  OBVIOUS
<1>0. TypeOK /\ StateInv /\ CommandInv
  BY DEF IInv
<1>1. inflight' = NoWrite /\ UNCHANGED <<revision, head, proven, customer, command>>
  BY DEF RollsBack
<1>2. TypeOK' /\ WriteInv'
  BY <1>0, <1>1 DEF TypeOK, WriteInv
<1>3. StateInv'
  BY <1>0, <1>1 DEF StateInv, HeadsFit, ProvenStand, HasHead, OneAccount, ProvenAccounts, OneOwner,
              Owner, AllCompatible, Compatible
<1>4. CommandInv'
  <2>1. \A d \in Commands : inflight'.id # d
    BY <1>1, NullFacts DEF NoWrite, Ids
  <2>2. QED
    BY <2>1, <1>0, <1>1 DEF CommandInv
<1>5. QED
  BY <1>2, <1>3, <1>4 DEF IInv
-----------------------------------------------------------------------------
(* The invariant is inductive *)

LEMMA RequestsAreRequests ==
  ASSUME NEW p \in Products, NEW o \in Offers, NEW k \in Credentials, NEW e \in 0..MaxExpected
  PROVE  [product |-> p, offer |-> o, expected |-> e, credentials |-> k] \in Request
  BY BoundAssumption DEF Request

\* A step of a customer changes one row in the account everything proven is in.
LEMMA CustomerSteps ==
  ASSUME IInv, NEW u \in Users,
         \/ \E a \in Accounts : Use(u, a) \/ \E k \in Credentials : Reserve(k, u, a)
         \/ \E k \in Credentials, i \in Ids : Accept(k, u, i)
  PROVE  \E a \in Accounts : CustomerStep(u, a)
<1>0. TypeOK /\ StateInv /\ WriteInv
  BY DEF IInv
<1>1. ASSUME NEW a \in Accounts, Use(u, a) PROVE CustomerStep(u, a)
  BY <1>0, <1>1, UseIsCustomerStep
<1>2. ASSUME NEW a \in Accounts, NEW k \in Credentials, Reserve(k, u, a) PROVE CustomerStep(u, a)
  BY <1>0, <1>2, ReservedIsCustomerStep DEF Reserve
<1>3. ASSUME NEW k \in Credentials, NEW i \in Ids, Accept(k, u, i)
      PROVE  \E a \in Accounts : CustomerStep(u, a)
  <2>1. revision[i] \in Revision
    BY <1>0, <1>3, Types DEF Accept, Acceptable
  <2>2. PICK a \in Accounts : a = revision[i].account
    BY <2>1 DEF Revision
  <2>3. /\ Reserves(k, u, a)
        /\ customer' = Reserved(u, a)
        /\ UNCHANGED <<revision, head, proven, command, inflight>>
    BY <1>3, <2>2 DEF Accept, Acceptable
  <2>4. QED
    BY <1>0, <2>3, ReservedIsCustomerStep
<1>4. QED
  BY <1>1, <1>2, <1>3

LEMMA PublishKeeps ==
  ASSUME IInv, NEW c \in Commands, NEW r \in Request, Publish(c, r)
  PROVE  IInv'
<1>1. CASE Refuse(c, r)
  <2>1. Default \in Accounts
    BY AccountAssumption
  <2>2. QED
    BY <1>1, <2>1, RefusalsKeep
<1>2. ASSUME NEW a \in Accounts, Same(c, r, a) PROVE IInv'
  BY <1>2, SameKeeps
<1>3. ASSUME NEW a \in Accounts, SameLost(c, r, a) PROVE IInv'
  BY <1>3, SameLostKeeps
<1>4. ASSUME NEW a \in Accounts, Conflict(c, r, a) PROVE IInv'
  BY <1>4, RefusalsKeep
<1>5. ASSUME NEW a \in Accounts, NEW n, Insert(c, r, a, n) PROVE IInv'
  BY <1>5, InsertKeeps
<1>6. ASSUME NEW a \in Accounts, NEW n, InsertLost(c, r, a, n) PROVE IInv'
  BY <1>6, InsertLostKeeps
<1>7. QED
  BY <1>1, <1>2, <1>3, <1>4, <1>5, <1>6 DEF Publish

LEMMA NextInv == IInv /\ [Next]_vars => IInv'
<1> SUFFICES ASSUME IInv, [Next]_vars PROVE IInv'
  OBVIOUS
<1>1. ASSUME NEW c \in Commands, Fail(c) \/ Recover(c) \/ GiveUp(c) PROVE IInv'
  <2>1. CASE Fail(c)
    BY <2>1, IdleIsEmpty, AnswerKeeps DEF Fail, Answers
  <2>2. CASE Recover(c)
    BY <2>2, AnswerKeeps DEF Recover, Found, Answers, Void
  <2>3. CASE GiveUp(c)
    BY <2>3, AnswerKeeps DEF GiveUp, Answers, Void
  <2>4. QED
    BY <1>1, <2>1, <2>2, <2>3
<1>2. ASSUME NEW c \in Commands, NEW p \in Products, NEW o \in Offers, NEW k \in Credentials,
             NEW e \in 0..MaxExpected,
             Publish(c, [product |-> p, offer |-> o, expected |-> e, credentials |-> k])
      PROVE  IInv'
  BY <1>2, RequestsAreRequests, PublishKeeps
<1>3. CASE Commits
  BY <1>3, CommitsKeeps
<1>4. CASE RollsBack
  BY <1>4, RollsBackKeeps
<1>5. ASSUME NEW u \in Users,
             \/ \E a \in Accounts : Use(u, a) \/ \E k \in Credentials : Reserve(k, u, a)
             \/ \E k \in Credentials, i \in Ids : Accept(k, u, i)
      PROVE  IInv'
  BY <1>5, CustomerSteps, CustomersKeep
<1>6. CASE UNCHANGED vars
  <2>1. StateInv'
    BY <1>6 DEF vars, IInv, TypeOK, StateInv, HeadsFit, ProvenStand, HasHead, OneAccount,
                ProvenAccounts, OneOwner, Owner, AllCompatible, Compatible
  <2>2. WriteInv'
    <3>1. UNCHANGED <<revision, head, proven, customer, command, inflight>>
      BY <1>6 DEF vars
    <3>2. \A id, row, a, p : Ready(id, row, a, p)' <=> Ready(id, row, a, p)
      BY <3>1 DEF Ready, ProvenAccounts, Compatible, Owner, Number, HasHead
    <3> QED
      BY <3>1, <3>2 DEF IInv, WriteInv
  <2>3. CommandInv'
    BY <1>6 DEF vars, IInv, CommandInv
  <2>4. TypeOK'
    BY <1>6 DEF vars, IInv, TypeOK
  <2> QED
    BY <2>1, <2>2, <2>3, <2>4 DEF IInv
<1>7. QED
  BY <1>1, <1>2, <1>3, <1>4, <1>5, <1>6 DEF Next

LEMMA SpecInv == Spec => []IInv
  BY InitInv, NextInv, PTL DEF Spec

-----------------------------------------------------------------------------
(* Theorems *)

\* Every variable keeps its type.
THEOREM TypeCorrect == Spec => []TypeOK
<1>1. IInv => TypeOK
  BY DEF IInv
<1>2. QED
  BY <1>1, SpecInv, PTL

\* All proven links and customers of the origin live in one account,
\* whatever the credentials and the order of first links, first customers
\* and proofs.
THEOREM AccountIsOne == Spec => []OneAccount
<1>1. IInv => OneAccount
  BY DEF IInv, StateInv
<1>2. QED
  BY <1>1, SpecInv, PTL

\* No other product of the account has the offer of a proven link.
THEOREM OwnerIsOne == Spec => []OneOwner
<1>1. IInv => OneOwner
  BY DEF IInv, StateInv
<1>2. QED
  BY <1>1, SpecInv, PTL

\* Processes with different credentials show the same link or refuse.
THEOREM ProcessesAgree == Spec => []AgreeOnCurrent
<1>1. IInv => AgreeOnCurrent
  <2> SUFFICES ASSUME IInv, NEW p \in Products, NEW i \in Shown(p), NEW j \in Shown(p)
               PROVE  i = j
    BY DEF AgreeOnCurrent
  <2>0. TypeOK /\ HeadsFit(revision, head)
    BY DEF IInv, StateInv
  <2>1. PICK a \in Accounts : head[a][p] = i /\ Compatible(a, p)
    BY DEF Shown, Shows
  <2>2. PICK b \in Accounts : head[b][p] = j /\ Compatible(b, p)
    BY DEF Shown, Shows
  \* A revision one of them shows would be foreign history for the other.
  <2>3. ASSUME i # NoRevision PROVE a = b
    <3>1. i \in Ids /\ revision[i] # NoRevision /\ revision[i].account = a /\ revision[i].product = p
      BY <2>0, <2>1, <2>3, HeadOfPlace, NullFacts DEF HasHead
    <3>2. QED
      BY <2>2, <3>1 DEF Compatible
  <2>4. ASSUME j # NoRevision PROVE a = b
    <3>1. j \in Ids /\ revision[j] # NoRevision /\ revision[j].account = b /\ revision[j].product = p
      BY <2>0, <2>2, <2>4, HeadOfPlace, NullFacts DEF HasHead
    <3>2. QED
      BY <2>1, <3>1 DEF Compatible
  <2>5. QED
    BY <2>1, <2>2, <2>3, <2>4
<1>2. QED
  BY <1>1, SpecInv, PTL

\* All three at once: one account, one product of an offer, one link of a product.
THEOREM CatalogIsOne == Spec => []OneCatalog
<1>1. OneAccount /\ OneOwner /\ AgreeOnCurrent => OneCatalog
  BY DEF OneCatalog
<1>2. QED
  BY <1>1, AccountIsOne, OwnerIsOne, ProcessesAgree, PTL

\* What a publish command reports is true of the tables and stays true.
THEOREM AnswersStayTrue == Spec => []AnswersAreTrue
<1>1. IInv => AnswersAreTrue
  <2> SUFFICES ASSUME IInv, NEW c \in Commands
               PROVE  /\ command[c].answer \in {"inserted", "recovered"} =>
                            /\ revision[c] # NoRevision
                            /\ revision[c].product = command[c].request.product
                            /\ revision[c].offer = command[c].request.offer
                            /\ revision[c].number = command[c].request.expected + 1
                      /\ command[c].answer \in {"refused", "conflict", "failed", "unchanged"} =>
                            /\ revision[c] = NoRevision
                            /\ inflight.id # c
    BY DEF AnswersAreTrue
  <2>1. QED
    BY DEF IInv, CommandInv, Void
<1>2. QED
  BY <1>1, SpecInv, PTL

\* Whatever a purchase can pin is what the catalog would show to the same
\* process at that moment.
THEOREM PurchasesAreCurrent == Spec => []AcceptedIsCurrent
<1>1. IInv => AcceptedIsCurrent
  <2> SUFFICES ASSUME IInv, NEW k \in Credentials, NEW u \in Users, NEW i \in Ids, Acceptable(k, u, i)
               PROVE  Shows(k, revision[i].product, i)
    BY DEF AcceptedIsCurrent
  <2>0. TypeOK /\ ProvenStand /\ AllCompatible
    BY DEF IInv, StateInv
  <2>1. revision[i] \in Revision
    BY <2>0, Types DEF Acceptable
  <2>2. PICK a \in Accounts, p \in Products : a = revision[i].account /\ p = revision[i].product
    BY <2>1 DEF Revision
  <2>3. head[a][p] = i /\ <<a, p>> \in proven /\ Owner(a, p, revision[i].offer) /\ CustomerAccount(k, u, a)
    BY <2>2 DEF Acceptable, Reserves
  <2>4. ProvenAccounts = {a}
    BY <2>0, <2>3, ProvenAccountsAre DEF CustomerAccount
  <2>5. Scopes(k) = {a}
    <3>1. ASSUME NEW place \in Visible(k) PROVE place[1] = a
      <4>1. CASE place \in proven
        BY <4>1, <2>4 DEF ProvenAccounts
      <4>2. CASE place \notin proven
        BY <4>2, <3>1, <2>3 DEF CustomerAccount
      <4>3. QED
        BY <4>1, <4>2
    <3>2. QED
      BY <3>1, <2>4 DEF Scopes
  <2>6. Resolved(k, a)
    BY <2>5 DEF Resolved
  <2>7. Compatible(a, p)
    BY <2>0, <2>3 DEF AllCompatible
  <2>8. QED
    BY <2>2, <2>3, <2>6, <2>7 DEF Shows
<1>2. QED
  BY <1>1, SpecInv, PTL
-----------------------------------------------------------------------------
(* The proven links are registers *)

LEMMA HomeIs ==
  /\ ProvenAccounts = {} => Home = NoAccount
  /\ \A a : ProvenAccounts = {a} => Home = a
  BY DEF Home

\* Everything Ready finds is at home in a, or there is no home yet.
LEMMA HomeBefore ==
  ASSUME TypeOK, NEW a \in Accounts, ProvenAccounts \subseteq {a}
  PROVE  /\ Home \in {NoAccount, a}
         /\ \A q \in Products : <<Home, q>> \in proven <=> <<a, q>> \in proven
<1>1. CASE ProvenAccounts = {}
  <2>1. Home = NoAccount
    BY <1>1, HomeIs
  <2>2. proven = {}
    BY <1>1, Types DEF ProvenAccounts
  <2>3. QED
    BY <2>1, <2>2
<1>2. CASE ProvenAccounts = {a}
  BY <1>2, HomeIs
<1>3. QED
  BY <1>1, <1>2

\* The register of a product, seen from the account of a write.
Entry(a, q) ==
    IF <<a, q>> \in proven
    THEN [number |-> Number(a, q), offer |-> revision[head[a][q]].offer]
    ELSE [number |-> 0, offer |-> NoOffer]

LEMMA LinksAreEntries ==
  ASSUME TypeOK, NEW a \in Accounts, ProvenAccounts \subseteq {a}
  PROVE  Links = [q \in Products |-> Entry(a, q)]
<1>1. CASE ProvenAccounts = {}
  BY <1>1, HomeBefore, Types DEF Links, Entry, ProvenAccounts
<1>2. CASE ProvenAccounts = {a}
  BY <1>2, HomeIs DEF Links, Entry
<1>3. QED
  BY <1>1, <1>2

LEMMA ApplyWrites ==
  ASSUME IInv, TypeOK', NEW id \in Ids, NEW row \in Revision \cup {NoRevision},
         NEW a \in Accounts, NEW p \in Products, Ready(id, row, a, p),
         Apply(id, row, <<a, p>>), UNCHANGED customer
  PROVE  Register!Next \/ UNCHANGED <<Home, Links>>
<1>0. TypeOK /\ StateInv /\ ProvenAccounts \subseteq {a}
  BY DEF IInv, Ready
<1>1. /\ ProvenAccounts' = {a} /\ Home' = a /\ StateInv'
      /\ proven' = proven \cup {<<a, p>>}
  BY <1>0, ApplyKeeps, HomeIs DEF Apply, Home
<1>2. /\ Links = [q \in Products |-> Entry(a, q)]
      /\ Home \in {NoAccount, a}
  BY <1>0, LinksAreEntries, HomeBefore
<1>3. Links' = [q \in Products |-> Entry(a, q)']
  BY <1>1 DEF Links, Entry
<1>4. \A q \in Products \ {p} : Entry(a, q)' = Entry(a, q)
  <2> SUFFICES ASSUME NEW q \in Products \ {p} PROVE Entry(a, q)' = Entry(a, q)
    OBVIOUS
  <2>1. (<<a, q>> \in proven') <=> (<<a, q>> \in proven)
    BY <1>1
  <2>2. head'[a][q] = head[a][q]
    BY <1>0, Applied
  <2>3. ASSUME <<a, q>> \in proven
        PROVE  HasHead(a, q) /\ revision'[head[a][q]] = revision[head[a][q]]
    <3>1. HasHead(a, q)
      BY <1>0, <2>3 DEF StateInv, ProvenStand
    <3>2. head[a][q] \in Ids /\ revision[head[a][q]] # NoRevision
      BY <1>0, <3>1, HeadOfPlace, NullFacts DEF StateInv
    <3>3. QED
      BY <1>0, <3>1, <3>2, Applied
  <2>4. CASE <<a, q>> \in proven
    BY <2>1, <2>2, <2>3, <2>4 DEF Entry, Number, HasHead
  <2>5. CASE <<a, q>> \notin proven
    BY <2>1, <2>5 DEF Entry
  <2>6. QED
    BY <2>4, <2>5
<1>5. /\ head'[a][p] = id
      /\ revision'[id] \in Revision
      /\ Owner(a, p, revision'[id].offer)
      /\ row = NoRevision => revision' = revision /\ head' = head
      /\ row # NoRevision => revision'[id].number = Number(a, p) + 1
  BY <1>0, Applied
<1>6. Entry(a, p)' = [number |-> revision'[id].number, offer |-> revision'[id].offer]
  BY <1>1, <1>5, NullFacts DEF Entry, Number, HasHead
\* Nothing is new where the origin of the unchanged head was known.
<1>7. CASE row = NoRevision /\ <<a, p>> \in proven
  <2>1. UNCHANGED <<revision, head, proven>>
    BY <1>1, <1>5, <1>7
  <2>2. a \in ProvenAccounts
    BY <1>0, <1>7, ProvenAccountsAre
  <2>3. Home = a
    BY <1>0, <2>2, HomeIs
  <2>4. Entry(a, p)' = Entry(a, p)
    BY <2>1 DEF Entry, Number, HasHead
  <2>5. QED
    BY <1>1, <1>2, <1>3, <1>4, <2>3, <2>4
<1>8. CASE ~(row = NoRevision /\ <<a, p>> \in proven)
  <2>1. /\ Entry(a, p)' \in [number : Nat \ {0}, offer : Offers]
        /\ Entry(a, p)'.offer = revision'[id].offer
        /\ Entry(a, p)'.number = revision'[id].number
    BY <1>5, <1>6 DEF Revision
  <2>2. /\ Links'[p] = Entry(a, p)'
        /\ Links[p] = Entry(a, p)
        /\ Links' = [Links EXCEPT ![p] = Links'[p]]
    BY <1>2, <1>3, <1>4
  <2>3. \A q \in Products \ {p} : Links[q].offer # Links'[p].offer
    <3> SUFFICES ASSUME NEW q \in Products \ {p} PROVE Entry(a, q).offer # revision'[id].offer
      BY <1>2, <2>1, <2>2
    <3>1. CASE <<a, q>> \in proven
      <4>1. HasHead(a, q)
        BY <1>0, <3>1 DEF StateInv, ProvenStand
      <4>2. QED
        BY <3>1, <4>1, <1>5 DEF Entry, Owner
    <3>2. CASE <<a, q>> \notin proven
      BY <3>2, <1>5, NullFacts DEF Entry, Revision
    <3>3. QED
      BY <3>1, <3>2
  <2>4. Links[p] = [number |-> 0, offer |-> NoOffer] \/ Links'[p].number = Links[p].number + 1
    <3>1. CASE <<a, p>> \in proven
      BY <3>1, <1>5, <1>8, <2>1, <2>2 DEF Entry
    <3>2. CASE <<a, p>> \notin proven
      BY <3>2, <2>2 DEF Entry
    <3>3. QED
      BY <3>1, <3>2
  <2>5. Register!Write(p, a)
    BY <1>1, <1>2, <2>1, <2>2, <2>3, <2>4 DEF Register!Write, Register!Empty
  <2>6. QED
    BY <2>5 DEF Register!Next
<1>9. QED
  BY <1>7, <1>8

\* A customer's step settles the account or changes nothing of the links.
LEMMA CustomerSettles ==
  ASSUME IInv, NEW u \in Users, NEW a \in Accounts, CustomerStep(u, a)
  PROVE  Register!Next \/ UNCHANGED <<Home, Links>>
<1>0. TypeOK /\ TypeOK' /\ ProvenAccounts \subseteq {a} /\ ProvenAccounts' = {a}
  BY CustomersKeep DEF IInv, CustomerStep
<1>1. Home' = a
  BY <1>0 DEF Home
<1>2. Links = [q \in Products |-> Entry(a, q)]
  BY <1>0, LinksAreEntries
<1>3. Links' = [q \in Products |-> Entry(a, q)']
  BY <1>1 DEF Links, Entry
<1>4. \A q \in Products : Entry(a, q)' = Entry(a, q)
  BY DEF CustomerStep, Entry, Number, HasHead
<1>5. Links' = Links
  BY <1>2, <1>3, <1>4
<1>6. Home \in {NoAccount, a}
  BY <1>0, HomeBefore
<1>7. CASE Home = a
  BY <1>1, <1>5, <1>7
<1>8. CASE Home = NoAccount
  BY <1>1, <1>5, <1>8 DEF Register!Next, Register!Settle
<1>9. QED
  BY <1>6, <1>7, <1>8

\* ProductLinks implements LinkRegister: one account, chosen once; registers
\* written by compare-and-set, each with an offer of its own.
THEOREM RefinesRegister == Spec => LinksAreRegisters
<1>1. Init => Register!Init
  <2> SUFFICES ASSUME Init PROVE Register!Init
    OBVIOUS
  <2>0. PICK d \in Databases :
           customer = [u \in Users |-> [a \in Accounts |-> [use |-> d.use[u][a], proven |-> FALSE]]]
    BY DEF Init
  <2>1. ProvenAccounts = {}
    BY <2>0 DEF Init, ProvenAccounts
  <2>2. Home = NoAccount /\ proven = {}
    BY <2>1, HomeIs DEF Init
  <2>3. QED
    BY <2>2 DEF Register!Init, Register!Empty, Links
<1>2. IInv /\ [Next]_vars => [Register!Next]_<<Home, Links>>
  <2> SUFFICES ASSUME IInv, [Next]_vars
               PROVE  Register!Next \/ UNCHANGED <<Home, Links>>
    OBVIOUS
  <2>0. IInv' /\ TypeOK'
    BY NextInv DEF IInv
  <2>1. ASSUME UNCHANGED <<revision, head, proven, customer>>
        PROVE  UNCHANGED <<Home, Links>>
    BY <2>1 DEF Home, Links, ProvenAccounts, Number, HasHead
  <2>2. ASSUME NEW c \in Commands, NEW r \in Request, Publish(c, r)
        PROVE  Register!Next \/ UNCHANGED <<Home, Links>>
    <3>1. CASE Refuse(c, r)
      BY <3>1, <2>1 DEF Refuse
    <3>2. ASSUME NEW a \in Accounts, SameLost(c, r, a) \/ Conflict(c, r, a)
          PROVE  UNCHANGED <<Home, Links>>
      BY <3>2, <2>1 DEF SameLost, Conflict
    <3>3. ASSUME NEW a \in Accounts, NEW n, InsertLost(c, r, a, n)
          PROVE  UNCHANGED <<Home, Links>>
      BY <3>3, <2>1 DEF InsertLost
    <3>4. ASSUME NEW a \in Accounts, Same(c, r, a)
          PROVE  Register!Next \/ UNCHANGED <<Home, Links>>
      <4>1. r.product \in Products /\ head[a][r.product] \in Ids
            /\ Ready(head[a][r.product], NoRevision, a, r.product)
        BY <3>4, AdmittedFacts, SameIsReady DEF Same, IInv
      <4>2. PICK p \in Products, id \in Ids : p = r.product /\ id = head[a][r.product]
        BY <4>1
      <4>3. /\ Ready(id, NoRevision, a, p)
            /\ Apply(id, NoRevision, <<a, p>>)
            /\ UNCHANGED customer
        BY <3>4, <4>1, <4>2, SameKeeps DEF Same
      <4>4. QED
        BY <2>0, <4>3, ApplyWrites
    <3>5. ASSUME NEW a \in Accounts, NEW n, Insert(c, r, a, n)
          PROVE  Register!Next \/ UNCHANGED <<Home, Links>>
      <4>1. r.product \in Products
        BY <3>5, AdmittedFacts DEF Insert, Inserts
      <4>2. Row(r, a, n) \in Revision /\ Ready(c, Row(r, a, n), a, r.product)
        BY <3>5, InsertKeeps
      <4>3. PICK p \in Products, row \in Revision : p = r.product /\ row = Row(r, a, n)
        BY <4>1, <4>2
      <4>4. Ready(c, row, a, p) /\ Apply(c, row, <<a, p>>) /\ UNCHANGED customer /\ c \in Ids
        BY <3>5, <4>2, <4>3 DEF Insert, Ids
      <4>5. QED
        BY <2>0, <4>4, ApplyWrites
    <3>6. QED
      BY <2>2, <3>1, <3>2, <3>3, <3>4, <3>5 DEF Publish
  <2>3. CASE Commits
    <3>1. PICK id \in Ids, row \in Revision \cup {NoRevision}, a \in Accounts, p \in Products :
             /\ inflight.id = id /\ inflight.row = row /\ inflight.place = <<a, p>>
             /\ Ready(id, row, a, p)
      BY <2>3, InflightIsReady DEF Commits
    <3>2. QED
      BY <2>0, <2>3, <3>1, ApplyWrites DEF Commits
  <2>4. ASSUME NEW u \in Users,
               \/ \E a \in Accounts : Use(u, a) \/ \E k \in Credentials : Reserve(k, u, a)
               \/ \E k \in Credentials, i \in Ids : Accept(k, u, i)
        PROVE  Register!Next \/ UNCHANGED <<Home, Links>>
    BY <2>4, CustomerSteps, CustomerSettles
  <2>5. ASSUME NEW c \in Commands, Fail(c) \/ Recover(c) \/ GiveUp(c)
        PROVE  UNCHANGED <<Home, Links>>
    BY <2>5, <2>1 DEF Fail, Recover, GiveUp
  <2>6. CASE RollsBack
    BY <2>6, <2>1 DEF RollsBack
  <2>7. CASE UNCHANGED vars
    BY <2>7, <2>1 DEF vars
  <2>8. QED
    BY <2>2, <2>3, <2>4, <2>5, <2>6, <2>7, RequestsAreRequests DEF Next
<1>3. QED
  BY <1>1, <1>2, SpecInv, PTL DEF Spec, LinksAreRegisters, Register!Spec, Register!vars
=============================================================================
