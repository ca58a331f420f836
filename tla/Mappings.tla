-------------------------------- MODULE Mappings ---------------------------------
(***************************************************************************)
(* The first version of a product's association with an offer: approved    *)
(* terms, published as numbered revisions that never change.               *)
(* domains/catalog/publication.py and mapping_evidence.py, fed by          *)
(* read_selected_offer of integrations/lbx.  Only the operator that the    *)
(* tests keep (tests/support/v1_mapping_operator.py) still publishes that  *)
(* way, but its revisions share table, numbers and lock with the product   *)
(* links of today.                                                         *)
(*                                                                         *)
(* One scope: an account and an offer.  An operator's command reads the    *)
(* offer twice, has an approval for exactly what it read, and appends a    *)
(* revision in one transaction under the scope's advisory lock; COMMIT may *)
(* lose its acknowledgement.  All evidence is of one mode, which the       *)
(* environment allows.                                                     *)
(***************************************************************************)
EXTENDS Catalog

CONSTANTS
    Publishers,     \* commands of operators
    Free,           \* nobody has the lock of the scope
    Policies,       \* bound: the configured evidence a command may come with
    Technicals,     \* bound: the product, metric and allowance of a proposal
    Approvals       \* bound: the three approvals a file may name

\* An approval is known by reference and revision; content is its hash.
ApprovalReference == [pin : Nat, content : Nat]
ApprovalRevisions == [technical : ApprovalReference, commercial : ApprovalReference,
                      legal : ApprovalReference]

\* What the reads cannot prove: of which days, and whether every fact is there
\* (currency, account, completeness of lists...) and is one that is sold.
Policy == [from : Nat, until : Nat, facts : Flags]

Never == MaxToday + 1

ASSUME MappingAssumption ==
    /\ Free \notin Publishers
    /\ Policies # {} /\ Policies \subseteq Policy /\ Approvals \subseteq ApprovalRevisions

VARIABLES
    revisions,  \* commercial_mapping_revisions of the scope
    holder,     \* the scope's advisory lock
    unsettled,  \* rows whose COMMIT PostgreSQL may yet apply or not
    command     \* the commands

mappingLocal == <<revisions, holder, unsettled, command>>
mappingVars  == <<catalogVars, mappingLocal>>

-----------------------------------------------------------------------------
(* The selected offer *)

Terms == [tariff : Nat, period : Nat, service : Nat, price : PriceRecord, until : Int, policy : Policy]

\* The start of the next price: to it the price is limited, exclusively.
LaterStarts(prices, price) == {p.start : p \in {q \in prices : q.start > price.start}} \cup {Never}
EndsOf(prices, price) == {d \in LaterStarts(prices, price) : \A e \in LaterStarts(prices, price) : d <= e}

\* _validate_configuration
Configured(policy, day) ==
    policy.facts # "unclear" /\ policy.from <= day /\ day < policy.until

\* The one row inside the service must be the applicable one of the list.
InlineAgrees(inline, prices, day) ==
    /\ Cardinality(inline) = 1 /\ IsPriced(prices, day)
    /\ \A p \in inline : /\ p.amount = PriceOf(prices, day).amount
                         /\ p.start = PriceOf(prices, day).start

TermsOf(s, policy, day) ==
    LET price == PriceOf(s.prices, day) IN
    {[tariff |-> s.tariff.terms, period |-> s.period.terms, service |-> s.service.terms,
      price |-> price, until |-> end, policy |-> policy] : end \in EndsOf(s.prices, price)}

\* normalize_selected_offer: the terms, unless something is missing or not sold.
Selected(s, inline, policy, day) ==
    IF /\ Configured(policy, day)
       /\ "unclear" \notin {s.tariff.flags, s.period.flags, s.service.flags}
       /\ InlineAgrees(inline, s.prices, day) /\ DiscountsKnown(s.service)
       /\ Sellable(s.tariff, s.period, s.service) /\ policy.facts = "sold"
    THEN TermsOf(s, policy, day)
    ELSE {}

\* The exclusive end of what the evidence proves, a midnight of the account.
LeaseEnds(terms, day) ==
    CHOOSE d \in {day + 1, terms.until, terms.policy.until} :
        d <= day + 1 /\ d <= terms.until /\ d <= terms.policy.until

-----------------------------------------------------------------------------
(* State *)

\* MappingDocument, as far as material_fingerprint covers it.
Document == [terms : Terms, technical : Technicals, approvals : ApprovalRevisions]

Places  == {"idle", "first", "second", "evaluate", "publish", "locked", "append", "commit", "recover", "ended"}
Holding == {"locked", "append", "commit"}
Known   == {"existing", "inserted", "recovered"}
Reports == {"none", "refused", "uncertain"} \cup Known

\* day: effective_on; read: the offer of the first read; document: set of one
\* once evaluated; lease: evidence_valid_until; number: the revision attempted
\* or reported; published: published_at.
Command == [pc : Places, day : Nat, policy : Policies, read : SUBSET Terms, document : SUBSET Document,
            lease : Nat, number : Nat, published : Nat, result : Reports]

\* document is {} in the revisions of product links; by: the command.
Row == [number : Nat, document : SUBSET Document, by : Publishers \cup {Free}, published : Nat]

NewCommand == [pc |-> "idle", day |-> 0, policy |-> CHOOSE policy \in Policies : TRUE,
               read |-> {}, document |-> {}, lease |-> 0, number |-> 0, published |-> 0,
               result |-> "none"]

MappingTypeOK ==
    /\ revisions \in SUBSET Row
    /\ holder \in Publishers \cup {Free}
    /\ unsettled \in SUBSET Row
    /\ command \in [Publishers -> Command]

\* The first revision may be there since long ago, by a command of then.
Earlier ==
    {{[number |-> 1, by |-> Free, published |-> 0, document |->
        {[terms |-> terms, technical |-> technical, approvals |-> approvals]}]} :
            technical \in Technicals, approvals \in Approvals,
            terms \in UNION {Selected(seller, seller.prices, policy, 0) : policy \in Policies}}

MappingInit ==
    /\ CatalogInit
    /\ revisions \in {{}} \cup Earlier
    /\ holder = Free /\ unsettled = {}
    /\ command = [p \in Publishers |-> NewCommand]

-----------------------------------------------------------------------------
(* Reading and evaluating *)

Turns(p, c) == command' = [command EXCEPT ![p] = c]

\* What a command reports: of which document it is the revision, if it knows.
Reported(c, result) ==
    [NewCommand EXCEPT !.pc = "ended", !.result = result,
        !.number = IF result \in Known THEN c.number ELSE 0,
        !.document = IF result \in Known THEN c.document ELSE {}]

Outside == UNCHANGED <<revisions, holder, unsettled>>

BeginCommand(p) ==
    /\ command[p].pc = "idle"
    /\ \E policy \in Policies :
        Turns(p, [command[p] EXCEPT !.pc = "first", !.day = today, !.policy = policy])
    /\ Outside

\* One set of reads.  The service comes with one of its prices, or with all.
Sets(p) ==
    {Selected(seller, inline, command[p].policy, command[p].day) :
        inline \in {seller.prices} \cup {{q} : q \in seller.prices}}

\* The second set must amount to the digest of the first.
ReadOffer(p) ==
    LET c == command[p] IN
    /\ c.pc \in {"first", "second"}
    /\ \E offers \in Sets(p) :
        Turns(p, IF offers = {} \/ (c.pc = "second" /\ offers # c.read) THEN Reported(c, "refused")
                 ELSE [c EXCEPT !.pc = IF @ = "first" THEN "second" ELSE "evaluate", !.read = offers])
    /\ Outside

\* evaluate_mapping, on the day that was approved; the approval is of exactly
\* these terms, or the command is refused (Refuse).
Evaluate(p) ==
    LET c == command[p] IN
    /\ c.pc = "evaluate" /\ today = c.day
    /\ \E technical \in Technicals, approvals \in Approvals, terms \in c.read :
        Turns(p, [c EXCEPT !.pc = "publish", !.read = {}, !.lease = LeaseEnds(terms, c.day),
                           !.document = {[terms |-> terms, technical |-> technical, approvals |-> approvals]}])
    /\ Outside

-----------------------------------------------------------------------------
(* Publishing: publish_mapping *)

\* check_publication_window, but for the deadline (Refuse).
InWindow(c) == today < c.lease

Lock(p) ==
    /\ command[p].pc = "publish" /\ InWindow(command[p])
    /\ holder = Free /\ holder' = p
    /\ Turns(p, [command[p] EXCEPT !.pc = "locked"])
    /\ UNCHANGED <<revisions, unsettled>>

LatestNumber == CHOOSE n \in {r.number : r \in revisions} \cup {0} : \A r \in revisions : r.number <= n
Latest == {r \in revisions : r.number = LatestNumber}

\* validate_stored_mapping: a row of the other schema stops the command.
FirstVersion(r) == r.document # {}

Roles == {"technical", "commercial", "legal"}

\* MaterialCommercialTerms: neither the source's references nor the days of the policy.
Meaning(terms) == <<terms.tariff, terms.period, terms.service, terms.price.start, terms.price.amount,
                    terms.until, terms.policy.facts>>

\* require_replacement_approval.
Replaces(doc, old) ==
    /\ \A role \in Roles :
          old.approvals[role].pin = doc.approvals[role].pin => old.approvals[role] = doc.approvals[role]
    /\ old.technical # doc.technical => old.approvals.technical # doc.approvals.technical
    /\ old.terms # doc.terms => old.approvals.commercial # doc.approvals.commercial
    /\ Meaning(old.terms) # Meaning(doc.terms) => old.approvals.legal # doc.approvals.legal

\* Mutation: only the latest revision is asked about its approvals.
Approved_LatestOnly(doc) == \A r \in Latest : \A old \in r.document : Replaces(doc, old)

Approved(doc) == \A r \in revisions : FirstVersion(r) /\ \A old \in r.document : Replaces(doc, old)

\* Equality comes before the comparison of numbers: a repeated command is told
\* of the revision it made.  The operator has seen the latest number (or Refuse).
Decide(p) ==
    LET c == command[p] IN
    /\ c.pc = "locked" /\ InWindow(c)
    /\ \A r \in Latest : FirstVersion(r)
    /\ \/ /\ \E r \in Latest : r.document = c.document
          /\ Turns(p, Reported([c EXCEPT !.number = LatestNumber], "existing"))
          /\ holder' = Free
       \/ /\ \A r \in Latest : r.document # c.document
          /\ \A doc \in c.document : Approved(doc)
          /\ Turns(p, [c EXCEPT !.pc = "append", !.number = LatestNumber + 1])
          /\ UNCHANGED holder
    /\ UNCHANGED <<revisions, unsettled>>

\* Insert and flush; the midnight may have struck since the last check.
AppendRow(p) ==
    /\ command[p].pc = "append"
    /\ Turns(p, [command[p] EXCEPT !.pc = "commit", !.published = today])
    /\ UNCHANGED <<revisions, holder, unsettled>>

RowOf(p) == [number |-> command[p].number, document |-> command[p].document,
             by |-> p, published |-> command[p].published]

Commit(p) ==
    LET c == command[p] IN
    /\ c.pc = "commit" /\ InWindow(c)
    /\ \/ /\ revisions' = revisions \cup {RowOf(p)} /\ holder' = Free
          /\ Turns(p, Reported(c, "inserted"))
          /\ UNCHANGED unsettled
       \/ /\ unsettled' = unsettled \cup {RowOf(p)}
          /\ Turns(p, [c EXCEPT !.pc = "recover"])
          /\ UNCHANGED <<revisions, holder>>

\* PostgreSQL ends a transaction whose client is gone, either way.
Settle ==
    /\ \E r \in unsettled :
        /\ unsettled' = unsettled \ {r}
        /\ revisions' \in {revisions, revisions \cup {r}}
    /\ holder' = Free
    /\ UNCHANGED command

\* Mutation: any row under the number is taken for the command's own.
Recovers_ByNumber(c) == \E r \in revisions : r.number = c.number

\* query_mapping by the attempted number.
Recovers(c) == \E r \in revisions : r.number = c.number /\ r.document = c.document

Recover(p) ==
    /\ command[p].pc = "recover"
    /\ \/ Recovers(command[p]) /\ Turns(p, Reported(command[p], "recovered"))
       \/ Turns(p, Reported(command[p], "uncertain"))
    /\ Outside

\* Everything that ends a command before its COMMIT: the approval is not of
\* these terms, the product is not enabled, the day or the window is over, a
\* wait for the lock or the database fails, the number is not the expected one.
Refuse(p) ==
    /\ command[p].pc \notin {"idle", "recover", "ended"}
    /\ Turns(p, Reported(command[p], "refused"))
    /\ holder' = IF holder = p THEN Free ELSE holder
    /\ UNCHANGED <<revisions, unsettled>>

\* publish_product_link under the same lock: its revisions are of another schema.
PublishLink ==
    /\ holder = Free
    /\ revisions' = revisions \cup
          {[number |-> LatestNumber + 1, document |-> {}, by |-> Free, published |-> today]}
    /\ UNCHANGED <<holder, unsettled, command>>

-----------------------------------------------------------------------------
PublisherNext(p) ==
    BeginCommand(p) \/ ReadOffer(p) \/ Evaluate(p) \/ Lock(p) \/ Decide(p)
    \/ AppendRow(p) \/ Commit(p) \/ Recover(p) \/ Refuse(p)

PublicationStep == (\E p \in Publishers : PublisherNext(p)) \/ Settle \/ PublishLink

MappingNext ==
    \/ PublicationStep /\ UNCHANGED catalogVars
    \/ CatalogNext /\ UNCHANGED mappingLocal

MappingSpec == MappingInit /\ [][MappingNext]_mappingVars

-----------------------------------------------------------------------------
(* Properties *)

\* No two revisions have one number, and none was published at a moment when
\* its price or its policy did not apply, however long the command waited for
\* the lock of the scope (check_publication_window).
PublishedInForce ==
    \A r \in revisions :
        /\ \A s \in revisions : r.number = s.number => r = s
        /\ \A doc \in r.document :
              /\ doc.terms.price.start <= r.published /\ r.published < doc.terms.until
              /\ Configured(doc.terms.policy, r.published)

\* An approval named by two revisions, far apart as they may be, is the same
\* document, and none stands for terms or a binding it was not given for.
ApprovalsPin ==
    \A r, s \in revisions : r.number < s.number =>
        \A old \in r.document, doc \in s.document : Replaces(doc, old)

\* Nobody has to guess what a command did: what it reports is there under its
\* number, and a command that is refused has published nothing and never will,
\* however its COMMIT ended.
ReportsAreTrue ==
    \A p \in Publishers : LET c == command[p] IN
        /\ c.result \in Known =>
              \E r \in revisions : r.number = c.number /\ r.document = c.document
        /\ c.result \in {"refused", "existing"} => \A r \in revisions \cup unsettled : r.by # p

RevisionsAreSound == PublishedInForce /\ ApprovalsPin
==================================================================================
