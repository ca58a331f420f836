--------------------------------- MODULE Catalog ---------------------------------
(***************************************************************************)
(* The public catalog: catalog_preview of composition/catalog.py with the  *)
(* manifest it fetches from the kernel, the product's link, and the offer  *)
(* it reads twice from the billing system, record by record, while the     *)
(* seller edits those records and days pass.  A preview keeps nothing and  *)
(* shares nothing with another one.                                        *)
(***************************************************************************)
EXTENDS OfferTerms

CONSTANTS
    Previews,       \* requests for a product or for the list
    Retries,        \* kernel_max_retries
    Profiles,       \* bound: the flags and discounts the seller's edits give a record
    MaxEdits,       \* bound: edits of the seller
    MaxToday        \* bound: the days that pass

ASSUME CatalogAssumption ==
    /\ Retries \in Nat /\ MaxEdits \in Nat /\ MaxToday \in Nat
    /\ Profiles \subseteq SourceRecord

VARIABLES
    manifest,   \* the kernel: what its next answer says of the product
    seller,     \* LBX: the records of the linked offer, and how often they were edited
    today,      \* the billing calendar, current_billing_date
    preview,    \* the requests
    stood       \* history: what the records amounted to since a preview began to read them

catalogVars == <<manifest, seller, today, preview, stood>>

\* Malformed: also with a digest that does not fit, or a metric of no product.
Manifests == {"enabled", "disabled", "malformed", "otherScope"}
KernelStatuses  == {"ok", "401", "403", "5xx", "other", "timeout"}

Results == {"none", Current, Unsupported, Incomplete, "listed", "notFound", "UNMAPPED", "unavailable"}

Blank == [flags |-> "unclear", terms |-> 0, inline |-> "absent", own |-> "absent"]

\* fetches: requests to the kernel so far; day: effective_on; tariff, period,
\* service, inline: the records of the read set under way; first: the offer the
\* first set amounted to, if it did; shown: what the answer offers.
NewPreview == [pc |-> "idle", fetches |-> 0, day |-> 0,
               tariff |-> Blank, period |-> Blank, service |-> Blank, inline |-> {},
               first |-> {}, result |-> "none", shown |-> {}]

\* The first records: no discounts, and a price since the first day.
Sold == [flags |-> "sold", terms |-> 0, inline |-> "empty", own |-> "absent"]

CatalogInit ==
    /\ manifest = "enabled"
    /\ seller = [tariff |-> Sold, period |-> Sold, service |-> Sold, edits |-> 0,
                 prices |-> {[id |-> 0, start |-> 0, amount |-> 0]}]
    /\ today = 0
    /\ preview = [p \in Previews |-> NewPreview]
    /\ stood = [p \in Previews |-> {}]

-----------------------------------------------------------------------------
(* The request *)

CatalogTo(p, t) == preview' = [preview EXCEPT ![p] = t]
EndsAs(p, r)    == CatalogTo(p, [NewPreview EXCEPT !.pc = "ended", !.result = r])

OfferReads == {"tariff", "periods", "services", "prices"}
Reading == {p \in Previews : preview[p].pc \in OfferReads}

\* What the records amount to at this moment.
Amounts(s, d) == Normalized(s.tariff, s.period, s.service, s.prices, s.prices, d).offers

Enquire(p) ==
    /\ preview[p].pc = "idle"
    /\ CatalogTo(p, [preview[p] EXCEPT !.pc = "manifest"])
    /\ UNCHANGED <<manifest, seller, today, stood>>

\* Only failures of the transport and of the server are worth another attempt.
Retried == {"5xx", "timeout"}

\* _read_once with _decode_manifest: what one request to the kernel yields.
ManifestOf(status) ==
    IF status # "ok" THEN (IF status \in Retried THEN "retry" ELSE "refused")
    ELSE IF manifest \in {"malformed", "otherScope"} THEN "refused"
    ELSE "manifest"

FetchManifest(p) ==
    /\ preview[p].pc = "manifest"
    /\ \E status \in KernelStatuses :
        \/ /\ ManifestOf(status) = "retry" /\ preview[p].fetches < Retries
           /\ CatalogTo(p, [preview[p] EXCEPT !.fetches = @ + 1])
        \/ /\ ManifestOf(status) \in {"retry", "refused"}
           /\ ManifestOf(status) = "retry" => preview[p].fetches = Retries
           /\ EndsAs(p, "unavailable")
        \/ /\ ManifestOf(status) = "manifest"
           /\ \/ EndsAs(p, "listed")
              \/ manifest = "disabled" /\ EndsAs(p, "notFound")
              \/ manifest = "enabled" /\ CatalogTo(p, [NewPreview EXCEPT !.pc = "link"])
    /\ UNCHANGED <<manifest, seller, today, stood>>

\* query_product_link, on a connection that may not be configured.  The day of
\* the offer is that on which its first read begins.
ReadProductLink(p) ==
    /\ preview[p].pc = "link"
    /\ \/ \E r \in {Incomplete, "UNMAPPED", "unavailable"} : EndsAs(p, r) /\ UNCHANGED stood
       \/ /\ CatalogTo(p, [preview[p] EXCEPT !.pc = "tariff", !.day = today])
          /\ stood' = [stood EXCEPT ![p] = Amounts(seller, today)]
    /\ UNCHANGED <<manifest, seller, today>>

\* Mutation: only the price is compared.
Unchanged_Price(first, second) == {o.price : o \in first} = {o.price : o \in second}

\* The two fingerprints.
Unchanged(first, second) == first = second

Gets(p, at, t) ==
    /\ preview[p].pc = at
    /\ CatalogTo(p, t)
    /\ UNCHANGED <<manifest, seller, today, stood>>

GetTariff(p) ==
    Gets(p, "tariff", [preview[p] EXCEPT !.pc = "periods", !.tariff = seller.tariff])

ListPeriods(p) ==
    Gets(p, "periods", [preview[p] EXCEPT !.pc = "services", !.period = seller.period])

\* The record of the service has the prices inside.
ListServices(p) ==
    Gets(p, "services", [preview[p] EXCEPT !.pc = "prices", !.service = seller.service, !.inline = seller.prices])

\* The last read of a set: the set is judged, and compared with the first one.
ListPrices(p) ==
    LET t == preview[p]
        set == Normalized(t.tariff, t.period, t.service, t.inline, seller.prices, t.day)
        ended == [NewPreview EXCEPT !.pc = "ended"]
    IN
    \/ /\ set.as # Current
       /\ Gets(p, "prices", [ended EXCEPT !.result = set.as])
    \/ /\ set.as = Current /\ t.first = {}
       /\ Gets(p, "prices", [t EXCEPT !.pc = "tariff", !.first = set.offers])
    \/ /\ set.as = Current /\ t.first # {} /\ ~Unchanged(t.first, set.offers)
       /\ Gets(p, "prices", [ended EXCEPT !.result = "unavailable"])
    \/ /\ set.as = Current /\ t.first # {} /\ Unchanged(t.first, set.offers)
       /\ Gets(p, "prices", [ended EXCEPT !.result = Current, !.shown = set.offers])

\* A read of LBX fails, or the budget of the preview is over: 503, nothing shown.
PreviewFails(p) ==
    /\ preview[p].pc \in {"manifest"} \cup OfferReads
    /\ EndsAs(p, "unavailable")
    /\ UNCHANGED <<manifest, seller, today, stood>>

-----------------------------------------------------------------------------
(* Kernel, seller and calendar *)

Release ==
    /\ \E m \in Manifests : m # manifest /\ manifest' = m
    /\ UNCHANGED <<seller, today, preview, stood>>

\* Every edit brings terms or prices that were not there before.  (Two reads
\* cannot tell an earlier record that was restored in between.)
Edited(s) ==
    LET n == s.edits + 1
        e == [s EXCEPT !.edits = n]
        Fresh == {[f EXCEPT !.terms = n] : f \in Profiles}
    IN  {[e EXCEPT !.tariff = r] : r \in Fresh} \cup {[e EXCEPT !.period = r] : r \in Fresh}
        \cup {[e EXCEPT !.service = r] : r \in Fresh}
        \cup {[e EXCEPT !.prices = @ \cup {[id |-> n, start |-> d, amount |-> n]}] : d \in 0..MaxToday}
        \cup {[e EXCEPT !.prices = (@ \ {r}) \cup {[r EXCEPT !.amount = n]}] : r \in s.prices}
        \cup {[e EXCEPT !.prices = @ \ {r}] : r \in s.prices}

EditOffer ==
    /\ seller.edits < MaxEdits
    /\ \E s \in Edited(seller) :
        /\ seller' = s
        /\ stood' = [p \in Previews |->
                        IF p \in Reading THEN stood[p] \cup Amounts(s, preview[p].day) ELSE stood[p]]
    /\ UNCHANGED <<manifest, today, preview>>

Midnight ==
    /\ today < MaxToday
    /\ today' = today + 1
    /\ UNCHANGED <<manifest, seller, preview, stood>>

-----------------------------------------------------------------------------
PreviewNext(p) ==
    Enquire(p) \/ FetchManifest(p) \/ ReadProductLink(p)
    \/ GetTariff(p) \/ ListPeriods(p) \/ ListServices(p) \/ ListPrices(p) \/ PreviewFails(p)

CatalogNext == (\E p \in Previews : PreviewNext(p)) \/ Release \/ EditOffer \/ Midnight

CatalogSpec == CatalogInit /\ [][CatalogNext]_catalogVars

-----------------------------------------------------------------------------
(* Properties *)

\* An offer that is shown was the seller's, with all its terms together, at some
\* moment of the request: eight reads of four records that are edited meanwhile
\* never mix records that did not stand side by side (read_current_offer).
OfferStood ==
    \A p \in Previews : preview[p].shown \subseteq stood[p]
=================================================================================
