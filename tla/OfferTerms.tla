------------------------------- MODULE OfferTerms -------------------------------
(***************************************************************************)
(* What the portal makes of the four records that describe an offer in the *)
(* billing system: normalize_current_offer of integrations/lbx and the     *)
(* fingerprint by which two offers are compared.  The single flags of a    *)
(* record are abstracted to what they amount to.                           *)
(***************************************************************************)
EXTENDS Integers, FiniteSets

\* The flags of a record: the supported profile, a known other one
\* (NOT_SELLABLE), or something missing, ambiguous or of unknown meaning.
Flags == {"sold", "unsold", "unclear"}

\* A list of discounts as LBX may send it: no such field, null, empty, rows.
DiscountLists == {"absent", "null", "empty", "some"}

\* terms: what of a record enters the offer (the tariff's period anchor and days
\* to closing; the length of the period; the service's bounds of the quantity).
\* Discounts are the service's: inside its current price, or beside the prices.
SourceRecord == [flags : Flags, terms : Nat, inline : DiscountLists, own : DiscountLists]

\* A price of the selected period: from which day, and how much.
PriceRecord   == [id : Nat, start : Int, amount : Nat]

-----------------------------------------------------------------------------
(* The price of a day: _applicable_price *)

Started(prices, today) == {p \in prices : p.start <= today}

\* Several rows of one start are ambiguous, none is a gap.
Applicable(prices, today) ==
    {p \in Started(prices, today) : \A q \in Started(prices, today) : q.start <= p.start}

IsPriced(prices, today) == Cardinality(Applicable(prices, today)) = 1

PriceOf(prices, today) == CHOOSE p \in Applicable(prices, today) : TRUE

\* The row listed for the service and the one inside the service record must
\* say the same, in particular if something was edited between their reads.
PricesAgree(inline, prices, today) ==
    /\ IsPriced(inline, today) /\ IsPriced(prices, today)
    /\ PriceOf(inline, today).amount = PriceOf(prices, today).amount
    /\ PriceOf(inline, today).start = PriceOf(prices, today).start

-----------------------------------------------------------------------------
(* Discounts come inside the price, beside the service, or both: *)
(* selected_discounts                                            *)

DiscountsKnown(service) ==
    /\ "null" \notin {service.inline, service.own}
    /\ {service.inline, service.own} # {"absent"}
    /\ "absent" \in {service.inline, service.own} \/ service.inline = service.own

HasDiscounts(service) == "some" \in {service.inline, service.own}

-----------------------------------------------------------------------------
(* normalize_current_offer: facts must be complete before they are judged *)

Complete(tariff, period, service, inline, prices, today) ==
    /\ "unclear" \notin {tariff.flags, period.flags, service.flags}
    /\ PricesAgree(inline, prices, today)
    /\ DiscountsKnown(service)

Sellable(tariff, period, service) ==
    /\ {tariff.flags, period.flags, service.flags} = {"sold"}
    /\ ~HasDiscounts(service)

\* CurrentOffer, as far as current_offer_fingerprint compares it: the next
\* scheduled price is not part of it.
Offer(tariff, period, service, price) ==
    [tariff |-> tariff.terms, period |-> period.terms, service |-> service.terms, price |-> price]

\* What a product is shown as; with an offer only if it is current.
Current     == "CURRENT_OFFER"
Unsupported == "OFFER_UNSUPPORTED"
Incomplete  == "OFFER_INCOMPLETE"

Normalized(tariff, period, service, inline, prices, today) ==
    IF ~Complete(tariff, period, service, inline, prices, today)
    THEN [as |-> Incomplete, offers |-> {}]
    ELSE IF ~Sellable(tariff, period, service)
    THEN [as |-> Unsupported, offers |-> {}]
    ELSE [as |-> Current, offers |-> {Offer(tariff, period, service, PriceOf(prices, today))}]
=================================================================================
