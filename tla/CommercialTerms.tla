--------------------------- MODULE CommercialTerms ---------------------------
(***************************************************************************)
(* The arithmetic between a menu price and a stamped invoice, as pure      *)
(* operators: promotions and the payable total (commercial/service.py),    *)
(* the tax decomposition of an included price (tax/service.py), the        *)
(* readiness test of billing (billing/service.py) and the CFDI 4.0 mapper  *)
(* and validator (fiscal/mexico/cfdi40).                                   *)
(*                                                                         *)
(* Money is a whole number of ten-thousandths, the MONEY_UNIT of the code; *)
(* rates and percentages are whole numbers of per cent; quantities are     *)
(* whole.  Scopes are one tenant and organization, one currency.           *)
(***************************************************************************)
EXTENDS Integers, Sequences, FiniteSets, Sums

Whole == 10000

RoundHalfUp(n, d) == (2 * n + d) \div (2 * d)

\* What the lines have under one name, together.
SumOf(lines, name) == Total([i \in DOMAIN lines |-> lines[i][name]], Len(lines))

(***************************************************************************)
(* Promotions.                                                             *)
(***************************************************************************)
Promotion == [id : Nat, priority : Nat, combinable : BOOLEAN, type : {"PERCENTAGE", "FIXED"}, value : Nat,
              from : Nat, to : Nat]

Applicable(ps, at) == {p \in ps : p.from <= at /\ at < p.to}

Before(p, q) == p.priority < q.priority \/ (p.priority = q.priority /\ p.id < q.id)

\* The promotion that is applied next of those left.
NextPromotion(ps) == CHOOSE p \in ps : \A q \in ps : ~Before(q, p)

SelectedPromotions(ps) ==
    IF ps = {} THEN {}
    ELSE IF NextPromotion(ps).combinable THEN {p \in ps : p.combinable}
    ELSE {NextPromotion(ps)}

\* The discount a promotion gives, and whether it fits four decimals: the tax
\* resolver refuses an amount that does not.
Discount(p, remaining) ==
    IF p.type = "FIXED" THEN [amount |-> IF p.value < remaining THEN p.value ELSE remaining, exact |-> TRUE]
    ELSE [amount |-> (remaining * p.value) \div 100, exact |-> (remaining * p.value) % 100 = 0]

Untouched(ps, base) == [left |-> ps, remaining |-> base, exact |-> TRUE]

\* One promotion more, taken from what the earlier ones left of the price.
Discounted(a) ==
    LET p == NextPromotion(a.left)
        d == Discount(p, a.remaining)
    IN [left |-> a.left \ {p}, remaining |-> a.remaining - d.amount, exact |-> a.exact /\ d.exact]

ApplyPromotions(ps, base) ==
    LET selected == SelectedPromotions(ps)
        n == Cardinality(selected)
        applied[i \in 0 .. n] == IF i = 0 THEN Untouched(selected, base) ELSE Discounted(applied[i - 1])
    IN  applied[n]

\* An item is [price, quantity, promotions]; its line is what checkout charges for it.
CheckoutPreviewLine(item, at) ==
    LET base == item.price * item.quantity
        result == ApplyPromotions(Applicable(item.promotions, at), base)
    IN [unit_price |-> item.price, quantity |-> item.quantity, base |-> base, exact |-> result.exact,
        commercial |-> result.remaining]

\* Whole units, a half is rounded down.
RoundPayableTotal(v) == Whole * (v \div Whole) + (IF 2 * (v % Whole) > Whole THEN Whole ELSE 0)

\* The order's lines and the total the diner pays.
ResolveCheckoutPreview(items, at) ==
    LET lines == [i \in DOMAIN items |-> CheckoutPreviewLine(items[i], at)]
        exact == SumOf(lines, "commercial")
    IN [lines |-> lines, pre_round |-> exact, payable |-> RoundPayableTotal(exact)]

(***************************************************************************)
(* Taxes.  A rule is [location, treatment, rate, from, to, effect]; rules  *)
(* of the location come before those of the organization.                  *)
(***************************************************************************)
Everywhere == "everywhere"

TaxRule == [location : STRING, treatment : {"TAXABLE", "ZERO_RATE", "EXEMPT"}, rate : Nat, from : Nat, to : Nat,
            effect : {"TRANSFERRED", "WITHHELD"}]

RateFits(rule) == IF rule.treatment = "TAXABLE" THEN rule.rate > 0 ELSE rule.rate = 0

\* The one rule that applies, as a set; none when two are equally close.
SelectRule(rules, location, at) ==
    LET applicable == {r \in rules : r.from <= at /\ at < r.to}
        here == {r \in applicable : r.location = location}
        general == {r \in applicable : r.location = Everywhere}
        candidates == IF here # {} THEN here ELSE general
    IN IF Cardinality(candidates) = 1 THEN candidates ELSE {}

PreTax(amount, rule) ==
    IF rule.treatment = "TAXABLE" THEN RoundHalfUp(amount * 100, 100 + rule.rate) ELSE amount

\* The frozen fiscal values of a line: unit value and line amount are rounded separately.
Calculate(line, rule) ==
    LET amount == PreTax(line.base, rule)
        base == PreTax(line.commercial, rule)
    IN [quantity |-> line.quantity, commercial |-> line.commercial, unit |-> PreTax(line.unit_price, rule),
        amount |-> amount, discount |-> amount - base, base |-> base, tax |-> line.commercial - base,
        treatment |-> rule.treatment, rate |-> rule.rate]

\* Why an accepted line may have no evidence: then the order is refused.
TaxEvidenceExists(line, rules, location, at) ==
    /\ line.exact
    /\ \E r \in SelectRule(rules, location, at) : r.effect = "TRANSFERRED" /\ RateFits(r)

TaxEvidence(line, rules, location, at) ==
    Calculate(line, CHOOSE r \in SelectRule(rules, location, at) : TRUE)

\* Classifications are [scheme, from, to]: exactly one applies, or there is no evidence.
FiscalProductEvidence(rows, at) ==
    LET applicable == {r \in rows : r.from <= at /\ at < r.to} IN IF Cardinality(applicable) = 1 THEN applicable ELSE {}

(***************************************************************************)
(* Billing: a settled check is ready for an invoice.                       *)
(***************************************************************************)
LineReady(l) ==
    /\ l.amount - l.discount = l.base
    /\ l.base + l.tax = l.commercial
    /\ l.unit >= 0 /\ l.amount >= 0 /\ l.discount >= 0 /\ l.base >= 0 /\ l.tax >= 0
    /\ IF l.treatment = "TAXABLE" THEN l.rate > 0 ELSE l.rate = 0 /\ l.tax = 0

\* bill: [lines, consumption, gratuity, payments], all allocations settled.
Liability(bill) == bill.consumption + bill.gratuity

CfdiReady(bill) ==
    /\ bill.gratuity = 0
    /\ SumOf(bill.lines, "commercial") = bill.consumption
    /\ \A i \in DOMAIN bill.lines : LineReady(bill.lines[i])

(***************************************************************************)
(* CFDI 4.0: what the mapper and the validator accept.                     *)
(***************************************************************************)
PaymentForms == {"CASH", "TRANSFER"}

FormaPago(bill) ==
    \E p \in DOMAIN bill.payments :
        /\ \A q \in DOMAIN bill.payments : bill.payments[q].amount > 0 => q = p
        /\ bill.payments[p].amount = Liability(bill)
        /\ bill.payments[p].method \in PaymentForms

ConceptUnitAgrees(l) == l.amount = l.unit * l.quantity

ConceptTaxAgrees(l) ==
    IF l.treatment = "TAXABLE" THEN l.rate = 16 /\ l.tax = RoundHalfUp(l.base * l.rate, 100) ELSE l.tax = 0

ValidConcept(l) ==
    /\ ConceptUnitAgrees(l)
    /\ l.discount <= l.amount /\ l.base = l.amount - l.discount
    /\ ConceptTaxAgrees(l)

\* SubTotal - Descuento + taxes = Total, with the sums the mapper forms from the concepts.
InvoiceBalances(bill) ==
    SumOf(bill.lines, "amount") - SumOf(bill.lines, "discount") + SumOf(bill.lines, "tax") = Liability(bill)

Stampable(bill) ==
    /\ FormaPago(bill)
    /\ \A i \in DOMAIN bill.lines : ValidConcept(bill.lines[i])
    /\ InvoiceBalances(bill)
=============================================================================
