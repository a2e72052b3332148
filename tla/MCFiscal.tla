------------------------------ MODULE MCFiscal ------------------------------
(* Checkout, ProductStructure and FiscalIssuance on small instances: they    *)
(* share no variable, so a behaviour follows one of them.                    *)
EXTENDS Sales, TLC

VARIABLE part

MCPromotions == {[id |-> 1, priority |-> 1, combinable |-> TRUE, type |-> "PERCENTAGE", value |-> 15, from |-> 0, to |-> 2],
                 [id |-> 2, priority |-> 1, combinable |-> TRUE, type |-> "FIXED", value |-> 6 * Whole, from |-> 1, to |-> 3],
                 [id |-> 3, priority |-> 0, combinable |-> FALSE, type |-> "PERCENTAGE", value |-> 100, from |-> 2, to |-> 3]}
Iva == [location |-> Everywhere, treatment |-> "TAXABLE", rate |-> 16, from |-> 0, to |-> 9, effect |-> "TRANSFERRED"]
MCTaxRules == {Iva, [Iva EXCEPT !.location = Here, !.treatment = "ZERO_RATE", !.rate = 0, !.from = 2]}
MCClassifications == {[scheme |-> "SAT", from |-> 0, to |-> 2], [scheme |-> "SAT", from |-> 2, to |-> 4]}
MCPrices == {5 * Whole + 1250, 10 * Whole + 5000}

\* A check of one item, paid in one way.
Bill(price0, quantity, method) ==
    LET terms == ResolveCheckoutPreview(<<[price |-> price0, quantity |-> quantity, promotions |-> {}]>>, 0)
        lines == [i \in DOMAIN terms.lines |-> TaxEvidence(terms.lines[i], {Iva}, Here, 0)]
    IN [lines |-> lines, consumption |-> terms.payable, gratuity |-> 0,
        payments |-> <<[method |-> method, amount |-> terms.payable]>>]

MCBills == {Bill(116 * Whole, 2, "CASH"), Bill(116 * Whole, 1, "CARD")}

\* A catalogue to begin with: with a composition just created, or a meal of a soup and
\* one of two sides on sale.
OneOf == [status |-> "ACTIVE", quantity |-> 1]
SetMeal == [EmptyCatalogue EXCEPT !.composition["meal"] = "ACTIVE",
                !.component = <<"meal", "soup">> :> OneOf,
                !.group = "side" :> [owner |-> "meal", min |-> 1, max |-> 1, status |-> "ACTIVE"],
                !.option = (<<"side", "soup">> :> OneOf) @@ (<<"side", "pie">> :> OneOf)]
Begun == [EmptyCatalogue EXCEPT !.composition["meal"] = "INACTIVE"]
MCCatalogues == {Begun, SetMeal}

vars == <<salesVars, part>>

MCInit == /\ SalesInit /\ part \in {"checkout", "structure", "fiscal"}
          /\ part # "structure" => catalog = Begun
          /\ part # "checkout" => \A b \in Buyers : cart[b].quantity = 1
MCNext == /\ \/ part = "checkout" /\ CheckoutNext /\ UNCHANGED <<fiscalVars, structureVars>>
             \/ part = "structure" /\ StructureNext /\ UNCHANGED <<checkoutVars, fiscalVars>>
             \/ part = "fiscal" /\ FiscalNext /\ UNCHANGED <<checkoutVars, structureVars>>
          /\ UNCHANGED part
MCSpec == MCInit /\ [][MCNext]_vars
=============================================================================
