------------------------------- MODULE Checkout -------------------------------
(***************************************************************************)
(* Prices, the checkout preview a diner is shown, and the acceptance of    *)
(* the order on those terms (pricing/service.py, commercial/service.py,    *)
(* orders/acceptance.py).                                                  *)
(*                                                                         *)
(* A price belongs to the platform or to the POS.  A projection of a POS   *)
(* price asks the POS, and only then locks and writes the row; several may *)
(* be under way.  Confirmation resolves the terms again from the snapshot  *)
(* its request began with, compares them with the fingerprint of the       *)
(* preview, and reads tax rules and classifications locked, hence current. *)
(***************************************************************************)
EXTENDS CommercialTerms, FiniteSetsExt

CONSTANTS Goods,          \* products of the one location
          Prices,         \* amounts a price may take
          Promotions,     \* promotions of every product
          TaxRules, Classifications,
          Buyers,         \* diners with a draft
          Projections,    \* projections of POS prices in flight
          MaxTime, MaxPriceChanges, MaxPurchases

(* The constraints of the tables: no amount and no rate is negative, no       *)
(* percentage above a hundred (ck_promotions_benefit, tax_rules_rate).        *)
ASSUME CheckoutAssumption ==
    /\ Prices \subseteq Nat /\ Prices # {}
    /\ IsFiniteSet(Promotions) /\ Promotions \subseteq Promotion
    /\ \A p \in Promotions : p.type = "PERCENTAGE" => p.value <= 100
    /\ IsFiniteSet(TaxRules) /\ \A r \in TaxRules : r.rate \in Nat

VARIABLES price,      \* Good -> [amount, source], NoPrice
          posPrice,   \* Good -> the amount the POS charges
          quoted,     \* Projection -> [good, amount] as the POS answered, NoQuote
          cart,       \* Buyer -> [good, quantity]: the items of the draft
          shown,      \* Buyer -> the preview it confirms, NoTerms
          asked,      \* Buyer -> [prices, at]: the snapshot of its confirmation, NoRequest
          purchase,   \* sequence of accepted orders
          now, changes

priceVars == <<price, posPrice, quoted>>
orderVars == <<cart, shown, asked, purchase>>
checkoutVars == <<priceVars, orderVars, now, changes>>

NoPrice == [amount |-> 0, source |-> "NONE"]
NoQuote == [good |-> "none", amount |-> 0]
NoTerms == [payable |-> -1]
NoRequest == [at |-> MaxTime + 1]
Here == "here"

ProductPrice == [amount : Prices, source : {"PLATFORM", "POS"}]

CheckoutInit ==
    /\ price = [g \in Goods |-> NoPrice]
    /\ posPrice \in [Goods -> {Min(Prices)}]
    /\ quoted = [r \in Projections |-> NoQuote]
    /\ cart \in [Buyers -> [good : Goods, quantity : 1 .. 2]]
    /\ shown = [b \in Buyers |-> NoTerms]
    /\ asked = [b \in Buyers |-> NoRequest]
    /\ purchase = <<>>
    /\ now = 0 /\ changes = 0

Changed == changes < MaxPriceChanges /\ changes' = changes + 1

\* provision_price: the platform sets a price that is new or its own.
ProvisionPrice(g, a) ==
    /\ Changed
    /\ price[g].source # "POS"
    /\ price' = [price EXCEPT ![g] = [amount |-> a, source |-> "PLATFORM"]]
    /\ UNCHANGED <<posPrice, quoted, orderVars, now>>

PosChangesPrice(g, a) ==
    /\ Changed
    /\ posPrice' = [posPrice EXCEPT ![g] = a]
    /\ UNCHANGED <<price, quoted, orderVars, now>>

GetPrice(r, g) ==
    /\ quoted[r] = NoQuote
    /\ quoted' = [quoted EXCEPT ![r] = [good |-> g, amount |-> posPrice[g]]]
    /\ UNCHANGED <<price, posPrice, orderVars, now, changes>>

\* Mutant: a projection overwrites any price.
OverwritesAny(g) == TRUE

Overwrites(g) == price[g].source # "PLATFORM"

\* The row is locked after the POS answered: an older answer may be written last.
ResolveExternalPrice(r) ==
    /\ quoted[r] # NoQuote
    /\ LET g == quoted[r].good IN
       price' = IF Overwrites(g) THEN [price EXCEPT ![g] = [amount |-> quoted[r].amount, source |-> "POS"]] ELSE price
    /\ quoted' = [quoted EXCEPT ![r] = NoQuote]
    /\ UNCHANGED <<posPrice, orderVars, now, changes>>

\* The row was inserted by another request between this one's read and its commit:
\* the winner's price is kept.
FindVisiblePriceWinner(r) ==
    /\ quoted[r] # NoQuote /\ price[quoted[r].good] # NoPrice
    /\ quoted' = [quoted EXCEPT ![r] = NoQuote]
    /\ UNCHANGED <<price, posPrice, orderVars, now, changes>>

Item(b, prices) ==
    [price |-> prices[cart[b].good].amount, quantity |-> cart[b].quantity, promotions |-> Promotions]

Terms(b, prices, at) == ResolveCheckoutPreview(<<Item(b, prices)>>, at)

PreviewCheckout(b) ==
    /\ price[cart[b].good] # NoPrice
    /\ asked[b] = NoRequest
    /\ shown' = [shown EXCEPT ![b] = Terms(b, price, now)]
    /\ UNCHANGED <<priceVars, cart, asked, purchase, now, changes>>

\* A changed draft has a new version: the confirmation of an older preview is refused.
SetItemQuantity(b, q) ==
    /\ asked[b] = NoRequest
    /\ q # cart[b].quantity
    /\ cart' = [cart EXCEPT ![b].quantity = q]
    /\ shown' = [shown EXCEPT ![b] = NoTerms]
    /\ UNCHANGED <<priceVars, asked, purchase, now, changes>>

BeginConfirmation(b) ==
    /\ asked[b] = NoRequest /\ shown[b] # NoTerms
    /\ asked' = [asked EXCEPT ![b] = [prices |-> price, at |-> now]]
    /\ UNCHANGED <<priceVars, cart, shown, purchase, now, changes>>

SameTerms(b, terms) == terms = shown[b]

Evidenced(terms) ==
    /\ \A i \in DOMAIN terms.lines : TaxEvidenceExists(terms.lines[i], TaxRules, Here, now)
    /\ FiscalProductEvidence(Classifications, now) # {}

\* Promotions are judged at the time of resolution, taxes at the time of acceptance.
ConfirmOrder(b) ==
    /\ asked[b] # NoRequest
    /\ LET terms == Terms(b, asked[b].prices, now) IN
       IF SameTerms(b, terms) /\ Evidenced(terms) /\ Len(purchase) < MaxPurchases
       THEN /\ purchase' = Append(purchase, [buyer |-> b, terms |-> terms, seen |-> shown[b],
                                   lines |-> [i \in DOMAIN terms.lines |-> TaxEvidence(terms.lines[i], TaxRules, Here, now)]])
            /\ shown' = [shown EXCEPT ![b] = NoTerms]
       ELSE UNCHANGED <<purchase, shown>>
    /\ asked' = [asked EXCEPT ![b] = NoRequest]
    /\ UNCHANGED <<priceVars, cart, now, changes>>

TimePasses ==
    /\ now < MaxTime
    /\ now' = now + 1
    /\ UNCHANGED <<priceVars, orderVars, changes>>

CheckoutNext ==
    \/ \E g \in Goods, a \in Prices : ProvisionPrice(g, a) \/ PosChangesPrice(g, a)
    \/ \E r \in Projections : (\E g \in Goods : GetPrice(r, g)) \/ ResolveExternalPrice(r) \/ FindVisiblePriceWinner(r)
    \/ \E b \in Buyers : PreviewCheckout(b) \/ BeginConfirmation(b) \/ ConfirmOrder(b)
    \/ \E b \in Buyers, q \in 1 .. 2 : SetItemQuantity(b, q)
    \/ TimePasses

(***************************************************************************)
(* Properties.                                                             *)
(***************************************************************************)
\* What an order charges, line by line, is what the diner was shown; its total is
\* the nearest whole unit, a half going to the diner; and the fiscal values frozen
\* with it always pass the arithmetic that billing requires of them.
PurchasesAreSound ==
    \A o \in DOMAIN purchase :
        LET p == purchase[o] IN
        /\ p.terms.lines = p.seen.lines
        /\ 2 * (p.terms.payable - p.terms.pre_round) < Whole
        /\ 2 * (p.terms.pre_round - p.terms.payable) <= Whole
        /\ \A i \in DOMAIN p.lines : p.lines[i].commercial >= 0 /\ LineReady(p.lines[i])

\* (Of a step.)  A price the platform sets is never replaced by a projection of the POS, however
\* long ago that projection began (PriceAuthorityConflictError).
PlatformPriceStands ==
    \A g \in Goods : price[g].source = "PLATFORM" => price'[g].source = "PLATFORM"
=============================================================================
