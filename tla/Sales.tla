-------------------------------- MODULE Sales --------------------------------
(* What a location sells and bills: prices and checkout, the structure of  *)
(* its products, and fiscal issuance, beside each other.                   *)
EXTENDS Checkout, ProductStructure, FiscalIssuance

salesVars == <<checkoutVars, structureVars, fiscalVars>>

SalesInit == CheckoutInit /\ StructureInit /\ FiscalInit

SalesNext ==
    \/ CheckoutNext /\ UNCHANGED <<structureVars, fiscalVars>>
    \/ StructureNext /\ UNCHANGED <<checkoutVars, fiscalVars>>
    \/ FiscalNext /\ UNCHANGED <<checkoutVars, structureVars>>

SalesSpec == SalesInit /\ [][SalesNext]_salesVars
-----------------------------------------------------------------------------
\* What is sold is what was offered: PurchasesAreSound of the amounts, StructureIsFlat
\* and SoldAsComposed of the products.
SalesAreSound == PurchasesAreSound /\ StructureIsFlat /\ SoldAsComposed

\* What was decided stands: no step replaces a fiscal outcome or its evidence, and none
\* lets a late projection of the POS replace a price the platform set.
DecidedValuesStand == [][FiscalOutcomeIsFinal /\ PlatformPriceStands]_salesVars
=============================================================================
