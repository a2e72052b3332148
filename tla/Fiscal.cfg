SPECIFICATION MCSpec
CONSTANTS
  Goods = {"taco"}
  Prices <- MCPrices
  Promotions <- MCPromotions
  TaxRules <- MCTaxRules
  Classifications <- MCClassifications
  Buyers = {"ana"}
  Projections = {"r1", "r2"}
  MaxTime = 3
  MaxPriceChanges = 3
  MaxPurchases = 1
  Bills <- MCBills
  CheckIds = {"c1"}
  Parties = {"p", "q"}
  Bindings = {"FINKOK", "KEYED"}
  MaxDocuments = 1
  MaxAttempts = 3
  MaxProfileEdits = 3
  Products = {"meal", "soup", "pie"}
  Groups = {"side"}
  Catalogues <- MCCatalogues
  Activations = {"a1"}
  MaxCatalogEdits = 2
  MaxSold = 1
INVARIANTS IssuedOnceAndBacked AttemptsTellTheState 
PROPERTIES DecidedValuesStand
CHECK_DEADLOCK FALSE
