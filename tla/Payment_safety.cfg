SPECIFICATION Spec
CONSTANTS
    Payments = {p1, p2}
    NoPayment = none
    Workers = {w1, w2}
    Configs = {c1}
    NoConfig = cash
    MaxLiability = 2
    MaxAttempts = 2
    ProviderReusesOrders = TRUE
SYMMETRY Symmetry
INVARIANTS
    MoneyAddsUp
    ChargeNotForgottenWithoutRetry
    SettlementsBackedByDistinctOrders
PROPERTIES
    RecordsAreFinal
    LedgerSpec
