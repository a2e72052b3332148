SPECIFICATION Spec
CONSTANTS
    Payments = {p1}
    NoPayment = none
    Workers = {w1}
    Configs = {c1}
    NoConfig = cash
    MaxLiability = 1
    MaxAttempts = 3
    ProviderReusesOrders = FALSE
INVARIANTS
    FailedMeansNoCharge
