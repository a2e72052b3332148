SPECIFICATION FairSpec
CONSTANTS
    Payments = {p1}
    NoPayment = none
    Workers = {w1, w2}
    Configs = {c1}
    NoConfig = cash
    MaxLiability = 1
    MaxAttempts = 4
    ProviderReusesOrders = FALSE
INVARIANTS
    ClaimsAreSound
PROPERTIES
    ClaimIsReleased
