SPECIFICATION Spec
CONSTANTS
    w1 = w1
    w2 = w2
    i1 = i1
    i2 = i2
    o1 = o1
    l1 = l1
    n1 = n1
    n2 = n2
    t1 = t1
    b1 = b1
    ana = ana
    ben = ben
    k1 = k1
    k2 = k2
    v1 = v1
    v2 = v2
    Cells <- TwoWarehouses
    Default <- MainCell
    Orders = {o1}
    Currencies = {"MXN", "USD"}
    MaxMoves = 5
    MaxQuantity = 2
    Losses = {l1}
    Counts = {n1}
    Transfers = {t1}
    Batches = {b1}
    Staff = {ana, ben}
    NoOne = NoOne
    MaxReceipts = 2
    Clerks = {k1, k2}
    MaxOrdered = 2
    MaxTime = 2
    MaxRevisions = 2
    Values = {v1, v2}
SYMMETRY People
CHECK_DEADLOCK FALSE
INVARIANTS  DocumentsArePosted VersionsDivideTime
PROPERTIES StepsKeepEvidence
