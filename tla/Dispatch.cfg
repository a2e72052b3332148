SPECIFICATION FairSpec
CONSTANTS
    w1 = w1
    w2 = w2
    Workers <- TwoWorkers
    MaxAttempts = 3
    StableReplay = FALSE
    RecoverySupported = TRUE
INVARIANTS SingleOwner SubmissionIsTrue
PROPERTIES DecisionsAreFinal ClaimIsReleased
