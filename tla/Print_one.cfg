CONSTANTS
    Dispatches = {d1}
    NoDispatch = nodispatch
    Main = main
    Tasks = {t1}
    MaxAttempts = 4
    MaxLate = 2
SPECIFICATION FairSpec
INVARIANT CloudStateIsTrue
PROPERTY AttemptResultIsFinal ReceivedIsRecovered
