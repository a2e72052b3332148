CONSTANTS
    Dispatches = {d1, d2}
    NoDispatch = nodispatch
    Main = main
    Tasks = {t1, t2}
    MaxAttempts = 3
    MaxLate = 0
SPECIFICATION Spec
INVARIANT SubmittedAtMostOnce
SYMMETRY Symmetry
