\* Two connections of one index, one console, a signal.
SPECIFICATION MCFairSpec
CONSTANTS
    Conns = {c1, c2}
    First = c1
    Browsers = {b1}
    Indices = {1}
CHECK_DEADLOCK FALSE
INVARIANTS
    OutdatedMeansPending
    FinishedIsTrue
PROPERTIES
    ConsoleCatchesUp
    ExitsOnceConsolesClose
