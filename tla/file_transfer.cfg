\* A file of no or two chunks, a sender that may have to start again, a channel of two.
SPECIFICATION FileSpec
CONSTANTS
    Cap = 2
    MaxFrames = 5
    Totals = {0, 2}
    MaxAttempts = 2
CHECK_DEADLOCK FALSE
INVARIANTS
    FileInvariant
    LossNeedsLag
    ReceivedMeansWhole
    WarningNeedsACause
    EndIsNoticed
PROPERTIES
    KeepsPromise
