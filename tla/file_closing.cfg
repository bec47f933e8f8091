\* One connection of the sender, fair goroutines: the receiver's range and its Close end.
SPECIFICATION FileFairSpec
CONSTANTS
    Cap = 2
    MaxFrames = 5
    Totals = {0, 2}
    MaxAttempts = 1
CHECK_DEADLOCK FALSE
PROPERTIES
    CloseReturns
    RangeTerminates
