\* A connection of either kind, some data, a network that may go silent.
SPECIFICATION FairSpec
CONSTANTS
    MaxLag = 2
    MaxData = 1
CHECK_DEADLOCK FALSE
INVARIANTS
    StreamsAreWhole
    NoFalseTimeout
    HandshakeIsUndisturbed
PROPERTIES
    SilenceIsNoticed
