\* One stream, more data, a session that may end.
SPECIFICATION FairSpec
CONSTANTS
    Streams = {s1}
    NoStream = NoStream
    Sids = 1
    Chunks <- TwoOne
    Closings = {"eof", "reset"}
    Ending = TRUE
CHECK_DEADLOCK FALSE
PROPERTIES
    StreamEndsAtBothEnds
    WrittenArrives
