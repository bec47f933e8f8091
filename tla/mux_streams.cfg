\* Two streams of one session.
SPECIFICATION OneWriterSpec
CONSTANTS
    Streams = {s1, s2}
    NoStream = NoStream
    Sids = 2
    Chunks <- TwoEach
    Closings = {"reset"}
    Ending = FALSE
CHECK_DEADLOCK FALSE
SYMMETRY Symmetry
INVARIANTS
    MapsAreSound
PROPERTIES
    StreamsArePipes
