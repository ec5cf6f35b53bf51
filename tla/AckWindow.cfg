SPECIFICATION LiveSpec
CONSTANTS
    client = client
    server = server
    Ends <- BothEnds
    MediaStreams <- OneStream
    MediaBytes = 2
    ControlBytes = 1
    DefaultWindow = 8
    Window = 6
    Capacity = 2
    CounterMod = 9
    MaxChunks = 2
    MaxMessages = 2
INVARIANTS TypeOK AckInTime
PROPERTIES AcksAdvance Quiesces
CHECK_DEADLOCK FALSE
