SPECIFICATION Spec
CONSTANTS
    Media <- FirstOverRead
    TimeMod = 8
    TimeExt = 5
    LengthMod = 8
    Timestamps = {0, 4}
    Lengths = {2}
    TypeIDs = {8}
    StreamIDs = {1}
    ChunkSizes = {1, 2}
    DefaultChunkSize = 1
    QuietSizeChange = TRUE
    WireSize = 2
    None = None
INVARIANTS Readable
