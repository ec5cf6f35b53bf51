SPECIFICATION Spec
CONSTANTS
    Media <- LastRead
    TimeMod = 8
    TimeExt = 5
    LengthMod = 8
    Timestamps = {0, 1, 2, 4}
    Lengths = {1, 2, 3}
    TypeIDs = {8, 9}
    StreamIDs = {1}
    ChunkSizes = {1, 2}
    DefaultChunkSize = 1
    QuietSizeChange = TRUE
    WireSize = 2
    None = None
INVARIANTS TypeOK Readable HeadersAgree SizesAgree
PROPERTIES CodecImplementsPipe
