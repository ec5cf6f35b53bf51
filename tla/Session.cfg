SPECIFICATION LiveSpec
CONSTANTS
    WordMod = 16
    ChunkSizeLimit = 6
    MaxChunkSize = 4
    MaxAckWindowSize = 4
    MaxMessageStreams = 3
    Workloads <- MCWorkloads
    ClientIgnores = TRUE
    ServerIgnores = TRUE
    Threshold = 1
    Rejects = TRUE
    ClientWriteFails = TRUE
    ServerWriteFails = TRUE
    None = None
INVARIANTS TypeOK StreamsAgree OwnReply RepliesExpected NoStrayAudio NoStrayCommand
PROPERTIES CallsReturn
CHECK_DEADLOCK FALSE
