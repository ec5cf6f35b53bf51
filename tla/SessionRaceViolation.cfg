SPECIFICATION Spec
CONSTANTS
    WordMod = 16
    ChunkSizeLimit = 6
    MaxChunkSize = 4
    MaxAckWindowSize = 4
    MaxMessageStreams = 3
    Workloads <- MCOneWorkload
    ClientIgnores = FALSE
    ServerIgnores = FALSE
    Threshold = 0
    Rejects = FALSE
    ClientWriteFails = FALSE
    ServerWriteFails = FALSE
    None = None
INVARIANTS TransactionFree
CHECK_DEADLOCK FALSE
