SPECIFICATION Spec
CONSTANTS
  ChunkStreams = {c1, c2, c3}
  Users = {u1, u2, u3}
  Background = {}
  Closer = Closer
  None = None
  QueueSize = 2
  MaxChunkStreams = 2
  MaxChunks = 2
  MaxWrites = 1
  EncodeErrors = FALSE
  NetFails = TRUE
SYMMETRY Symmetry
INVARIANTS
  TypeOK OneHolder WritersKnown NoSelfBlock BusyMeansRunning MutexHeldInSelect NoInterleaving
CHECK_DEADLOCK FALSE
