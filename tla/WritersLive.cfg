SPECIFICATION StallSpec
CONSTANTS
  ChunkStreams = {c1, c2}
  Users = {u1, u2}
  Background = {}
  Closer = Closer
  None = None
  QueueSize = 2
  MaxChunkStreams = 2
  MaxChunks = 2
  MaxWrites = 1
  EncodeErrors = TRUE
  NetFails = TRUE
VIEW View
PROPERTIES CloseReturns WriteReturns SchedStops WritersFinish
CHECK_DEADLOCK FALSE
