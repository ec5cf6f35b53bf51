SPECIFICATION LiveSpec
CONSTANTS
  ChunkStreams = {c1, c2}
  Users = {u1}
  Background = {}
  Closer = Closer
  None = None
  QueueSize = 1
  MaxChunkStreams = 2
  MaxChunks = 2
  MaxWrites = 2
  EncodeErrors = FALSE
  NetFails = FALSE
VIEW View
PROPERTIES SchedStops
CHECK_DEADLOCK FALSE
