SPECIFICATION DeliverySpec
CONSTANTS
  ChunkStreams = {c1, c2}
  Users = {u1, u2}
  Background = {}
  Closer = Closer
  None = None
  QueueSize = 2
  MaxChunkStreams = 2
  MaxChunks = 1
  MaxWrites = 1
  EncodeErrors = FALSE
  NetFails = FALSE
PROPERTIES ImplementsPipe
CHECK_DEADLOCK FALSE
