SPECIFICATION DeliveryLive
CONSTANTS
  ChunkStreams = {c1, c2}
  Users = {u1}
  Background = {}
  Closer = Closer
  None = None
  QueueSize = 2
  MaxChunkStreams = 2
  MaxChunks = 2
  MaxWrites = 2
  EncodeErrors = FALSE
  NetFails = TRUE
PROPERTIES ImplementsPipe CleanClose AcceptedArrives
CHECK_DEADLOCK FALSE
