\* One datagram is lost, one repeated; the client closes; the data timers address
\* the server.
SPECIFICATION FairSpec
CONSTANTS
  client = client
  server = server
  Addr <- Both
  DefaultAddr = server
  Radix = 8
  SeqMod = 64
  BufferCapacity = 3
  MAX_RETRANSMIT_COUNT = 3
  INITIAL_SSTHRESH = 8
  auto_close_on_eof = TRUE
  ConnectStates <- Closed
  Connectors <- Client
  Closers <- Client
  Readers <- Both
  ISS <- IssApart
  InitialSendSeq = {0}
  RecvSizes = {}
  ChunkSizes = {2}
  MaxBytes <- Bytes20
  MaxOpens = 1
  MaxLoss = 1
  MaxCorrupt = 0
  MaxDuplicate = 1
  MaxReorder = 0
  MaxEarly = 0
PROPERTIES ReliableDelivery TrafficEnds TimeWaitProtects HandshakeCompletesIfLossless TeardownCompletes
CHECK_DEADLOCK FALSE
