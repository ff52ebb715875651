\* Both applications call close().
SPECIFICATION FairSpec
CONSTANTS
  client = client
  server = server
  Addr <- Both
  DefaultAddr = server
  Radix = 8
  SeqMod = 64
  BufferCapacity = 3
  MAX_RETRANSMIT_COUNT = 2
  INITIAL_SSTHRESH = 8
  auto_close_on_eof = TRUE
  ConnectStates <- Closed
  Connectors <- Client
  Closers <- Both
  Readers <- Both
  ISS <- IssApart
  InitialSendSeq = {0}
  RecvSizes = {}
  ChunkSizes = {1}
  MaxBytes <- Bytes00
  MaxOpens = 1
  MaxLoss = 0
  MaxCorrupt = 0
  MaxDuplicate = 0
  MaxReorder = 0
  MaxEarly = 0
PROPERTIES TeardownCompletes
CHECK_DEADLOCK FALSE
