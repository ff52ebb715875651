\* A window has opened; one of the packets of six bytes is lost.
SPECIFICATION ObservedSpec
CONSTANTS
  client = client
  server = server
  Addr <- Both
  DefaultAddr = server
  Radix = 8
  SeqMod = 64
  BufferCapacity = 4
  MAX_RETRANSMIT_COUNT = 3
  INITIAL_SSTHRESH = 8
  auto_close_on_eof = TRUE
  ConnectStates <- Closed
  Connectors <- Client
  Closers <- None
  Readers <- Both
  ISS <- IssApart
  InitialSendSeq = {0}
  RecvSizes = {}
  ChunkSizes = {1}
  MaxBytes <- Bytes60
  MaxOpens = 1
  MaxLoss = 1
  MaxCorrupt = 0
  MaxDuplicate = 0
  MaxReorder = 0
  MaxEarly = 0
PROPERTIES FastRetransmits
CHECK_DEADLOCK FALSE
