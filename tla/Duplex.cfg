\* Both sides write through one-byte buffers and read; the client may close, also
\* in SYN_SENT, and connect again, after that or without, while datagrams of its
\* first attempt are on their way.
SPECIFICATION Spec
CONSTANTS
  client = client
  server = server
  Addr <- Both
  DefaultAddr = server
  Radix = 8
  SeqMod = 64
  BufferCapacity = 1
  MAX_RETRANSMIT_COUNT = 2
  INITIAL_SSTHRESH = 8
  auto_close_on_eof = TRUE
  ConnectStates <- UntilAnswered
  Connectors <- Client
  Closers <- Client
  Readers <- Both
  ISS <- IssTwice
  InitialSendSeq = {0}
  RecvSizes = {1}
  ChunkSizes = {1, 2}
  MaxBytes <- Bytes31
  MaxOpens = 2
  MaxLoss = 0
  MaxCorrupt = 0
  MaxDuplicate = 0
  MaxReorder = 0
  MaxEarly = 0
INVARIANTS TypeOK StreamPrefix NoLostWakeup InflightIsBuffered ClosedIsQuiet
PROPERTIES StreamSpec
CHECK_DEADLOCK FALSE
