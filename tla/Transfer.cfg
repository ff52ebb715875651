\* Three bytes; one datagram damaged, one repeated, one late, one timer early.
SPECIFICATION Spec
CONSTANTS
  client = client
  server = server
  Addr <- Both
  DefaultAddr = server
  Radix = 8
  SeqMod = 64
  BufferCapacity = 3
  MAX_RETRANSMIT_COUNT = 2
  INITIAL_SSTHRESH = 8
  auto_close_on_eof = TRUE
  ConnectStates <- Closed
  Connectors <- Client
  Closers <- None
  Readers <- Both
  ISS <- IssApart
  InitialSendSeq = {0}
  RecvSizes = {}
  ChunkSizes = {1}
  MaxBytes <- Bytes30
  MaxOpens = 1
  MaxLoss = 0
  MaxCorrupt = 1
  MaxDuplicate = 1
  MaxReorder = 1
  MaxEarly = 1
INVARIANTS StreamPrefix WindowsAgree AckedWasReceived OldestIsTimed FastRetransmitUnreachable
PROPERTIES StreamSpec
CHECK_DEADLOCK FALSE
