\* Two remotes, one of which the application may also connect to, twice: first, on an
\* open session and in TIME_WAIT.
SPECIFICATION FairSpec
CONSTANTS
  local = local
  alice = alice
  bob = bob
  elsewhere = elsewhere
  Addr <- All
  Local <- local
  Remote <- Remotes
  Servers <- Bob
  DefaultAddr = elsewhere
  Iss = 5
  MaxSessions = 2
  MaxOpens = 2
  Radix = 4
  SeqMod = 16
  BufferCapacity = 1
  MAX_RETRANSMIT_COUNT = 1
  INITIAL_SSTHRESH = 8
  auto_close_on_eof = TRUE
  ConnectStates <- Again
INVARIANTS TableIsSound QueueIsSound DanglingHasCause
PROPERTIES LastAckLeavesNoTimer OneSessionPerDatagram ReceivedIsRead
CHECK_DEADLOCK FALSE
