\* Three sequence numbers, four handles: an entry can be overwritten twice.
\* The manager is destroyed once, so the system may stop.
SPECIFICATION Spec
CONSTANTS
  h1 = h1
  h2 = h2
  h3 = h3
  h4 = h4
  nil = nil
  NoHandle = nil
  Handle <- Handles
  SeqNum <- SeqNumbers
INVARIANTS MapIsSound ActiveIsMapped MslEndsWithSession
PROPERTIES LostOnlyByRestart TimerSetSpec
CHECK_DEADLOCK FALSE
