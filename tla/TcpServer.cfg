SPECIFICATION FairSpec
CONSTANTS
  llbuf_num = 1
  MaxSessions = 2
  MaxBlocks = 5
  MaxSignals = 1
  DeviceFails = TRUE
INVARIANT InOrder
INVARIANT NothingLost
INVARIANT QueueBound
INVARIANT SessionsApart
PROPERTY CancelledSessionEnds
\* The process may end, or wait for ever for a client.
CHECK_DEADLOCK FALSE
