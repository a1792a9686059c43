SPECIFICATION Spec
CONSTANTS
  Channels = 2
  ConseqSquelch = 1
INVARIANTS NotTorn ClosedLast
PROPERTIES CancelledStreamEnds ScanGoesOn
CHECK_DEADLOCK FALSE
