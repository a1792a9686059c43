SPECIFICATION Spec
CONSTANTS
  BufNum = 2
  Cancellers = {c1}
  c1 = c1
  CallbackCancels = FALSE
  Setting = FALSE
  Faults <- NoFaults
INVARIANT NoFreeInFlight
\* The program may stop: a closed device, or a stream nobody cancels.
CHECK_DEADLOCK FALSE
