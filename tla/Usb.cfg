SPECIFICATION FairSpec
CONSTANTS
  Threads = {a, b, c}
  a = a
  b = b
  c = c
  Starters = {a, b}
  Stoppers = {b, c}
  CallbackStops = TRUE
  DeviceFails = TRUE
  None = None
  MaxRetains = 3
 
INVARIANT ReferencesCounted
PROPERTY StopEndsRead
\* The client may do nothing more, and the object may be gone.
CHECK_DEADLOCK FALSE
