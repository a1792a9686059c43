SPECIFICATION FairSpec
CONSTANTS
  BufNum = 3
  Cancellers = {c1}
  c1 = c1
  CallbackCancels = FALSE
  Setting = TRUE
  Faults <- BadResubmits
INVARIANT ReadyAgain
PROPERTY ImplementsApi
\* The program may stop: a closed device, or a stream nobody cancels.
CHECK_DEADLOCK FALSE
