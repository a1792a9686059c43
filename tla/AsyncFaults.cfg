SPECIFICATION FairSpec
CONSTANTS
  BufNum = 2
  Cancellers = {c1}
  c1 = c1
  CallbackCancels = TRUE
  Setting = TRUE
  Faults <- ManyFaults
INVARIANT TypeOK
INVARIANT StatusOwner
INVARIANT CloseWaits
INVARIANT FullPipeline
PROPERTY CancelReturns
\* The program may stop: a closed device, or a stream nobody cancels.
CHECK_DEADLOCK FALSE
