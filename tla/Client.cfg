SPECIFICATION FairSpec
CONSTANTS
  Users = {u1}
  u1 = u1
  Creator = u1
  Values = {v1, v2}
  v1 = v1
  v2 = v2
  Default = v1
  NoValue = NoValue
  Faults = {"timeout", "fail", "fin"}
  Patient = TRUE
  CallbackStops = TRUE
  MaxConns = 6
  MaxStarts = 2
  MaxSets = 1
  MaxMishaps = 1
INVARIANT BacklogSent
INVARIANT LastCommandWins
INVARIANT OneLoop
PROPERTY SyncReturns
PROPERTY InitReturns
\* The users may do nothing more.
CHECK_DEADLOCK FALSE
