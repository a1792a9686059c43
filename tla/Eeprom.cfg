SPECIFICATION Spec
CONSTANTS
  StrOffset = 3
  StringLimit = 16
  ImageSize = 20
  Characters = {11, 12}
  Longest = 2
  MaxRuns = 2
  MaxFaults = 2
INVARIANT SuccessIsWritten
CHECK_DEADLOCK FALSE
