SPECIFICATION Spec
CONSTANTS
  MaxFaults = 1
  Tuners = {"R828D"}
  Freqs = {100000000, 400000000}
  Rates = {400000, 300000, 2400000}
  Bandwidths = {0, 6500000}
  Gains = {207}
  Ppms = {50}
  RtlXtals = {28800500}
  TunerXtals = {0}
  Samplings = {0, 2}
  Careful = TRUE
INVARIANT ActualFrequency
CHECK_DEADLOCK FALSE
