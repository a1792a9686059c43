SPECIFICATION Spec
CONSTANTS
  MaxFaults = 1
  Tuners = {"E4000", "FC0012", "FC0013", "FC2580", "R828D", "Blog V4", "UNKNOWN"}
  Freqs = {20000000, 450000000}
  Rates = {300000, 400000, 2400000}
  Bandwidths = {0, 6500000}
  Gains = {0}
  Ppms = {50}
  RtlXtals = {28800500}
  TunerXtals = {0}
  Samplings = {0, 2}
  Careful = TRUE
CONSTRAINT Pursued
INVARIANTS TunedAsReported InputSwitched Downconverted RateAsAsked OffsetFollowsRate ShadowTrue
CHECK_DEADLOCK FALSE
