SPECIFICATION AskSpec
CONSTANTS
  Clocks = {28800000, 28799100, 28801440}
  FreqStep = 777777
  GainStep = 1
  FilterStep = 1500001
  BandwidthStep = 20011
  StageTenths = {0, 10, 20, 30, 35, 60, 90, 120, 150}
  FmRates = {12000, 24000, 32000, 48000, 192000, 250000}
  FmStarts = {88000000, 446006250}
  FmSteps = {6250, 100000}
  FmLimit = 5
  Widths = {1, 900, 180000, 933333, 999990, 2239990, 2800000, 5599990, 80000000, 1000000000}
  WidthStep = 1
  Crops = {0, 20, 50}
  BinSizes = {125, 10000, 1200000}
  Short = 10
  Long = 14
  AllowedErrors = 2
  Offsets = {0, 3}
  Payloads = {0, 45}
  Level = 100
  SignalLength = 5
  Characters = {1, 10}
  Longest = 2
  BusSize = 3
  Arguments = {0, 1, 28, 29, 250000, 2048000, 433920000}
  CommandCount = 2
INVARIANTS OscillatorTuned NearestSet RangeCovered FramesDecoded BlocksJoin DeviceFound CommandsUnderstood
CHECK_DEADLOCK FALSE
