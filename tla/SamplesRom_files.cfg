SPECIFICATION Spec
CONSTANTS
  CommandLines <- MCCommandLines
  RateOf <- MCRateOf
  Files <- MCFiles
  Noise <- MCNoise
  CutAt = {1}
  MaxRuns = 2
  Starts <- MCStarts
  Descriptors <- MCDescriptors
  Stray = {0, 16000}
  Behind <- MCBehind
INVARIANTS
  DecodesToPredictions
  WithinBias
  RecordsPointAtData
PROPERTIES
  FailureHarmsOutputOnly
CHECK_DEADLOCK FALSE
