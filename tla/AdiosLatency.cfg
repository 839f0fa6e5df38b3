SPECIFICATION Spec
CONSTANTS
  c1 = c1
  c2 = c2
  CPUs <- MCCPUs
  NoOne = NoOne
  Setups <- MCSetups
  Loads <- MCLoads
  LatencyLimit = 88
  LM_SAMPLES_THRESHOLD = 2
  LM_INTERVAL_THRESHOLD = 50
  ShrinkCount = 2
  ShrinkBytes = 8000
  Resist = 1
CHECK_DEADLOCK FALSE
INVARIANTS LatencyTypeOK PredictionBounded CountedOnce SamplesHaveTimer
