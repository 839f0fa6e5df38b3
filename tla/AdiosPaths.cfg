SPECIFICATION EitherSpec
CONSTANTS
  MaxReq = 3
  CPUs = {c1}
  Kinds <- PathKinds
  Bases = {0, 6}
  Rotational = FALSE
  BatchLimit <- Limits
  LatTarget <- Targets
  Window = 20
  RefillRatio = 50
  FixOrder = FALSE
  Weight <- Weights
  Quantum = 4
  MaxDeletes = 2
  BioMerges = TRUE
  AllocFails = TRUE
  MaxRequeues = 1
  MaxUpdates = 1
  CountSize = 4
  LatSize = 64
  NoOne = NoOne
  Oops = Oops
INVARIANTS
  FlagsAgree
  QueuedOnce
  CountOffByRequeues
  FlushBeforeLater
CHECK_DEADLOCK FALSE
