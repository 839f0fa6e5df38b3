SPECIFICATION WarmSpec
CONSTANTS
  MaxReq = 4
  CPUs = {c1, c2}
  Kinds <- SsdKinds
  Bases = {0, 6}
  Rotational = FALSE
  BatchLimit <- Limits
  LatTarget <- Targets
  Window = 20
  RefillRatio = 50
  FixOrder = FALSE
  Weight <- Weights
  Quantum = 4
  MaxDeletes = 1
  BioMerges = FALSE
  AllocFails = FALSE
  MaxRequeues = 0
  MaxUpdates = 0
  CountSize = 8
  LatSize = 1024
  NoOne = NoOne
  Oops = Oops
SYMMETRY CpuSymmetry
INVARIANTS
  TypeOK
  FlagsAgree
  QueuedOnce
  InFlightExact
  BatchBounded
  BarrierHoldsLater
  SyncFifo
CHECK_DEADLOCK FALSE
