SPECIFICATION FairSpec
CONSTANTS
  MaxReq = 3
  CPUs = {c1, c2}
  Kinds <- HddKinds
  Bases = {0, 6}
  Rotational = TRUE
  BatchLimit <- HddLimits
  LatTarget <- Targets
  Window = 32
  RefillRatio = 50
  FixOrder = TRUE
  Weight <- Weights
  Quantum = 4
  MaxDeletes = 2
  BioMerges = FALSE
  AllocFails = FALSE
  MaxRequeues = 0
  MaxUpdates = 0
  CountSize = 8
  LatSize = 1024
  NoOne = NoOne
  Oops = Oops
INVARIANTS
  ElevatorSorted
PROPERTIES
  EveryRequestLeaves
CHECK_DEADLOCK FALSE
