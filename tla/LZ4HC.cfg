SPECIFICATION HCSpec
CONSTANTS
  LZ4_DISTANCE_MAX = 47
  LZ4HC_HASHTABLESIZE <- TableSize
  LZ4HC_hash <- Hash4
  LZ4MID_hash7 <- Hash7
  FourKB = 24
  ThirtyTwoKB = 16
  OneGB = 100
  TwoGB = 105
  LZ4_OPT_NUM = 24
  Sessions <- FirstSessions
  Requests <- FirstRequests
INVARIANTS
  HCTypeOK
  CandidatesInHistory
  FoundIsMatch
  MidIsMatch
  InsertsInPrefix
  PlanInTable
  WritesInsideDst
  HCFillsDst
  RoundTrip
  HCHistoryShared
