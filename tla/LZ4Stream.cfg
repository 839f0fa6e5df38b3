SPECIFICATION SessionSpec
CONSTANTS
  LZ4_DISTANCE_MAX = 47
  FourKB = 24
  OneGB = 100
  TwoGB = 160
  Slots <- CoarseSlots
  Hash <- CoarseHash
  Requests <- StreamRequests
  Sessions <- StreamSessions
  MaxCalls = 4
INVARIANTS TypeOK CandidatesInWindow WritesInsideDst FillsDst RoundTrip HistoryShared
