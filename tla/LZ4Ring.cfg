SPECIFICATION SessionSpec
CONSTANTS
  LZ4_DISTANCE_MAX = 47
  FourKB = 24
  OneGB = 100
  TwoGB = 160
  Slots <- ByteSlots
  Hash <- ByteHash
  Requests <- ChainRequests
  Sessions <- RingSessions
  MaxCalls = 3
INVARIANTS RingBufferSuffices
