SPECIFICATION AccelSpec
CONSTANTS
  KB64 = 65536
  Jobs <- TightInPlaceJobs
  Dips = {TRUE, FALSE}
INVARIANTS
  InPlaceBufferSuffices
