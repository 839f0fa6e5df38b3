SPECIFICATION AccelSpec
CONSTANTS
  KB64 = 65536
  Jobs <- AllJobs
  Dips = {TRUE, FALSE}
INVARIANTS
  TypeOK
  WritesInside
  ProducedIsWritten
  AgreesWithReference
  RefusesTooSmall
  PartialIsPrefix
  ResumesOnSequence
