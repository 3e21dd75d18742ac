CONSTANTS
  FirstLayer = 1
  LastLayer = 3
  Modules = {m1, m2}
  MaxFaults = 2
  ReplayDurable = TRUE
  m1 = m1
  m2 = m2
SPECIFICATION FairSpec
INVARIANTS
  NeverRejected
  BoundaryMatchesCheckpoints
  ProvenanceKept
  LiveInputsReadable
  ExportIsComplete
  ResumesPastBarrier
PROPERTIES
  EventuallyExported
