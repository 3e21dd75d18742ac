CONSTANTS
  Platforms = {"rtx", "spark"}
  N = 3
  MaxLives = 3
  MaxEdits = 1
  MaxFaults = 2
SPECIFICATION Spec
INVARIANTS
  ReceiptsHonest
  ReportTruthful
PROPERTIES
  FinishedKept
  Completes
CHECK_DEADLOCK FALSE
