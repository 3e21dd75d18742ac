CONSTANTS
  Kinds = {"roce", "pcie"}
  Settings <- MCSettings
  Calls <- MCCalls
  MaxSteps = 2
SPECIFICATION Spec
INVARIANTS
  SameBackend
  NothingTaintedPublished
  CleanRelease
PROPERTIES
  PoisonIsFatal
CHECK_DEADLOCK FALSE
