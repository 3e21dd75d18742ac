CONSTANTS
  MaxContainers = 1
  MaxPids = 1
  MaxReboots = 1
  InspectErrors = FALSE
SPECIFICATION GuardSpec
PROPERTIES
  ReadyMeansSampled
