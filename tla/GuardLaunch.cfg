CONSTANTS
  MaxContainers = 2
  MaxPids = 2
  MaxReboots = 0
  InspectErrors = FALSE
SPECIFICATION BootSpec
INVARIANTS
  GuardInv
  Guarded
PROPERTIES
  PressureRelieved
