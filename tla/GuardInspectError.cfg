CONSTANTS
  MaxContainers = 1
  MaxPids = 1
  MaxReboots = 0
  InspectErrors = TRUE
SPECIFICATION BootSpec
PROPERTIES
  PressureRelieved
