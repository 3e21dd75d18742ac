CONSTANTS
  Rows <- MCRows
  Orders <- MCOrders
  HeldoutChoices <- MCHeldout
  CalibrationTokens = 28
  HeldoutTokens = 9
  MinTokens = 2
  TargetTokens = 3
  MaxTokens = 4
  CodePriority <- MCPriority
  MaxContainers = 1
  MaxPids = 2
  MaxReboots = 1
  InspectErrors = TRUE
SPECIFICATION RecipeSpec
INVARIANTS
  FairRounds
  CorpusSound
  FitIsBest
  FailedLaunchStopped
PROPERTIES
  ReadyUnlessLeftOver
CHECK_DEADLOCK FALSE
