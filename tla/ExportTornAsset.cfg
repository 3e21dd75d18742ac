CONSTANTS
  Stages = {"publication"}
  a = a
  b = b
  k = k
  l = l
  WorkerProjections = {a, b}
  WorkerImages = {k, l}
  MaxAttempts = 2
  MaxPrepares = 2
  MaxSends = 3
  MaxDeaths = 1
  Exports <- MCExports
  Sound <- MCSound
  Projections <- MCProjections
  Scripts = {a, b}
  Hosts = {h}
  MaxExports = 1
  MaxRuns = 2
  MaxKills = 1
  MaxCommits = 3
  MaxDamage = 1
  Ranks = {k, l}
  Objects = {o}
  Graphs = {g}
  Temps = {t}
  Builds = {x, y}
  Runtimes = {q}
  Containers = {a, b}
  MaxStarts = 2
  LayerCount = 5
  Align = 2
  Reserve = 1
  Models <- MCModels
  Receipts <- MCReceipts
  Platform = "spark"
  Images = {"i1", "i2"}
  Labelled = {"i1"}
  Profiles <- MCProfiles
  Reports <- MCReports
  SettingsFiles <- MCSettings
SYMMETRY Symmetry
SPECIFICATION ArtifactsSpec
INVARIANTS
  AssetsRestored
CHECK_DEADLOCK FALSE
