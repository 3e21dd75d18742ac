CONSTANTS
  FirstLayer = 1
  LastLayer = 3
  Entry = {e1, e2}
  Acts = {a1}
  e1 = e1
  e2 = e2
  a1 = a1
  ReplayDurable = TRUE
SPECIFICATION Spec
INVARIANTS
  IInv
  NewestIsLoadable
  BarrierKept
  OneGenerationPerLayer
PROPERTIES
  DiscardAfterBarrier
  ImplementsStableLog
