SPECIFICATION Spec
CONSTANTS
  Dims = {d1, d2}
  Toggles = {}
  DimOps <- RampOps
  Top = 3
  CacheSecs = 4
  MaxLag = 1
  MaxTime = 2
  Serial = FALSE
INVARIANTS TypeOK
PROPERTIES RampsEnd TakenOverEnds
CHECK_DEADLOCK FALSE
