SPECIFICATION Spec
CONSTANTS
  Dims = {}
  Toggles = {t1, t2, t3}
  DimOps <- NoOps
  Top = 2
  CacheSecs = 4
  MaxLag = 3
  MaxTime = 8
  Serial = TRUE
PROPERTIES ToggleAlternates
CHECK_DEADLOCK FALSE
