SPECIFICATION Spec
CONSTANTS
  Starts = {s1}
  Stops = {t1}
  Socats = {p1, p2, p3}
  NoPid = NoPid
  NoFile = NoFile
  Blank = Blank
  Serial = TRUE
PROPERTIES StopDeletes
CHECK_DEADLOCK FALSE
