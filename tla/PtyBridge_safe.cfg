SPECIFICATION Spec
CONSTANTS
  Starts = {s1, s2}
  Stops = {t1}
  Socats = {p1, p2, p3}
  NoPid = NoPid
  NoFile = NoFile
  Blank = Blank
  Serial = FALSE
SYMMETRY Symmetry
INVARIANTS TypeOK NoStaleWatch EverySocatHasItsLoop
CHECK_DEADLOCK FALSE
