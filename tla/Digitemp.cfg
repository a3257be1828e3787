SPECIFICATION Spec
CONSTANTS
  Bits = 6
  FamilyBits = 3
  Roms <- AllRoms
  Valid <- AllValid
  Kind <- AllKinds
  Options <- AllOptions
  Files <- AllFiles
  Layouts <- AllLayouts
  MaxFaults = 2
INVARIANTS TypeOK ListIsTrue RowsAreTrue
PROPERTY ProcessEnds
