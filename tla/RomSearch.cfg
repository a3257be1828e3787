SPECIFICATION Spec
CONSTANTS
  Bits = 5
  FamilyBits = 2
  Roms <- AllRoms
  Valid <- AllValid
  MaxChanges = 1
INVARIANTS TypeOK
PROPERTIES ImplementsList WalkEnds
