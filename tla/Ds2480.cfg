CONSTANTS
  Bytes <- MCBytes
  Blocks <- MCBlocks
  Width = 2
  Tries = 2
SPECIFICATION Spec
INVARIANTS TypeOK InStepUnlessInDoubt NoHiddenPower SuccessIsTrue
PROPERTY FindsBack
