CONSTANTS
  WordBits = 2
  NumSlots = 11
SPECIFICATION Spec
INVARIANTS
  LevelsAgree
  FindsBest
