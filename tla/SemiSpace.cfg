SPECIFICATION Spec
CONSTANTS
  HeapSizes = {2, 8, 12}
  Sizes = {0, 1, 3}
  OutsideCalls = TRUE
  MaxCalls = 3
  MaxBlocks = 3
INVARIANTS
  TypeOK
  ObjectsDisjoint
  CountsWords
