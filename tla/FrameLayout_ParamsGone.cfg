SPECIFICATION Spec
CONSTANTS
  Names = {a, b}
  TmpName = tmp
  NameLists <- TwoNames
  DefCounts = {0, 1}
  Nestings = {1, 2, 3, 4, 5}
  ArgCounts = {0, 1, 2}
  Leaks = {0}
SYMMETRY NameSymmetry
INVARIANT ParamsGone
