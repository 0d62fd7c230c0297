SPECIFICATION Spec
CONSTANTS
  Programs <- MCPrograms
  Identifiers <- MCIdentifiers
  TmpName = TmpName
  NameLists <- MCNameLists
  DefCounts = {0, 1, 2}
  Nestings = {1, 2, 3, 4, 5, 6, 7, 8, 9, 10, 11}
  ArgCounts = {0, 1, 2, 3}
  Leaks <- MCLeaks
INVARIANTS
  TypeOK
  JumpsResolved
  RootInfoMatches
  RejectsOnlyIllFormed
  AcceptsNothingElse
PROPERTIES
  FollowsLayout
