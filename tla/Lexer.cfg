SPECIFICATION Spec
CONSTANTS
  Texts <- MCTexts
  MaxInt = 127
INVARIANTS
  TypeOK
  SpansInOrder
  MaximalMunch
  TokensOfTheirText
  OnlyBlanksBetween
  EndsAsItShould
PROPERTIES
  Terminates
