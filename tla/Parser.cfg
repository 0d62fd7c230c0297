SPECIFICATION Spec
CONSTANT
  Inputs <- MCInputs
INVARIANTS
  TypeOK
  RoundTrip
  KeepsTokens
  NoFalseAlarm
  PrintsApart
PROPERTIES
  Terminates
