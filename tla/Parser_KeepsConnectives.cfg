SPECIFICATION Spec
CONSTANT
  Inputs <- MCInputs
INVARIANTS
  KeepsConnectives
