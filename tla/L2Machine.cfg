SPECIFICATION MachineSpec
CONSTANTS
  Programs <- MCPrograms
  HeapWords = 400
  MaxFrames = 8
INVARIANTS
  MachineTypeOK
  ResultCorrect
  StoresInPlace
  RootsSound
PROPERTIES
  Terminates
