SPECIFICATION MachineSpec
CONSTANTS
  Programs <- MCNewInArguments
  HeapWords = 400
  MaxFrames = 8
INVARIANTS
  ResultCorrect
