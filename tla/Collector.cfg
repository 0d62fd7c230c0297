SPECIFICATION CollectorSpec
CONSTANTS
  Programs <- MCPrograms
  Heaps <- MCHeaps
  HeapWords = 0
  MaxFrames = 8
INVARIANTS
  CollectorTypeOK
  CollectedResult
  CollectedStores
PROPERTIES
  CollectorTerminates
