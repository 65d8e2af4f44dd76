SPECIFICATION Spec
CONSTANTS
  WordMod = 2
  WordsPerSector = 2
  XorKey = 1
  Keystream <- MCKeystream
  WordXor <- MCXor
  NrQueues = 2
  QueueDepth = 1
  DiskSectors = 4
  StartingLba = 1
  EndingLba = 2
  IoBufLen = 4
  Requests <- MCRequests
  Garbage <- MCGarbage
  Faults = {"error"}
  Stamps = {1}
INVARIANT TypeOK
INVARIANT ReadsAreRegular
INVARIANT OutsideUntouched
PROPERTY HandlingProceeds
