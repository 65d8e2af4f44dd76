SPECIFICATION HistSpec
CONSTANTS
  WordMod = 2
  WordsPerSector = 1
  XorKey = 1
  Keystream <- MCKeystream
  WordXor <- MCXor
  NrQueues = 2
  QueueDepth = 1
  DiskSectors = 4
  StartingLba = 1
  EndingLba = 2
  IoBufLen = 2
  Requests <- MCRequests
  Garbage <- MCGarbage
  Faults = {"power", "signal", "error", "uring"}
  Stamps = {1}
INVARIANT NoTagLost
INVARIANT OutsideUntouched
INVARIANT FlushedSurvives
PROPERTY ImplementsShadow
