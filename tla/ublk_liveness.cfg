SPECIFICATION FairSpec
CONSTANTS
  WordMod = 2
  WordsPerSector = 1
  XorKey = 1
  Keystream <- MCKeystream
  WordXor <- MCXor
  NrQueues = 1
  QueueDepth = 2
  DiskSectors = 3
  StartingLba = 1
  EndingLba = 1
  IoBufLen = 1
  Requests <- MCRequests
  Garbage <- MCGarbage
  Faults = {"power", "signal", "error", "uring"}
  Stamps = {0}
INVARIANT NoTagLost
PROPERTY EveryRequestAnswered
PROPERTY RemovalEnds
PROPERTY NoOvertaking
