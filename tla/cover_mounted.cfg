SPECIFICATION CoverSpec
CONSTANTS
  MinimumSectors = 4194304
  StartLba = 32768
  TrailingGap = 4096
  GptEntrySectors = 32
  MinReserved = 32
  SectorsPerCluster = 8
  Fats = 2
  SectorSize = 512
  EntrySize = 4
  HeaderCluster = 1003
  MinClusters = 65525
  MaxU16 = 65535
  MaxU32 = 2147483647
  MaxExponent = 30
  Powers <- MCPowers
  DiskSizes <- MountedSize
  MsrLba = 34
  MsrSectors = 64
  FatPrefixSectors = 64
  ZeroChunk = 2048
  Stops = {1}
  Searches = {"lowest", "hint"}
  FileClusters = {1}
  MaxTaken = 2
INVARIANT GapIsRoom
CHECK_DEADLOCK FALSE
