SPECIFICATION CoverFairSpec
CONSTANTS
  MinimumSectors = 30000
  StartLba = 32768
  TrailingGap = 4096
  GptEntrySectors = 32
  MinReserved = 32
  SectorsPerCluster = 8
  Fats = 2
  SectorSize = 512
  EntrySize = 4
  HeaderCluster = 1003
  MinClusters = 65525
  MaxU16 = 65535
  MaxU32 = 2147483647
  MaxExponent = 30
  Powers <- MCPowers
  DiskSizes <- FormatSizes
  MsrLba = 34
  MsrSectors = 64
  FatPrefixSectors = 64
  ZeroChunk = 2048
  Stops = {1, 2049}
  Searches = {"lowest", "hint"}
  FileClusters = {499, 500, 501}
  MaxTaken = 1000
INVARIANT CoverTypeOK
INVARIANT RegionsDisjoint
INVARIANT PayloadInsideData
INVARIANT OpenFindsHeader
INVARIANT PanicsOnlyWithLargeFats
INVARIANT NoGeometryMissed
INVARIANT StructuresIntact
INVARIANT FatsAgree
INVARIANT GptAgrees
INVARIANT PayloadKeepsFill
 
PROPERTY PlanningEnds
PROPERTY FormatPhases
CHECK_DEADLOCK FALSE
