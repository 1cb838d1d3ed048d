\* Parameters are written only while no revalidation runs; the reserve holds one
\* request of three chunks, and less than one of the longest.
CONSTANTS
  HostSectorSize = 2
  DevSectorSize = 3
  ChunkBytes = 7
  DefaultMaxSectors = 4
  MaxHostSectors = 7
  PoolChunks = 3
  PoolContexts = 7
  UintMax = 100
  d1 = d1
  d2 = d2
  d3 = d3
  Disks <- MCDisks
  SectorSize <- MCSectorSize
  MaxSegments <- MCMaxSegments
  StockMax = 20
  CanQueue = 7
  LldDepth = 2
  DepthValues = {0, 2, 9}
  MaxValues = {0, 1, 5, 50}
SPECIFICATION QuietSpec
INVARIANTS TypeOK LimitsSound QueueStaysOpen DepthFitsReserve
