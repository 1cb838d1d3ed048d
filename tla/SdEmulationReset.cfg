\* One write interrupted by a unit attention or a bus reset.
CONSTANTS
  HostSectorSize = 2
  DevSectorSize = 3
  ChunkBytes = 7
  DefaultMaxSectors = 3
  MaxHostSectors = 3
  PoolChunks = 3
  PoolContexts = 1
  UintMax = 100
  d1 = d1
  d2 = d2
  r1 = r1
  r2 = r2
  r3 = r3
  c1 = c1
  c2 = c2
  c3 = c3
  NoRequest = NoRequest
  Garbage = Garbage
  Disks <- OneDisk
  Requests <- OneRequest
  Blocks <- MCBlocks
  Shapes <- LongWrite
  MaxSectors = 3
  MaxSegments = 2
  QueueDepth = 2
  Chunks <- ThreeChunks
  Faults = {"reset"}
  MaxFaults = 1
  MaxRescans = 0
SPECIFICATION Spec
INVARIANT StoredInPlace
