\* Three requests on two disks that share one chunk, which is all that each of
\* them needs: none waits for a chunk while it holds one.
CONSTANTS
  HostSectorSize = 2
  DevSectorSize = 3
  ChunkBytes = 7
  DefaultMaxSectors = 3
  MaxHostSectors = 3
  PoolChunks = 1
  PoolContexts = 1
  UintMax = 100
  d1 = d1
  d2 = d2
  r1 = r1
  r2 = r2
  r3 = r3
  c1 = c1
  c2 = c2
  c3 = c3
  NoRequest = NoRequest
  Garbage = Garbage
  Disks <- TwoDisks
  Requests <- ThreeRequests
  Blocks <- MCBlocks
  Shapes <- SmallOnTwoDisks
  MaxSectors = 3
  MaxSegments = 1
  QueueDepth = 1
  Chunks <- OneChunk
  Faults = {"soft", "failed"}
  MaxFaults = 1
  MaxRescans = 0
SPECIFICATION FairSpec
PROPERTY EveryRequestAnswered
