\* One disk, two requests that contend for three chunks, every reply that the
\* mid-layer retries by itself and every reply that fails the request.
CONSTANTS
  HostSectorSize = 2
  DevSectorSize = 3
  ChunkBytes = 7
  DefaultMaxSectors = 3
  MaxHostSectors = 3
  PoolChunks = 3
  PoolContexts = 1
  UintMax = 100
  d1 = d1
  d2 = d2
  r1 = r1
  r2 = r2
  r3 = r3
  c1 = c1
  c2 = c2
  c3 = c3
  NoRequest = NoRequest
  Garbage = Garbage
  Disks <- OneDisk
  Requests <- TwoRequests
  Blocks <- MCBlocks
  Shapes <- Overlapping
  MaxSectors = 4
  MaxSegments = 2
  QueueDepth = 2
  Chunks <- ThreeChunks
  Faults = {"soft", "failed", "recovered"}
  MaxFaults = 2
  MaxRescans = 0
SYMMETRY Symmetry
SPECIFICATION Spec
INVARIANTS StoredInPlace ReadsReturnTheirSectors
PROPERTY ImplementsBlockDevice
