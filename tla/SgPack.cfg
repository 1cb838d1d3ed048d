\* Sectors of two bytes, trailers of two, two sectors to a chunk, and every
\* way to cut a host buffer of up to seven bytes.
CONSTANTS
  HostSectorSize = 2
  DevSectorSize = 4
  ChunkBytes = 9
  DefaultMaxSectors = 3
  MaxHostSectors = 3
  PoolChunks = 2
  PoolContexts = 1
  UintMax = 100
  HostBytes = 7
SPECIFICATION FairSpec
INVARIANTS TypeOK PackedInPlace UnpackedInPlace FailsOnlyWhenShort
PROPERTY Returns
