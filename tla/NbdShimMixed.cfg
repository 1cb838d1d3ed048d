\* Three concurrent requests of any alignment, on descriptors with and without
\* room for a command of maximal size, and a command that fails.
CONSTANTS
  LogicalBS = 2
  PhysBS = 3
  MinBlocks = 1
  NSectors = 3
  ConfigReserves <- TwoBlocks
  BlockSizes <- Emulable
  NoDescriptor = NoDescriptor
  r1 = r1
  r2 = r2
  r3 = r3
  NoRequest = NoRequest
  Requests <- ThreeRequests
  Shapes <- Mixed
  ThreadReserves <- AmpleOrNot
  MaxFaults = 1
SPECIFICATION Spec
SYMMETRY Symmetry
INVARIANTS TypeOK BytesBelong ReadsFresh WritesKeptApart TrailersZeroed FlushKeeps
PROPERTY RoundsAdvance
