----------------------------- MODULE SdGeometry -----------------------------
(***************************************************************************)
(* The arithmetic of the 528-to-512 emulation that wvg-sd-528.patch adds   *)
(* to the Linux sd driver: how many bounce chunks a request needs, how     *)
(* large a request may be, and how deep a disk's queue may be.             *)
(*                                                                         *)
(* The sizes are parameters.  In the driver a host sector is 512 bytes, a  *)
(* device sector 528, a chunk 64 KiB (so 124 device sectors per chunk),    *)
(* a request at most 4096 host sectors (2048 by default), and the two      *)
(* reserves hold 576 chunks and 64 contexts.                               *)
(***************************************************************************)
EXTENDS Integers

CONSTANTS
  HostSectorSize,     \* SD_528_HOST_SECTOR_SIZE
  DevSectorSize,      \* SD_528_DEV_SECTOR_SIZE
  ChunkBytes,         \* SD_528_CHUNK_BYTES
  DefaultMaxSectors,  \* SD_528_DEFAULT_MAX_SECTORS
  MaxHostSectors,     \* SD_528_MAX_HOST_SECTORS
  PoolChunks,         \* SD_528_MEMPOOL_SIZE, or emulate_528_pool_chunks
  PoolContexts,       \* SD_528_CTX_POOL_SIZE, or emulate_528_pool_contexts
  UintMax             \* UINT_MAX

(***************************************************************************)
(* What the defines of the patch satisfy; the reserves are only known to   *)
(* be positive, because port_universal.py clamps them to 1..65536.         *)
(***************************************************************************)
ASSUME GeometryAssumption ==
  /\ HostSectorSize \in Nat \ {0}
  /\ DevSectorSize \in Nat /\ DevSectorSize > HostSectorSize
  /\ ChunkBytes \in Nat /\ ChunkBytes >= DevSectorSize
  /\ DefaultMaxSectors \in Nat \ {0}
  /\ MaxHostSectors \in Nat \ {0} /\ DefaultMaxSectors <= MaxHostSectors
  /\ PoolChunks \in Nat \ {0}
  /\ PoolContexts \in Nat \ {0}
  /\ UintMax \in Nat /\ MaxHostSectors <= UintMax

Lesser(a, b) == IF a <= b THEN a ELSE b
Greater(a, b) == IF a >= b THEN a ELSE b

\* The kernel macro: the number of units of size d that hold n.
DivRoundUp(n, d) == (n + d - 1) \div d

BlocksPerChunk == ChunkBytes \div DevSectorSize

\* The length of the arrays chunks[] and bounce_sgl[] of a context.
MaxChunks == DivRoundUp(MaxHostSectors, BlocksPerChunk)

-----------------------------------------------------------------------------
(***************************************************************************)
(* The functions of the patch.  maxParam stands for the module parameter   *)
(* emulate_528_max_sectors at the moment the function reads it.            *)
(***************************************************************************)

effective_max_sectors(maxParam) ==
  Lesser(IF maxParam = 0 THEN DefaultMaxSectors ELSE maxParam, MaxHostSectors)

\* Bug: a last partial chunk is forgotten unless it is the only one.
blocks_to_chunks_truncated(blocks) == Greater(1, blocks \div BlocksPerChunk)

blocks_to_chunks(blocks) == DivRoundUp(blocks, BlocksPerChunk)

\* Bug: one more block for each segment than a chunk holds.
segments_to_sectors_off_by_one(maxSegments) ==
  IF maxSegments = 0 \/ maxSegments > UintMax \div BlocksPerChunk
    THEN UintMax
    ELSE maxSegments * (BlocksPerChunk + 1)

\* No limit on segments, or a product that would not fit in an unsigned int,
\* is no limit on sectors.
segments_to_sectors(maxSegments) ==
  IF maxSegments = 0 \/ maxSegments > UintMax \div BlocksPerChunk
    THEN UintMax
    ELSE maxSegments * BlocksPerChunk

\* Bug: the cap does not fall back to one when the reserve is too small.
queue_depth_cap_without_floor(maxParam) ==
  Lesser(PoolChunks \div blocks_to_chunks(effective_max_sectors(maxParam)),
         PoolContexts)

\* Bug: a request of maximal size is taken to need one chunk only.
queue_depth_cap_one_chunk(maxParam) == Lesser(PoolChunks, PoolContexts)

\* As many requests of maximal size as the chunk reserve holds, at least one.
queue_depth_cap(maxParam) ==
  Lesser(Greater(1, PoolChunks \div
                      blocks_to_chunks(effective_max_sectors(maxParam))),
         PoolContexts)
=============================================================================
