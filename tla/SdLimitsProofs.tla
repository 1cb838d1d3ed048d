--------------------------- MODULE SdLimitsProofs ---------------------------
(***************************************************************************)
(* What the arithmetic of SdGeometry guarantees for every geometry: the    *)
(* chunks of a request cover it and no fewer would, they fit in the arrays *)
(* of a context and in the segment limit the request size was derived      *)
(* from, and the depth cap times the chunks of the largest request is no   *)
(* more than the reserve.  And the limits of a disk, for every geometry,   *)
(* every set of disks and every order of parameter writes and revalidation *)
(* steps.                                                                  *)
(***************************************************************************)
EXTENDS SdLimits, CommonFacts

-----------------------------------------------------------------------------
(***************************************************************************)
(* The geometry.                                                           *)
(***************************************************************************)
\* DIV_ROUND_UP is the least number of units of size d that hold n.
LEMMA DivRoundUpFacts ==
  ASSUME NEW n \in Nat, NEW d \in Nat \ {0}
  PROVE  /\ DivRoundUp(n, d) \in Nat
         /\ n <= d * DivRoundUp(n, d)
         /\ \A k \in Nat : n <= d * k => DivRoundUp(n, d) <= k
  BY RoundUpFacts DEF DivRoundUp

\* A bigger number needs no fewer units.
LEMMA DivRoundUpMonotone ==
  ASSUME NEW a \in Nat, NEW b \in Nat, NEW d \in Nat \ {0}, a <= b
  PROVE  DivRoundUp(a, d) <= DivRoundUp(b, d)
  BY RoundUpMonotone DEF DivRoundUp

LEMMA BlocksPerChunkPositive == BlocksPerChunk \in Nat \ {0}
<1>1. ChunkBytes \in Nat /\ DevSectorSize \in Nat \ {0}
      /\ DevSectorSize <= ChunkBytes
  BY GeometryAssumption
<1>2. /\ ChunkBytes \div DevSectorSize \in Nat
      /\ ChunkBytes < DevSectorSize * (ChunkBytes \div DevSectorSize)
                      + DevSectorSize
  BY <1>1, DivFacts
<1>3. ChunkBytes \div DevSectorSize # 0
  BY <1>1, <1>2
<1> QED
  BY <1>2, <1>3 DEF BlocksPerChunk

\* sd_528_blocks_to_chunks: enough chunks, and no more than enough.
THEOREM ChunksCoverBlocks ==
  ASSUME NEW blocks \in Nat
  PROVE  /\ blocks_to_chunks(blocks) \in Nat
         /\ blocks <= BlocksPerChunk * blocks_to_chunks(blocks)
         /\ \A k \in Nat : blocks <= BlocksPerChunk * k
                             => blocks_to_chunks(blocks) <= k
  BY BlocksPerChunkPositive, DivRoundUpFacts DEF blocks_to_chunks

\* A request of at least one sector needs at least one chunk.
LEMMA ChunksPositive ==
  ASSUME NEW blocks \in Nat \ {0}
  PROVE  blocks_to_chunks(blocks) \in Nat \ {0}
<1>1. /\ blocks_to_chunks(blocks) \in Nat
      /\ blocks <= BlocksPerChunk * blocks_to_chunks(blocks)
  BY ChunksCoverBlocks
<1>2. blocks_to_chunks(blocks) # 0
  BY <1>1, BlocksPerChunkPositive
<1> QED
  BY <1>1, <1>2

\* The arrays of a context have a place for each chunk of every request that
\* sd_528_prepare_emulation accepts.
THEOREM ChunksFitContext ==
  ASSUME NEW blocks \in Nat, blocks <= MaxHostSectors
  PROVE  blocks_to_chunks(blocks) <= MaxChunks
  BY GeometryAssumption, BlocksPerChunkPositive, DivRoundUpMonotone
     DEF blocks_to_chunks, MaxChunks

\* The effective request limit is a positive number of sectors below the
\* hard ceiling, whatever the parameter.
LEMMA EffectiveMaxSectors ==
  ASSUME NEW p \in Nat
  PROVE  /\ effective_max_sectors(p) \in Nat \ {0}
         /\ effective_max_sectors(p) <= MaxHostSectors
  BY GeometryAssumption DEF effective_max_sectors, Lesser

\* A request no longer than what sd_528_segments_to_sectors makes of a
\* segment limit needs no more chunks than the limit allows segments.
THEOREM SegmentsRespected ==
  ASSUME NEW segments \in Nat \ {0}, NEW blocks \in Nat,
         blocks <= MaxHostSectors,
         blocks <= segments_to_sectors(segments)
  PROVE  blocks_to_chunks(blocks) <= segments
<1> USE BlocksPerChunkPositive
<1>1. UintMax \in Nat /\ MaxHostSectors \in Nat /\ MaxHostSectors <= UintMax
  BY GeometryAssumption
<1>2. CASE segments > UintMax \div BlocksPerChunk
  <2>1. /\ UintMax \div BlocksPerChunk \in Nat
        /\ UintMax < BlocksPerChunk * (UintMax \div BlocksPerChunk)
                     + BlocksPerChunk
    BY <1>1, DivFacts
  <2> DEFINE q == UintMax \div BlocksPerChunk
  <2>2. q + 1 <= segments
    BY <1>2, <2>1
  <2>3. BlocksPerChunk * (q + 1) <= BlocksPerChunk * segments
    BY <2>1, <2>2
  <2>4. BlocksPerChunk * (q + 1) = BlocksPerChunk * q + BlocksPerChunk
    BY <2>1
  <2>5. blocks <= BlocksPerChunk * segments
    <3> HIDE DEF q
    <3>1. BlocksPerChunk * segments \in Nat /\ BlocksPerChunk * q \in Nat
      BY <2>1 DEF q
    <3>2. UintMax < BlocksPerChunk * q + BlocksPerChunk
      BY <2>1 DEF q
    <3> QED
      BY <1>1, <2>3, <2>4, <3>1, <3>2
  <2> QED
    BY <2>5, ChunksCoverBlocks
<1>3. CASE ~(segments > UintMax \div BlocksPerChunk)
  <2>1. segments_to_sectors(segments) = segments * BlocksPerChunk
    BY <1>3 DEF segments_to_sectors
  <2>2. blocks <= BlocksPerChunk * segments
    BY <2>1
  <2> QED
    BY <2>2, ChunksCoverBlocks
<1> QED
  BY <1>2, <1>3

\* What sd_528_segments_to_sectors returns admits at least one sector.
LEMMA SegmentsToSectorsPositive ==
  ASSUME NEW segments \in Nat
  PROVE  segments_to_sectors(segments) \in Nat \ {0}
<1>1. UintMax \in Nat \ {0}
  BY GeometryAssumption
<1>2. segments # 0 => segments * BlocksPerChunk \in Nat \ {0}
  BY BlocksPerChunkPositive
<1> QED
  BY <1>1, <1>2 DEF segments_to_sectors

\* The depth cap is positive, and when the reserve holds one request of the
\* largest size it holds as many of them as the cap allows.
THEOREM DepthCapFitsReserve ==
  ASSUME NEW p \in Nat
  PROVE  LET need == blocks_to_chunks(effective_max_sectors(p))
         IN  /\ queue_depth_cap(p) \in Nat \ {0}
             /\ need <= PoolChunks => queue_depth_cap(p) * need <= PoolChunks
<1> DEFINE need == blocks_to_chunks(effective_max_sectors(p))
           q == PoolChunks \div need
           cap == queue_depth_cap(p)
<1>1. need \in Nat \ {0}
  BY EffectiveMaxSectors, ChunksPositive
<1>2. PoolChunks \in Nat \ {0} /\ PoolContexts \in Nat \ {0}
  BY GeometryAssumption
<1> HIDE DEF need
<1>3. /\ q \in Nat
      /\ need * q <= PoolChunks
      /\ PoolChunks < need * q + need
  BY <1>1, <1>2, DivFacts
<1>4. cap = Lesser(Greater(1, q), PoolContexts)
  BY DEF queue_depth_cap, need
<1> HIDE DEF q, cap
<1>5. cap \in Nat \ {0}
  BY <1>2, <1>3, <1>4 DEF Lesser, Greater
<1>6. ASSUME need <= PoolChunks
      PROVE  cap * need <= PoolChunks
  <2>1. q # 0
    BY <1>1, <1>2, <1>3, <1>6
  <2>2. cap <= q
    BY <1>2, <1>3, <1>4, <2>1 DEF Lesser, Greater
  <2>3. need * cap <= need * q
    BY <1>1, <1>3, <1>5, <2>2
  <2>4. need * cap \in Nat /\ need * q \in Nat /\ cap * need = need * cap
    BY <1>1, <1>3, <1>5
  <2> QED
    BY <1>2, <1>3, <2>3, <2>4
<1> QED
  BY <1>5, <1>6 DEF need, cap

\* When the reserve does not hold one request of the largest size, the cap is
\* the floor, one.
LEMMA DepthCapFloor ==
  ASSUME NEW p \in Nat,
         blocks_to_chunks(effective_max_sectors(p)) > PoolChunks
  PROVE  queue_depth_cap(p) = 1
<1> DEFINE need == blocks_to_chunks(effective_max_sectors(p))
           q == PoolChunks \div need
<1>1. need \in Nat \ {0}
  BY EffectiveMaxSectors, ChunksPositive
<1>2. PoolChunks \in Nat \ {0} /\ PoolContexts \in Nat \ {0}
  BY GeometryAssumption
<1>3. need > PoolChunks
  OBVIOUS
<1>4. queue_depth_cap(p) = Lesser(Greater(1, q), PoolContexts)
  BY DEF queue_depth_cap
<1> HIDE DEF need
<1>5. q \in Nat /\ need * q <= PoolChunks
  BY <1>1, <1>2, DivFacts
<1> HIDE DEF q
<1>6. q = 0
  <2>1. ASSUME q # 0 PROVE FALSE
    <3>1. need * 1 <= need * q
      BY <1>1, <1>5, <2>1
    <3>2. need * q \in Nat /\ need * 1 = need
      BY <1>1, <1>5
    <3> QED
      BY <1>1, <1>2, <1>3, <1>5, <3>1, <3>2
  <2> QED
    BY <2>1
<1> QED
  BY <1>2, <1>4, <1>6 DEF Lesser, Greater

-----------------------------------------------------------------------------
(***************************************************************************)
(* What the two values that a revalidation computes satisfy.               *)
(***************************************************************************)

LEMMA DepthTargetBounds ==
  ASSUME NEW d \in Disks, depthParam \in Nat, maxParam \in Nat
  PROVE  /\ depth_target(d) \in Nat \ {0}
         /\ depth_target(d) <= queue_depth_cap(maxParam)
<1>1. queue_depth_cap(maxParam) \in Nat \ {0}
  BY DepthCapFitsReserve
<1> QED
  BY <1>1, LimitsAssumption DEF depth_target, Lesser

NewMax(d) == Lesser(StockMax, Lesser(effective_max_sectors(maxParam),
                                     segments_to_sectors(MaxSegments[d])))

LEMMA NewMaxBounds ==
  ASSUME NEW d \in Disks, maxParam \in Nat
  PROVE  /\ NewMax(d) \in Nat \ {0}
         /\ NewMax(d) <= StockMax
         /\ NewMax(d) <= effective_max_sectors(maxParam)
         /\ NewMax(d) <= segments_to_sectors(MaxSegments[d])
<1>1. MaxSegments[d] \in Nat /\ StockMax \in Nat \ {0}
  BY LimitsAssumption
<1>2. effective_max_sectors(maxParam) \in Nat \ {0}
  BY EffectiveMaxSectors
<1>3. segments_to_sectors(MaxSegments[d]) \in Nat \ {0}
  BY <1>1, SegmentsToSectorsPositive
<1> QED
  BY <1>1, <1>2, <1>3 DEF NewMax, Lesser

-----------------------------------------------------------------------------
LEMMA ParamsAreNumbers ==
  ASSUME TypeOK
  PROVE  depthParam \in Nat /\ maxParam \in Nat
  BY LimitsAssumption DEF TypeOK

LEMMA TypeInit == Init => TypeOK
  BY LimitsAssumption DEF Init, TypeOK, Steps

LEMMA TypeNext == TypeOK /\ [Next]_vars => TypeOK'
<1> SUFFICES ASSUME TypeOK, [Next]_vars PROVE TypeOK'
  OBVIOUS
<1> USE DEF TypeOK, Steps
<1>1. CASE WriteParams
  BY <1>1 DEF WriteParams, disk
<1>2. ASSUME NEW d \in Disks, sd_adjust_logical_sector_size(d)
      PROVE  TypeOK'
  BY <1>2 DEF sd_adjust_logical_sector_size, params
<1>3. ASSUME NEW d \in Disks, sd_528_limit_queue_depth(d)
      PROVE  TypeOK'
  <2>1. depth_target(d) \in Nat
    BY ParamsAreNumbers, DepthTargetBounds
  <2>2. Lesser(queueDepth[d], depth_target(d)) \in 0..LldDepth
    BY <2>1, LimitsAssumption DEF Lesser
  <2> QED
    BY <1>3, <2>2 DEF sd_528_limit_queue_depth, params
<1>4. ASSUME NEW d \in Disks, sd_revalidate_max_dev_sectors(d)
      PROVE  TypeOK'
  <2>1. NewMax(d) \in 0..StockMax /\ StockMax \in 0..StockMax
    BY ParamsAreNumbers, NewMaxBounds, LimitsAssumption
  <2>2. maxDevSectors' = [maxDevSectors EXCEPT ![d] =
          IF from528[d] THEN NewMax(d) ELSE StockMax]
    BY <1>4 DEF sd_revalidate_max_dev_sectors, NewMax
  <2> QED
    BY <1>4, <2>1, <2>2 DEF sd_revalidate_max_dev_sectors, params
<1>5. CASE UNCHANGED vars
  BY <1>5 DEF vars
<1> QED
  BY <1>1, <1>2, <1>3, <1>4, <1>5 DEF Next, Revalidate

\* Type correctness of the limits.
THEOREM LimitsTypeCorrect == Spec => []TypeOK
  BY TypeInit, TypeNext, PTL DEF Spec

-----------------------------------------------------------------------------
(***************************************************************************)
(* A disk's request size limit is set for the emulation in the same        *)
(* revalidation that switched it on, and changes at no other moment: what  *)
(* LimitsSound says of it is inductive.                                    *)
(***************************************************************************)
LEMMA LimitsInit == Init => LimitsSound /\ QueueStaysOpen
  BY LimitsAssumption DEF Init, LimitsSound, QueueStaysOpen, Emulated

LEMMA NewMaxSound ==
  ASSUME NEW d \in Disks, maxParam \in Nat
  PROVE  /\ NewMax(d) \in 1..MaxHostSectors
         /\ blocks_to_chunks(NewMax(d)) <= MaxChunks
         /\ MaxSegments[d] # 0 => blocks_to_chunks(NewMax(d)) <= MaxSegments[d]
<1>1. MaxSegments[d] \in Nat /\ MaxHostSectors \in Nat
  BY LimitsAssumption, GeometryAssumption
<1>2. NewMax(d) \in Nat \ {0} /\ NewMax(d) <= MaxHostSectors
  BY <1>1, NewMaxBounds, EffectiveMaxSectors
<1>3. blocks_to_chunks(NewMax(d)) <= MaxChunks
  BY <1>2, ChunksFitContext
<1>4. MaxSegments[d] # 0 => blocks_to_chunks(NewMax(d)) <= MaxSegments[d]
  BY <1>1, <1>2, NewMaxBounds, SegmentsRespected
<1> QED
  BY <1>1, <1>2, <1>3, <1>4

LEMMA LimitsNext ==
  TypeOK /\ LimitsSound /\ [Next]_vars => LimitsSound'
<1> SUFFICES ASSUME TypeOK, LimitsSound, [Next]_vars PROVE LimitsSound'
  OBVIOUS
<1> USE DEF LimitsSound, Emulated, TypeOK, Steps
<1>1. CASE WriteParams
  BY <1>1 DEF WriteParams, disk
<1>2. ASSUME NEW d \in Disks, sd_adjust_logical_sector_size(d)
      PROVE  LimitsSound'
  BY <1>2 DEF sd_adjust_logical_sector_size, params
<1>3. ASSUME NEW d \in Disks, sd_528_limit_queue_depth(d)
      PROVE  LimitsSound'
  BY <1>3 DEF sd_528_limit_queue_depth, params
<1>4. ASSUME NEW d \in Disks, sd_revalidate_max_dev_sectors(d)
      PROVE  LimitsSound'
  <2>1. /\ NewMax(d) \in 1..MaxHostSectors
        /\ blocks_to_chunks(NewMax(d)) <= MaxChunks
        /\ MaxSegments[d] # 0 =>
             blocks_to_chunks(NewMax(d)) <= MaxSegments[d]
    BY ParamsAreNumbers, NewMaxSound
  <2>2. maxDevSectors' = [maxDevSectors EXCEPT ![d] =
          IF from528[d] THEN NewMax(d) ELSE StockMax]
    BY <1>4 DEF sd_revalidate_max_dev_sectors, NewMax
  <2>3. step' = [step EXCEPT ![d] = "idle"] /\ from528' = from528
    BY <1>4 DEF sd_revalidate_max_dev_sectors
  <2> QED
    BY <2>1, <2>2, <2>3
<1>5. CASE UNCHANGED vars
  BY <1>5 DEF vars
<1> QED
  BY <1>1, <1>2, <1>3, <1>4, <1>5 DEF Next, Revalidate

LEMMA QueueOpenNext ==
  TypeOK /\ QueueStaysOpen /\ [Next]_vars => QueueStaysOpen'
<1> SUFFICES ASSUME TypeOK, QueueStaysOpen, [Next]_vars PROVE QueueStaysOpen'
  OBVIOUS
<1> USE DEF QueueStaysOpen, TypeOK
<1>1. CASE WriteParams
  BY <1>1 DEF WriteParams, disk
<1>2. ASSUME NEW d \in Disks, sd_adjust_logical_sector_size(d)
      PROVE  QueueStaysOpen'
  BY <1>2 DEF sd_adjust_logical_sector_size
<1>3. ASSUME NEW d \in Disks, sd_528_limit_queue_depth(d)
      PROVE  QueueStaysOpen'
  <2>1. depth_target(d) \in Nat \ {0}
    BY ParamsAreNumbers, DepthTargetBounds
  <2>2. Lesser(queueDepth[d], depth_target(d)) >= 1
    BY <2>1, LimitsAssumption DEF Lesser
  <2> QED
    BY <1>3, <2>2 DEF sd_528_limit_queue_depth
<1>4. ASSUME NEW d \in Disks, sd_revalidate_max_dev_sectors(d)
      PROVE  QueueStaysOpen'
  BY <1>4 DEF sd_revalidate_max_dev_sectors
<1>5. CASE UNCHANGED vars
  BY <1>5 DEF vars
<1> QED
  BY <1>1, <1>2, <1>3, <1>4, <1>5 DEF Next, Revalidate

\* No request within the limits of an emulated disk is refused, however the
\* parameters are written.
THEOREM LimitsAreSound == Spec => []LimitsSound
  BY TypeInit, TypeNext, LimitsInit, LimitsNext, PTL DEF Spec

\* No revalidation closes a queue.
THEOREM QueuesStayOpen == Spec => []QueueStaysOpen
  BY TypeInit, TypeNext, LimitsInit, QueueOpenNext, PTL DEF Spec

-----------------------------------------------------------------------------
(***************************************************************************)
(* The depth fits the reserve, when no parameter is written during a       *)
(* revalidation.  Between its two halves the depth is below the cap of     *)
(* the parameter that the second half is going to read.                    *)
(***************************************************************************)
BetweenHalves ==
  \A d \in Disks :
    /\ from528[d] => fat[d]
    /\ step[d] = "cap" /\ from528[d] =>
         queueDepth[d] <= queue_depth_cap(maxParam)

DepthInv == TypeOK /\ BetweenHalves /\ DepthFitsReserve

LEMMA DepthInvInit == Init => DepthInv
  BY TypeInit DEF Init, DepthInv, BetweenHalves, DepthFitsReserve, Emulated

LEMMA QuietIsNext == [QuietNext]_vars => [Next]_vars
  BY DEF QuietNext, Next

\* Any depth below the cap, times the chunks of any request below the
\* effective limit, fits.
LEMMA BelowCapFits ==
  ASSUME NEW p \in Nat, NEW depth \in Nat, NEW sectors \in Nat,
         depth <= queue_depth_cap(p),
         sectors <= effective_max_sectors(p),
         blocks_to_chunks(sectors) <= PoolChunks
  PROVE  depth * blocks_to_chunks(sectors) <= PoolChunks
<1> DEFINE need == blocks_to_chunks(effective_max_sectors(p))
           n == blocks_to_chunks(sectors)
           cap == queue_depth_cap(p)
<1>1. /\ effective_max_sectors(p) \in Nat
      /\ need \in Nat /\ n \in Nat /\ PoolChunks \in Nat
  BY EffectiveMaxSectors, ChunksCoverBlocks, GeometryAssumption
<1>2. n <= need
  BY <1>1, DivRoundUpMonotone, BlocksPerChunkPositive DEF blocks_to_chunks
<1>3. /\ cap \in Nat \ {0}
      /\ need <= PoolChunks => cap * need <= PoolChunks
  BY DepthCapFitsReserve
<1>4. need > PoolChunks => cap = 1
  BY DepthCapFloor
<1>5. depth <= cap /\ n <= PoolChunks
  OBVIOUS
<1> HIDE DEF need, n, cap
<1>6. CASE need <= PoolChunks
  <2>1. depth * n <= cap * n
    BY <1>1, <1>3, <1>5
  <2>2. cap * n <= cap * need
    BY <1>1, <1>2, <1>3
  <2>3. depth * n \in Nat /\ cap * n \in Nat /\ cap * need \in Nat
    BY <1>1, <1>3
  <2>4. depth * n <= PoolChunks
    BY <1>1, <1>3, <1>6, <2>1, <2>2, <2>3
  <2> QED
    BY <2>4 DEF n
<1>7. CASE need > PoolChunks
  <2>1. depth = 0 \/ depth = 1
    BY <1>4, <1>5, <1>7
  <2>2. depth * n <= PoolChunks
    BY <1>1, <1>5, <2>1
  <2> QED
    BY <2>2 DEF n
<1> QED
  BY <1>1, <1>6, <1>7

LEMMA DepthInvNext == DepthInv /\ [QuietNext]_vars => DepthInv'
<1> SUFFICES ASSUME DepthInv, [QuietNext]_vars PROVE DepthInv'
  OBVIOUS
<1>1. TypeOK /\ TypeOK'
  BY QuietIsNext, TypeNext DEF DepthInv
<1> USE DEF DepthInv, BetweenHalves, DepthFitsReserve, Emulated
<1>2. CASE (\A d \in Disks : step[d] = "idle") /\ WriteParams
  BY <1>1, <1>2 DEF WriteParams, disk
<1>3. ASSUME NEW d \in Disks, sd_adjust_logical_sector_size(d)
      PROVE  DepthInv'
  BY <1>1, <1>3 DEF sd_adjust_logical_sector_size, params, TypeOK, Steps
<1>4. ASSUME NEW d \in Disks, sd_528_limit_queue_depth(d)
      PROVE  DepthInv'
  <2>1. depth_target(d) \in Nat /\ depth_target(d) <= queue_depth_cap(maxParam)
    BY <1>1, ParamsAreNumbers, DepthTargetBounds
  <2>2. queue_depth_cap(maxParam) \in Nat
    BY <1>1, ParamsAreNumbers, DepthCapFitsReserve
  <2>3. Lesser(queueDepth[d], depth_target(d)) <= queue_depth_cap(maxParam)
    BY <1>1, <2>1, <2>2 DEF Lesser, TypeOK
  <2> QED
    BY <1>1, <1>4, <2>3 DEF sd_528_limit_queue_depth, params, TypeOK, Steps
<1>5. ASSUME NEW d \in Disks, sd_revalidate_max_dev_sectors(d)
      PROVE  DepthInv'
  <2>1. maxDevSectors' = [maxDevSectors EXCEPT ![d] =
          IF from528[d] THEN NewMax(d) ELSE StockMax]
    BY <1>5 DEF sd_revalidate_max_dev_sectors, NewMax
  <2>2. /\ step' = [step EXCEPT ![d] = "idle"]
        /\ step[d] = "cap"
        /\ UNCHANGED <<maxParam, fat, from528, queueDepth>>
    BY <1>5 DEF sd_revalidate_max_dev_sectors, params
  <2>3. NewMax(d) \in Nat /\ NewMax(d) <= effective_max_sectors(maxParam)
    BY <1>1, ParamsAreNumbers, NewMaxBounds
  <2>4. from528[d] /\ blocks_to_chunks(NewMax(d)) <= PoolChunks =>
          queueDepth[d] * blocks_to_chunks(NewMax(d)) <= PoolChunks
    BY <1>1, <2>2, <2>3, ParamsAreNumbers, BelowCapFits DEF TypeOK
  <2>5. BetweenHalves'
    BY <1>1, <2>2 DEF TypeOK
  <2>6. DepthFitsReserve'
    BY <1>1, <2>1, <2>2, <2>4 DEF TypeOK
  <2> QED
    BY <1>1, <2>5, <2>6
<1>6. CASE UNCHANGED vars
  BY <1>1, <1>6 DEF vars
<1> QED
  BY <1>2, <1>3, <1>4, <1>5, <1>6 DEF QuietNext, Revalidate

\* A disk at its full depth cannot ask for more chunks than there are, when
\* no parameter is written during a revalidation.
THEOREM DepthAlwaysFits == QuietSpec => []DepthFitsReserve
<1>1. DepthInv => DepthFitsReserve
  BY DEF DepthInv
<1> QED
  BY <1>1, DepthInvInit, DepthInvNext, PTL DEF QuietSpec
=============================================================================
