------------------------- MODULE SdEmulationProofs -------------------------
(***************************************************************************)
(* The emulation, for every geometry and every number of disks, requests,  *)
(* chunks and contexts.  Its resources, for every reply of the device and  *)
(* any number of revalidations under load: the state is well typed, every  *)
(* chunk is in the reserve or held once, a request that is not active      *)
(* holds nothing, and a command on the device has a bounce sector for each *)
(* of its sectors.  Its data: what a disk stores and what a read returns.  *)
(***************************************************************************)
EXTENDS SdEmulation, CommonFacts, FiniteSetTheorems

-----------------------------------------------------------------------------
(***************************************************************************)
(* The chunks of a request.                                                *)
(***************************************************************************)
LEMMA BlocksPerChunkPositive == BlocksPerChunk \in Nat \ {0}
<1>1. ChunkBytes \in Nat /\ DevSectorSize \in Nat \ {0}
      /\ DevSectorSize <= ChunkBytes
  BY GeometryAssumption
<1>2. /\ ChunkBytes \div DevSectorSize \in Nat
      /\ ChunkBytes < DevSectorSize * (ChunkBytes \div DevSectorSize)
                      + DevSectorSize
  BY <1>1, DivFacts
<1>3. ChunkBytes \div DevSectorSize # 0
  BY <1>1, <1>2
<1> QED
  BY <1>2, <1>3 DEF BlocksPerChunk

\* sd_528_blocks_to_chunks: enough chunks, and no more than enough.
LEMMA ChunksCoverBlocks ==
  ASSUME NEW blocks \in Nat
  PROVE  /\ blocks_to_chunks(blocks) \in Nat
         /\ blocks <= BlocksPerChunk * blocks_to_chunks(blocks)
         /\ \A k \in Nat : blocks <= BlocksPerChunk * k
                             => blocks_to_chunks(blocks) <= k
  BY BlocksPerChunkPositive, RoundUpFacts DEF blocks_to_chunks, DivRoundUp

\* A request of at least one sector needs at least one chunk.
LEMMA ChunksPositive ==
  ASSUME NEW blocks \in Nat \ {0}
  PROVE  blocks_to_chunks(blocks) \in Nat \ {0}
<1>1. /\ blocks_to_chunks(blocks) \in Nat
      /\ blocks <= BlocksPerChunk * blocks_to_chunks(blocks)
  BY ChunksCoverBlocks
<1>2. blocks_to_chunks(blocks) # 0
  BY <1>1, BlocksPerChunkPositive
<1> QED
  BY <1>1, <1>2

\* The arrays of a context have a place for each chunk of every request that
\* sd_528_prepare_emulation accepts.
LEMMA ChunksFitContext ==
  ASSUME NEW blocks \in Nat, blocks <= MaxHostSectors
  PROVE  blocks_to_chunks(blocks) <= MaxChunks
  BY GeometryAssumption, BlocksPerChunkPositive, RoundUpMonotone
     DEF blocks_to_chunks, MaxChunks, DivRoundUp

-----------------------------------------------------------------------------
(***************************************************************************)
(* The state that a request goes through.                                  *)
(***************************************************************************)

\* The part of TypeOK that the control of a request depends on.
ControlOK ==
  /\ from528 \in [Disks -> BOOLEAN]
  /\ rescans \in Nat
  /\ rq \in [Requests -> Shapes]
  /\ status \in [Requests -> Statuses]
  /\ pc \in [Requests -> Locations]
  /\ ctx \in [Requests -> BOOLEAN]
  /\ chunks \in [Requests -> Seq(Chunks)]
  /\ sdb \in [Requests -> {"host", "bounce"}]
  /\ xfer \in [Requests -> 0..MaxSectors]
  /\ reply \in [Requests -> Replies]
  /\ reserve \in SUBSET Chunks
  /\ ctxFree \in 0..PoolContexts
  /\ faults \in Nat

\* The rest of it.
DataOK ==
  /\ buf \in [Requests -> [1..MaxSectors -> Payload]]
  /\ good \in [Requests -> Nat]
  /\ page \in [Chunks -> [1..BlocksPerChunk -> Sector]]
  /\ store \in [Disks -> [Blocks -> Sector]]

LEMMA TypeParts == TypeOK <=> ControlOK /\ DataOK
  BY DEF TypeOK, ControlOK, DataOK

\* Where a command is being executed, or has been and not been disposed of.
OnDevice == {"issued", "replied", "done", "requeued"}

(***************************************************************************)
(* What a request holds, by where it is.                                   *)
(***************************************************************************)
HoldingOf(r) ==
  /\ pc[r] \in {"idle", "queued", "completed"} => ~ctx[r]
  /\ ~ctx[r] => chunks[r] = <<>>
  /\ Len(chunks[r]) <= MaxChunks
  /\ pc[r] = "alloc" => ctx[r] /\ ~TooLong(r) /\ Len(chunks[r]) <= Need(r)
  /\ pc[r] \in OnDevice /\ ctx[r] => Len(chunks[r]) = Need(r)
  /\ pc[r] \in OnDevice /\ sdb[r] = "bounce" => ctx[r]

Holding == \A r \in Requests : HoldingOf(r)

-----------------------------------------------------------------------------
(***************************************************************************)
(* Facts about one request.                                                *)
(***************************************************************************)
LEMMA PositiveLength ==
  ASSUME NEW m \in Nat, NEW n \in 1..m
  PROVE  n \in Nat \ {0}
  OBVIOUS

LEMMA ShapeFacts ==
  ASSUME ControlOK, NEW r \in Requests
  PROVE  /\ rq[r].op \in Operations
         /\ rq[r].disk \in Disks
         /\ rq[r].lba \in Nat
         /\ rq[r].len \in 1..MaxSectors
         /\ rq[r].len \in Nat \ {0}
         /\ Need(r) \in Nat \ {0}
         /\ \A i \in Offsets(r) : Block(r, i) \in Blocks
<1>1. rq[r] \in Shapes
  BY DEF ControlOK
<1>2. rq[r] \in [op : Operations, disk : Disks, lba : Blocks, len : 1..MaxSectors]
  BY <1>1, EmulationAssumption
<1>3. \A i \in 1..rq[r].len : rq[r].lba + i - 1 \in Blocks
  BY <1>1, EmulationAssumption
<1>4. /\ rq[r].op \in Operations /\ rq[r].disk \in Disks
      /\ rq[r].lba \in Blocks /\ rq[r].len \in 1..MaxSectors
  BY <1>2
<1>5. Blocks \subseteq Nat /\ MaxSectors \in Nat
  BY EmulationAssumption
<1>6. rq[r].len \in Nat \ {0} /\ rq[r].lba \in Nat
  <2>1. rq[r].len \in Nat \ {0}
    BY <1>4, <1>5, PositiveLength
  <2>2. rq[r].lba \in Nat
    BY <1>4, <1>5
  <2> QED
    BY <2>1, <2>2
<1>7. Need(r) \in Nat \ {0}
  BY <1>6, ChunksPositive DEF Need
<1>8. \A i \in Offsets(r) : Block(r, i) \in Blocks
  BY <1>3 DEF Offsets, Block
<1> QED
  BY <1>4, <1>6, <1>7, <1>8

LEMMA NeedFitsContext ==
  ASSUME ControlOK, NEW r \in Requests, ~TooLong(r)
  PROVE  Need(r) <= MaxChunks
<1>1. rq[r].len \in Nat /\ MaxHostSectors \in Nat
  BY ShapeFacts, GeometryAssumption
<1>2. rq[r].len <= MaxHostSectors
  BY <1>1 DEF TooLong
<1> QED
  BY <1>1, <1>2, ChunksFitContext DEF Need

\* The place of a device sector in the bounce chunks of a prepared request.
LEMMA PlaceFacts ==
  ASSUME ControlOK, NEW r \in Requests, Len(chunks[r]) = Need(r),
         NEW i \in Offsets(r)
  PROVE  /\ ((i - 1) \div BlocksPerChunk) + 1 \in 1..Len(chunks[r])
         /\ ChunkOf(r, i) \in Chunks
         /\ SlotOf(i) \in 1..BlocksPerChunk
<1> DEFINE n == rq[r].len
           d == BlocksPerChunk
           q == (i - 1) \div d
           m == Need(r)
<1>1. n \in Nat \ {0} /\ m \in Nat \ {0} /\ i \in Nat \ {0} /\ i <= n
  BY ShapeFacts DEF Offsets
<1>2. d \in Nat \ {0}
  BY BlocksPerChunkPositive
<1>3. n <= d * m
  BY <1>1, ChunksCoverBlocks DEF Need
<1>4. q \in Nat /\ d * q <= i - 1
  BY <1>1, <1>2, DivFacts
<1>5. (i - 1) % d \in 0..(d - 1)
  BY <1>1, <1>2
<1> HIDE DEF n, d, q, m
<1>6. q < m
  <2>1. ASSUME q >= m PROVE FALSE
    <3>1. d * m <= d * q
      BY <1>1, <1>2, <1>4, <2>1
    <3>2. d * m \in Nat /\ d * q \in Nat
      BY <1>1, <1>2, <1>4
    <3> QED
      BY <1>1, <1>3, <1>4, <3>1, <3>2
  <2> QED
    BY <1>1, <1>4, <2>1
<1>7. q + 1 \in 1..m
  BY <1>1, <1>4, <1>6
<1>8. chunks[r] \in Seq(Chunks) /\ Len(chunks[r]) = m
  BY DEF ControlOK, m
<1>9. chunks[r][q + 1] \in Chunks
  BY <1>7, <1>8
<1>10. SlotOf(i) \in 1..d
  BY <1>2, <1>5 DEF SlotOf, d
<1> QED
  BY <1>7, <1>8, <1>9, <1>10 DEF ChunkOf, q, d

LEMMA LengthFacts ==
  ASSUME ControlOK, NEW r \in Requests
  PROVE  /\ host_len(r) \in Nat /\ dev_len(r) \in Nat
         /\ good_bytes(r) \in Nat
<1>1. rq[r].len \in Nat /\ xfer[r] \in Nat
  BY ShapeFacts, EmulationAssumption DEF ControlOK
<1>2. HostSectorSize \in Nat /\ DevSectorSize \in Nat
  BY GeometryAssumption
<1>3. host_len(r) \in Nat /\ dev_len(r) \in Nat
  BY <1>1, <1>2 DEF host_len, dev_len
<1>4. xfer[r] * HostSectorSize \in Nat
  BY <1>1, <1>2
<1>5. scsi_bufflen(r) \in Nat
  BY <1>3 DEF scsi_bufflen
<1>6. good_bytes(r) \in Nat
  BY <1>4, <1>5 DEF good_bytes
<1> QED
  BY <1>3, <1>6

-----------------------------------------------------------------------------
(***************************************************************************)
(* The control of the requests stays well typed.                           *)
(***************************************************************************)
LEMMA ControlInit == Init => ControlOK
<1> SUFFICES ASSUME Init PROVE ControlOK
  OBVIOUS
<1>1. <<>> \in Seq(Chunks)
  OBVIOUS
<1>2. PoolContexts \in 0..PoolContexts /\ 0 \in 0..MaxSectors
  BY GeometryAssumption, EmulationAssumption
<1> QED
  BY <1>1, <1>2 DEF Init, ControlOK, Statuses, Locations, Replies

LEMMA ControlNext == ControlOK /\ [Next]_vars => ControlOK'
<1> SUFFICES ASSUME ControlOK, [Next]_vars PROVE ControlOK'
  OBVIOUS
<1> USE DEF ControlOK, Locations, Statuses, pools, device
<1>1. ASSUME NEW r \in Requests, Submit(r) PROVE ControlOK'
  BY <1>1 DEF Submit
<1>2. ASSUME NEW r \in Requests, setup_not_emulated(r) PROVE ControlOK'
  BY <1>2 DEF setup_not_emulated
<1>3. ASSUME NEW r \in Requests, prepare_refused(r) PROVE ControlOK'
  BY <1>3 DEF prepare_refused
<1>4. ASSUME NEW r \in Requests, prepare_context(r) PROVE ControlOK'
  <2>1. ctxFree' \in 0..PoolContexts
    BY <1>4, GeometryAssumption DEF prepare_context
  <2> QED
    BY <1>4, <2>1 DEF prepare_context
<1>5. ASSUME NEW r \in Requests, alloc_chunk(r) PROVE ControlOK'
  <2>1. PICK c \in reserve : /\ chunks' = [chunks EXCEPT ![r] = Append(@, c)]
                             /\ reserve' = reserve \ {c}
    BY <1>5 DEF alloc_chunk
  <2>2. Append(chunks[r], c) \in Seq(Chunks)
    OBVIOUS
  <2> QED
    BY <1>5, <2>1, <2>2 DEF alloc_chunk
<1>6. ASSUME NEW r \in Requests, alloc_refused(r) PROVE ControlOK'
  BY <1>6 DEF alloc_refused
<1>7. ASSUME NEW r \in Requests, prepare_issue(r) PROVE ControlOK'
  BY <1>7 DEF prepare_issue
<1>8. ASSUME NEW r \in Requests, move_bounced(r) \/ move_raw(r) PROVE ControlOK'
  <2>1. xfer[r] < rq[r].len /\ xfer' = [xfer EXCEPT ![r] = xfer[r] + 1]
    BY <1>8 DEF move_bounced, move_raw
  <2>2. xfer[r] + 1 \in 0..MaxSectors
    BY <2>1, ShapeFacts, EmulationAssumption
  <2> QED
    BY <1>8, <2>1, <2>2 DEF move_bounced, move_raw
<1>9. ASSUME NEW r \in Requests, reply_good(r) PROVE ControlOK'
  BY <1>9 DEF reply_good, Replies
<1>10. ASSUME NEW r \in Requests, reply_soft(r) PROVE ControlOK'
  BY <1>10, EmulationAssumption DEF reply_soft
<1>11. ASSUME NEW r \in Requests, reply_fault(r) PROVE ControlOK'
  <2>1. \E f \in Replies : reply' = [reply EXCEPT ![r] = f]
    BY <1>11, EmulationAssumption DEF reply_fault, Replies, FaultKinds
  <2>2. faults' \in Nat
    BY <1>11 DEF reply_fault
  <2>3. reply' \in [Requests -> Replies]
    BY <2>1
  <2> QED
    BY <1>11, <2>2, <2>3 DEF reply_fault
<1>12. ASSUME NEW r \in Requests, redispatch(r) PROVE ControlOK'
  BY <1>12 DEF redispatch
<1>13. ASSUME NEW r \in Requests, sd_done(r) PROVE ControlOK'
  <2>1. sdb' \in [Requests -> {"host", "bounce"}]
    BY <1>13 DEF sd_done
  <2> QED
    BY <1>13, <2>1 DEF sd_done
<1>14. ASSUME NEW r \in Requests, end_request(r) \/ fail_request(r) PROVE ControlOK'
  BY <1>14 DEF end_request, fail_request
<1>15. ASSUME NEW r \in Requests, prepare_again(r) \/ retry_command(r)
       PROVE  ControlOK'
  <2>1. 0 \in 0..MaxSectors
    BY EmulationAssumption
  <2>2. /\ xfer' = [xfer EXCEPT ![r] = 0]
        /\ \E l \in Locations : pc' = [pc EXCEPT ![r] = l]
    BY <1>15 DEF prepare_again, retry_command
  <2>3. UNCHANGED <<from528, rescans, rq, status, ctx, chunks, sdb, reply,
                    reserve, ctxFree, faults>>
    BY <1>15 DEF prepare_again, retry_command
  <2> QED
    BY <2>1, <2>2, <2>3
<1>16. ASSUME NEW r \in Requests, release_chunk(r) PROVE ControlOK'
  <2>1. chunks[r] # <<>> /\ chunks[r] \in Seq(Chunks)
    BY <1>16 DEF release_chunk
  <2>2. Head(chunks[r]) \in Chunks /\ Tail(chunks[r]) \in Seq(Chunks)
    BY <2>1
  <2> QED
    BY <1>16, <2>2 DEF release_chunk
<1>17. ASSUME NEW r \in Requests, release_ctx(r) PROVE ControlOK'
  <2>1. ctxFree' \in 0..PoolContexts
    BY <1>17, GeometryAssumption DEF release_ctx
  <2>2. 0 \in 0..MaxSectors
    BY EmulationAssumption
  <2> QED
    BY <1>17, <2>1, <2>2 DEF release_ctx
<1>18. ASSUME NEW d \in Disks, rescan_clear(d) \/ rescan_set(d) PROVE ControlOK'
  <2>1. /\ \E b \in BOOLEAN : from528' = [from528 EXCEPT ![d] = b]
        /\ rescans' = rescans \/ rescans' = rescans + 1
    BY <1>18 DEF rescan_clear, rescan_set
  <2>2. UNCHANGED <<rq, status, pc, ctx, chunks, sdb, xfer, reply, reserve,
                    ctxFree, faults>>
    BY <1>18 DEF rescan_clear, rescan_set
  <2> QED
    BY <2>1, <2>2
<1>19. CASE UNCHANGED vars
  BY <1>19 DEF vars
<1> QED
  BY <1>1, <1>2, <1>3, <1>4, <1>5, <1>6, <1>7, <1>8, <1>9, <1>10, <1>11,
     <1>12, <1>13, <1>14, <1>15, <1>16, <1>17, <1>18, <1>19
  DEF Next, Advance, AllAnswered

-----------------------------------------------------------------------------
(***************************************************************************)
(* What a request holds fits its place.                                    *)
(***************************************************************************)
LEMMA HoldingInit == Init => Holding
<1> SUFFICES ASSUME Init, NEW r \in Requests PROVE HoldingOf(r)
  BY DEF Holding
<1>1. pc[r] = "idle" /\ ~ctx[r] /\ chunks[r] = <<>> /\ sdb[r] = "host"
  BY DEF Init
<1>2. 0 <= MaxChunks
  BY GeometryAssumption, BlocksPerChunkPositive, RoundUpFacts DEF MaxChunks, DivRoundUp
<1> QED
  BY <1>1, <1>2 DEF HoldingOf, OnDevice

\* A step of one request leaves the others as they are.
Untouched(s) ==
  /\ rq' = rq
  /\ pc'[s] = pc[s] /\ ctx'[s] = ctx[s]
  /\ chunks'[s] = chunks[s] /\ sdb'[s] = sdb[s]

LEMMA UntouchedKeeps ==
  ASSUME NEW s \in Requests, HoldingOf(s), Untouched(s)
  PROVE  HoldingOf(s)'
BY DEF HoldingOf, Untouched, TooLong, Need, OnDevice

LEMMA OthersUntouched ==
  ASSUME ControlOK, NEW r \in Requests, Submit(r) \/ Advance(r),
         NEW s \in Requests \ {r}
  PROVE  Untouched(s)
<1> USE DEF ControlOK, Untouched, pools, device
<1>1. CASE Submit(r) \/ setup_not_emulated(r) \/ prepare_refused(r)
           \/ prepare_context(r) \/ alloc_refused(r) \/ prepare_issue(r)
  BY <1>1 DEF Submit, setup_not_emulated, prepare_refused, prepare_context,
              alloc_refused, prepare_issue
<1>2. CASE alloc_chunk(r)
  BY <1>2 DEF alloc_chunk
<1>3. CASE move_bounced(r) \/ move_raw(r) \/ reply_good(r) \/ reply_soft(r)
           \/ reply_fault(r) \/ redispatch(r)
  BY <1>3 DEF move_bounced, move_raw, reply_good, reply_soft, reply_fault,
              redispatch
<1>4. CASE sd_done(r)
  BY <1>4 DEF sd_done
<1>5. CASE end_request(r) \/ prepare_again(r) \/ fail_request(r)
           \/ retry_command(r)
  BY <1>5 DEF end_request, prepare_again, fail_request, retry_command
<1>6. CASE release_chunk(r) \/ release_ctx(r)
  BY <1>6 DEF release_chunk, release_ctx
<1> QED
  BY <1>1, <1>2, <1>3, <1>4, <1>5, <1>6 DEF Advance

LEMMA OwnStep ==
  ASSUME ControlOK, NEW r \in Requests, HoldingOf(r), Submit(r) \/ Advance(r)
  PROVE  HoldingOf(r)'
<1> DEFINE Same == rq' = rq /\ ctx'[r] = ctx[r] /\ chunks'[r] = chunks[r]
<1>1. rq' = rq => (TooLong(r)' <=> TooLong(r)) /\ Need(r)' = Need(r)
  BY DEF TooLong, Need
<1>2. Need(r) \in Nat \ {0}
  BY ShapeFacts
<1>3. MaxChunks \in Nat
  BY GeometryAssumption, BlocksPerChunkPositive, RoundUpFacts DEF MaxChunks, DivRoundUp
<1>4. CASE Submit(r) \/ prepare_refused(r)
  <2>1. Same /\ sdb'[r] = sdb[r] /\ pc[r] \in {"idle", "queued"}
             /\ pc'[r] \in {"queued", "completed"}
    BY <1>4 DEF Submit, prepare_refused, ControlOK, pools, device
  <2> QED
    BY <2>1, <1>1 DEF HoldingOf, OnDevice
<1>5. CASE setup_not_emulated(r)
  <2>1. Same /\ sdb'[r] = "host" /\ pc[r] = "queued" /\ pc'[r] = "issued"
    BY <1>5 DEF setup_not_emulated, ControlOK, pools, device
  <2> QED
    BY <2>1, <1>1 DEF HoldingOf, OnDevice
<1>6. CASE prepare_context(r)
  <2>1. /\ rq' = rq /\ chunks'[r] = chunks[r] /\ ctx'[r]
        /\ pc[r] = "queued" /\ pc'[r] = "alloc" /\ ~TooLong(r)
    BY <1>6 DEF prepare_context, ControlOK, device
  <2>2. Len(chunks[r]) = 0
    BY <2>1 DEF HoldingOf
  <2> QED
    BY <2>1, <2>2, <1>1, <1>2, <1>3 DEF HoldingOf, OnDevice
<1>7. CASE alloc_chunk(r)
  <2>1. PICK c \in reserve : chunks' = [chunks EXCEPT ![r] = Append(@, c)]
    BY <1>7 DEF alloc_chunk
  <2>2. /\ pc[r] = "alloc" /\ pc' = pc /\ ctx' = ctx /\ rq' = rq /\ sdb' = sdb
        /\ Len(chunks[r]) < Need(r)
    BY <1>7 DEF alloc_chunk
  <2>3. chunks'[r] = Append(chunks[r], c) /\ chunks[r] \in Seq(Chunks) /\ c \in Chunks
    BY <2>1 DEF ControlOK
  <2>4. Len(chunks'[r]) = Len(chunks[r]) + 1
    BY <2>3
  <2>5. ~TooLong(r) /\ ctx[r]
    BY <2>2 DEF HoldingOf
  <2>6. Need(r) <= MaxChunks
    BY <2>5, NeedFitsContext
  <2>7. Len(chunks[r]) \in Nat
    BY <2>3
  <2>8. Len(chunks'[r]) <= Need(r) /\ Len(chunks'[r]) <= MaxChunks
    BY <2>2, <2>4, <2>6, <2>7, <1>2, <1>3
  <2> QED
    BY <2>2, <2>5, <2>8, <1>1 DEF HoldingOf, OnDevice
<1>8. CASE alloc_refused(r)
  <2>1. Same /\ sdb'[r] = sdb[r] /\ pc[r] = "alloc" /\ pc'[r] = "backout"
    BY <1>8 DEF alloc_refused, ControlOK, pools, device
  <2> QED
    BY <2>1, <1>1 DEF HoldingOf, OnDevice
<1>9. CASE prepare_issue(r)
  <2>1. Same /\ pc[r] = "alloc" /\ pc'[r] = "issued" /\ Len(chunks[r]) = Need(r)
    BY <1>9 DEF prepare_issue, ControlOK, pools, device
  <2> QED
    BY <2>1, <1>1 DEF HoldingOf, OnDevice
<1>10. CASE move_bounced(r) \/ move_raw(r) \/ reply_good(r) \/ reply_soft(r)
            \/ reply_fault(r) \/ redispatch(r) \/ retry_command(r)
  <2>1. /\ Same /\ sdb'[r] = sdb[r]
        /\ pc[r] \in {"issued", "requeued", "done"}
        /\ pc'[r] \in {"issued", "replied", "requeued"}
    BY <1>10 DEF move_bounced, move_raw, reply_good, reply_soft, reply_fault,
                 redispatch, retry_command, ControlOK, pools, device
  <2> QED
    BY <2>1, <1>1 DEF HoldingOf, OnDevice
<1>11. CASE sd_done(r)
  <2>1. /\ Same /\ sdb'[r] \in {sdb[r], "host"}
        /\ pc[r] = "replied" /\ pc'[r] = "done"
    BY <1>11 DEF sd_done, ControlOK, pools, device
  <2> QED
    BY <2>1, <1>1 DEF HoldingOf, OnDevice
<1>12. CASE end_request(r) \/ prepare_again(r) \/ fail_request(r)
  <2>1. Same /\ pc[r] = "done" /\ pc'[r] = "uninit"
    BY <1>12 DEF end_request, prepare_again, fail_request, ControlOK, pools, device
  <2> QED
    BY <2>1, <1>1 DEF HoldingOf, OnDevice
<1>13. CASE release_chunk(r)
  <2>1. /\ pc[r] \in {"backout", "uninit"} /\ pc' = pc /\ ctx' = ctx
        /\ rq' = rq /\ sdb' = sdb
        /\ chunks[r] # <<>> /\ chunks'[r] = Tail(chunks[r])
        /\ chunks[r] \in Seq(Chunks)
    BY <1>13 DEF release_chunk, ControlOK, device
  <2>2. Len(chunks'[r]) = Len(chunks[r]) - 1 /\ Len(chunks[r]) \in Nat
    BY <2>1
  <2>3. ctx[r]
    BY <2>1 DEF HoldingOf
  <2>4. Len(chunks'[r]) <= MaxChunks
    BY <2>2, <1>3 DEF HoldingOf
  <2> QED
    BY <2>1, <2>3, <2>4 DEF HoldingOf, OnDevice
<1>14. CASE release_ctx(r)
  <2>1. /\ chunks'[r] = chunks[r] /\ chunks[r] = <<>> /\ ~ctx'[r]
        /\ pc'[r] \in {"queued", "completed"}
    BY <1>14 DEF release_ctx, ControlOK, device
  <2> QED
    BY <2>1 DEF HoldingOf, OnDevice
<1> QED
  BY <1>4, <1>5, <1>6, <1>7, <1>8, <1>9, <1>10, <1>11, <1>12, <1>13, <1>14
  DEF Advance

LEMMA HoldingNext == ControlOK /\ Holding /\ [Next]_vars => Holding'
<1> SUFFICES ASSUME ControlOK, Holding, [Next]_vars, NEW s \in Requests
             PROVE  HoldingOf(s)'
  BY DEF Holding
<1>1. HoldingOf(s)
  BY DEF Holding
<1>2. ASSUME NEW r \in Requests, Submit(r) \/ Advance(r) PROVE HoldingOf(s)'
  <2>1. CASE s = r
    BY <1>1, <1>2, <2>1, OwnStep
  <2>2. CASE s # r
    BY <1>1, <1>2, <2>2, OthersUntouched, UntouchedKeeps
  <2> QED
    BY <2>1, <2>2
<1>3. CASE (\E d \in Disks : rescan_clear(d) \/ rescan_set(d)) \/ UNCHANGED vars
  <2>1. Untouched(s)
    BY <1>3 DEF rescan_clear, rescan_set, vars, Untouched
  <2> QED
    BY <1>1, <2>1, UntouchedKeeps
<1> QED
  BY <1>2, <1>3 DEF Next, AllAnswered

-----------------------------------------------------------------------------
(***************************************************************************)
(* The chunks.                                                             *)
(***************************************************************************)
Takes(r, c) ==
  /\ c \in reserve
  /\ chunks' = [chunks EXCEPT ![r] = Append(@, c)]
  /\ reserve' = reserve \ {c}

GivesBack(r) ==
  /\ chunks[r] # <<>>
  /\ chunks' = [chunks EXCEPT ![r] = Tail(@)]
  /\ reserve' = reserve \cup {Head(chunks[r])}

LEMMA ChunkMoves ==
  ASSUME [Next]_vars
  PROVE  \/ UNCHANGED <<chunks, reserve>>
         \/ \E r \in Requests : GivesBack(r) \/ \E c \in reserve : Takes(r, c)
<1>1. ASSUME NEW r \in Requests, alloc_chunk(r)
      PROVE  \E c \in reserve : Takes(r, c)
  BY <1>1 DEF alloc_chunk, Takes
<1>2. ASSUME NEW r \in Requests, release_chunk(r) PROVE GivesBack(r)
  BY <1>2 DEF release_chunk, GivesBack
<1>3. ASSUME NEW r \in Requests, Submit(r) \/ Advance(r), ~alloc_chunk(r), ~release_chunk(r)
      PROVE  UNCHANGED <<chunks, reserve>>
  BY <1>3 DEF Advance, Submit, setup_not_emulated, prepare_refused,
     prepare_context, alloc_refused, prepare_issue, move_bounced, move_raw,
     reply_good, reply_soft, reply_fault, redispatch, sd_done, end_request,
     prepare_again, fail_request, retry_command, release_ctx, pools
<1>4. CASE (\E d \in Disks : rescan_clear(d) \/ rescan_set(d)) \/ UNCHANGED vars
  BY <1>4 DEF rescan_clear, rescan_set, vars, pools
<1> QED
  BY <1>1, <1>2, <1>3, <1>4 DEF Next, Advance, AllAnswered

LEMMA HeldOnce ==
  ASSUME ChunksConserved, NEW s \in Requests, NEW t \in Requests,
         NEW k \in 1..Len(chunks[s]), NEW l \in 1..Len(chunks[t]),
         chunks[s][k] = chunks[t][l]
  PROVE  s = t /\ k = l
BY DEF ChunksConserved, NoChunkShared

LEMMA TakingConserves ==
  ASSUME ControlOK, ChunksConserved, NEW r \in Requests, NEW c, Takes(r, c)
  PROVE  ChunksConserved'
<1>1. /\ chunks[r] \in Seq(Chunks) /\ c \in Chunks
      /\ \A s \in Requests : chunks[s] \in Seq(Chunks)
  BY DEF ControlOK, Takes
<1> DEFINE n == Len(chunks[r])
<1>2. n \in Nat /\ Len(Append(chunks[r], c)) = n + 1
      /\ Append(chunks[r], c)[n + 1] = c
      /\ \A k \in 1..n : Append(chunks[r], c)[k] = chunks[r][k]
  BY <1>1
<1>3. /\ chunks'[r] = Append(chunks[r], c)
      /\ \A s \in Requests \ {r} : chunks'[s] = chunks[s]
  BY DEF Takes, ControlOK
<1>4. ASSUME NEW s \in Requests, NEW k \in 1..Len(chunks'[s])
      PROVE  \/ k \in 1..Len(chunks[s]) /\ chunks'[s][k] = chunks[s][k]
             \/ s = r /\ k = n + 1 /\ chunks'[s][k] = c
  <2>1. CASE s = r
    <3>1. k \in 1..(n + 1)
      BY <1>2, <1>3, <2>1
    <3>2. k = n + 1 \/ k \in 1..n
      BY <1>2, <3>1
    <3> QED
      BY <1>2, <1>3, <2>1, <3>2
  <2>2. CASE s # r
    BY <1>3, <2>2
  <2> QED
    BY <2>1, <2>2
<1>5. ASSUME NEW s \in Requests, NEW k \in 1..Len(chunks[s])
      PROVE  /\ k \in 1..Len(chunks'[s]) /\ chunks'[s][k] = chunks[s][k]
             /\ chunks[s][k] # c
  <2>1. k \in 1..Len(chunks'[s]) /\ chunks'[s][k] = chunks[s][k]
    BY <1>2, <1>3
  <2>2. chunks[s][k] # c
    BY DEF ChunksConserved, NoChunkHeldIsFree, Takes
  <2> QED
    BY <2>1, <2>2
<1>6. NoChunkShared'
  <2> SUFFICES ASSUME NEW s \in Requests, NEW t \in Requests,
                      NEW k \in 1..Len(chunks'[s]), NEW l \in 1..Len(chunks'[t]),
                      chunks'[s][k] = chunks'[t][l]
               PROVE  s = t /\ k = l
    BY DEF NoChunkShared
  <2>1. CASE k \in 1..Len(chunks[s]) /\ chunks'[s][k] = chunks[s][k]
    <3>1. l \in 1..Len(chunks[t]) /\ chunks'[t][l] = chunks[t][l]
      <4>1. chunks[s][k] # c
        BY <1>5, <2>1
      <4> QED
        BY <1>4, <2>1, <4>1
    <3>2. chunks[s][k] = chunks[t][l]
      BY <2>1, <3>1
    <3> QED
      BY <2>1, <3>1, <3>2, HeldOnce
  <2>2. CASE s = r /\ k = n + 1 /\ chunks'[s][k] = c
    <3>1. t = r /\ l = n + 1
      BY <1>4, <1>5, <2>2
    <3> QED
      BY <2>2, <3>1
  <2> QED
    BY <1>4, <2>1, <2>2
<1>7. NoChunkHeldIsFree'
  <2> SUFFICES ASSUME NEW s \in Requests, NEW k \in 1..Len(chunks'[s])
               PROVE  chunks'[s][k] \notin reserve'
    BY DEF NoChunkHeldIsFree
  <2> QED
    BY <1>4 DEF ChunksConserved, NoChunkHeldIsFree, Takes
<1>8. NoChunkLost'
  <2> SUFFICES ASSUME NEW e \in Chunks, e \notin reserve'
               PROVE  \E s \in Requests : \E k \in 1..Len(chunks'[s]) : chunks'[s][k] = e
    BY DEF NoChunkLost
  <2>1. CASE e = c
    <3>1. n + 1 \in 1..Len(chunks'[r]) /\ chunks'[r][n + 1] = c
      BY <1>2, <1>3
    <3> QED
      BY <2>1, <3>1
  <2>2. CASE e # c
    <3>1. PICK s \in Requests : \E k \in 1..Len(chunks[s]) : chunks[s][k] = e
      BY <2>2 DEF ChunksConserved, NoChunkLost, Takes
    <3> QED
      BY <1>5, <3>1
  <2> QED
    BY <2>1, <2>2
<1> QED
  BY <1>6, <1>7, <1>8 DEF ChunksConserved

LEMMA GivingBackConserves ==
  ASSUME ControlOK, ChunksConserved, NEW r \in Requests, GivesBack(r)
  PROVE  ChunksConserved'
<1>1. chunks[r] \in Seq(Chunks) /\ chunks[r] # <<>>
  BY DEF ControlOK, GivesBack
<1> DEFINE n == Len(chunks[r])
           h == chunks[r][1]
<1>2. /\ n \in Nat \ {0} /\ Head(chunks[r]) = h /\ Len(Tail(chunks[r])) = n - 1
      /\ \A k \in 1..(n - 1) : Tail(chunks[r])[k] = chunks[r][k + 1]
  BY <1>1
<1>3. /\ chunks'[r] = Tail(chunks[r])
      /\ \A s \in Requests \ {r} : chunks'[s] = chunks[s]
      /\ reserve' = reserve \cup {h}
  BY <1>2 DEF GivesBack, ControlOK
<1> HIDE DEF h
\* Where a chunk was held that is held now at place k of request s.
<1> DEFINE Was(s, k) == IF s = r THEN k + 1 ELSE k
<1>4. ASSUME NEW s \in Requests, NEW k \in 1..Len(chunks'[s])
      PROVE  /\ Was(s, k) \in 1..Len(chunks[s])
             /\ chunks'[s][k] = chunks[s][Was(s, k)]
             /\ s = r => Was(s, k) # 1
  <2>1. CASE s = r
    <3>1. k \in 1..(n - 1)
      BY <1>2, <1>3, <2>1
    <3>2. k + 1 \in 1..n /\ k + 1 # 1
      BY <1>2, <3>1
    <3> QED
      BY <1>2, <1>3, <2>1, <3>1, <3>2
  <2>2. CASE s # r
    BY <1>3, <2>2
  <2> QED
    BY <2>1, <2>2
<1>5. 1 \in 1..Len(chunks[r]) /\ chunks[r][1] = h
  BY <1>2 DEF h
<1>6. ASSUME NEW s \in Requests, NEW k \in 1..Len(chunks'[s])
      PROVE  chunks'[s][k] # h
  BY <1>4, <1>5, <1>6 DEF ChunksConserved, NoChunkShared
<1>7. NoChunkShared'
  <2> SUFFICES ASSUME NEW s \in Requests, NEW t \in Requests,
                      NEW k \in 1..Len(chunks'[s]), NEW l \in 1..Len(chunks'[t]),
                      chunks'[s][k] = chunks'[t][l]
               PROVE  s = t /\ k = l
    BY DEF NoChunkShared
  <2> HIDE DEF Was
  <2>0. /\ Was(s, k) \in 1..Len(chunks[s]) /\ Was(t, l) \in 1..Len(chunks[t])
        /\ chunks[s][Was(s, k)] = chunks[t][Was(t, l)]
    BY <1>4
  <2>1. s = t /\ Was(s, k) = Was(t, l)
    BY <2>0, HeldOnce
  <2> USE DEF Was
  <2>2. k \in Int /\ l \in Int
    OBVIOUS
  <2> QED
    BY <2>1, <2>2
<1>8. NoChunkHeldIsFree'
  <2> SUFFICES ASSUME NEW s \in Requests, NEW k \in 1..Len(chunks'[s])
               PROVE  chunks'[s][k] \notin reserve'
    BY DEF NoChunkHeldIsFree
  <2>1. chunks'[s][k] \notin reserve
    BY <1>4 DEF ChunksConserved, NoChunkHeldIsFree
  <2> QED
    BY <1>3, <1>6, <2>1
<1>9. NoChunkLost'
  <2> SUFFICES ASSUME NEW e \in Chunks, e \notin reserve'
               PROVE  \E s \in Requests : \E k \in 1..Len(chunks'[s]) : chunks'[s][k] = e
    BY DEF NoChunkLost
  <2> PICK s \in Requests : \E k \in 1..Len(chunks[s]) : chunks[s][k] = e
    BY <1>3 DEF ChunksConserved, NoChunkLost
  <2>1. PICK k \in 1..Len(chunks[s]) : chunks[s][k] = e
    OBVIOUS
  <2>2. CASE s = r
    <3>1. k # 1 /\ k \in 1..n
      BY <1>3, <2>1, <2>2 DEF h
    <3>2. k - 1 \in 1..(n - 1) /\ (k - 1) + 1 = k
      BY <1>2, <3>1
    <3>3. k - 1 \in 1..Len(chunks'[r]) /\ chunks'[r][k - 1] = e
      BY <1>2, <1>3, <2>1, <2>2, <3>2
    <3> QED
      BY <3>3
  <2>3. CASE s # r
    BY <1>3, <2>1, <2>3
  <2> QED
    BY <2>2, <2>3
<1> QED
  BY <1>7, <1>8, <1>9 DEF ChunksConserved

LEMMA ChunksInit == Init => ChunksConserved
<1> SUFFICES ASSUME Init PROVE ChunksConserved
  OBVIOUS
<1>1. \A r \in Requests : Len(chunks[r]) = 0
  BY DEF Init
<1>2. reserve = Chunks
  BY DEF Init
<1> QED
  BY <1>1, <1>2 DEF ChunksConserved, NoChunkShared, NoChunkHeldIsFree, NoChunkLost

LEMMA ChunksNext == ControlOK /\ ChunksConserved /\ [Next]_vars => ChunksConserved'
<1> SUFFICES ASSUME ControlOK, ChunksConserved, [Next]_vars PROVE ChunksConserved'
  OBVIOUS
<1>1. CASE UNCHANGED <<chunks, reserve>>
  BY <1>1 DEF ChunksConserved, NoChunkShared, NoChunkHeldIsFree, NoChunkLost
<1> QED
  BY <1>1, ChunkMoves, TakingConserves, GivingBackConserves

-----------------------------------------------------------------------------
(***************************************************************************)
(* The contexts.  No assumption makes Requests finite: finitely many hold  *)
(* a context because they take them one by one.                            *)
(***************************************************************************)
Holders == {r \in Requests : ctx[r]}
ContextsCounted == IsFiniteSet(Holders) /\ ContextsConserved

LEMMA ContextMoves ==
  ASSUME [Next]_vars
  PROVE  \/ UNCHANGED <<ctx, ctxFree>>
         \/ \E r \in Requests : prepare_context(r) \/ release_ctx(r)
<1>1. ASSUME NEW r \in Requests, Submit(r) \/ Advance(r),
             ~prepare_context(r), ~release_ctx(r)
      PROVE  UNCHANGED <<ctx, ctxFree>>
  BY <1>1 DEF Advance, Submit, setup_not_emulated, prepare_refused,
     alloc_chunk, alloc_refused, prepare_issue, move_bounced, move_raw,
     reply_good, reply_soft, reply_fault, redispatch, sd_done, end_request,
     prepare_again, fail_request, retry_command, release_chunk, pools
<1>2. CASE (\E d \in Disks : rescan_clear(d) \/ rescan_set(d)) \/ UNCHANGED vars
  BY <1>2 DEF rescan_clear, rescan_set, vars, pools
<1> QED
  BY <1>1, <1>2 DEF Next, AllAnswered

LEMMA ContextsInit == Init => ContextsCounted
<1> SUFFICES ASSUME Init PROVE ContextsCounted
  OBVIOUS
<1>1. Holders = {}
  BY DEF Init, Holders
<1>2. ctxFree = PoolContexts
  BY DEF Init
<1>3. IsFiniteSet({}) /\ Cardinality({}) = 0
  BY FS_EmptySet
<1> QED
  BY <1>1, <1>2, <1>3, GeometryAssumption
  DEF ContextsCounted, ContextsConserved, Holders

LEMMA ContextsNext ==
  ControlOK /\ Holding /\ ContextsCounted /\ [Next]_vars => ContextsCounted'
<1> SUFFICES ASSUME ControlOK, Holding, ContextsCounted, [Next]_vars
             PROVE  ContextsCounted'
  OBVIOUS
<1>1. /\ IsFiniteSet(Holders) /\ Cardinality(Holders) \in Nat
      /\ PoolContexts - ctxFree <= Cardinality(Holders)
      /\ PoolContexts \in Nat /\ ctxFree \in 0..PoolContexts
  BY FS_CardinalityType, GeometryAssumption
  DEF ContextsCounted, ContextsConserved, Holders, ControlOK
<1>2. ASSUME NEW r \in Requests, prepare_context(r) PROVE ContextsCounted'
  <2>1. r \notin Holders
    BY <1>2 DEF prepare_context, Holding, HoldingOf, Holders
  <2>2. Holders' = Holders \cup {r}
    BY <1>2 DEF prepare_context, Holders, ControlOK
  <2>3. IsFiniteSet(Holders') /\ Cardinality(Holders') = Cardinality(Holders) + 1
    BY <1>1, <2>1, <2>2, FS_AddElement
  <2>4. ctxFree' \in {ctxFree, ctxFree - 1}
    BY <1>2 DEF prepare_context
  <2>5. PoolContexts - ctxFree' <= Cardinality(Holders')
    BY <1>1, <2>3, <2>4
  <2> QED
    BY <2>3, <2>5 DEF ContextsCounted, ContextsConserved, Holders
<1>3. ASSUME NEW r \in Requests, release_ctx(r) PROVE ContextsCounted'
  <2>1. Holders' = Holders \ {r}
    BY <1>3 DEF release_ctx, Holders, ControlOK
  <2>2. /\ IsFiniteSet(Holders')
        /\ Cardinality(Holders') = IF ctx[r] THEN Cardinality(Holders) - 1
                                             ELSE Cardinality(Holders)
    BY <1>1, <2>1, FS_RemoveElement DEF Holders
  <2>3. Cardinality(Holders') \in Nat
    BY <2>2, FS_CardinalityType
  <2>4. ctxFree' = IF ctx[r] /\ ctxFree < PoolContexts THEN ctxFree + 1 ELSE ctxFree
    BY <1>3 DEF release_ctx
  <2>5. PoolContexts - ctxFree' <= Cardinality(Holders')
    BY <1>1, <2>2, <2>3, <2>4
  <2> QED
    BY <2>2, <2>5 DEF ContextsCounted, ContextsConserved, Holders
<1>4. CASE UNCHANGED <<ctx, ctxFree>>
  BY <1>4 DEF ContextsCounted, ContextsConserved, Holders
<1> QED
  BY <1>2, <1>3, <1>4, ContextMoves

-----------------------------------------------------------------------------
(***************************************************************************)
(* The data.                                                               *)
(***************************************************************************)
LEMMA NestedUpdate ==
  ASSUME NEW A, NEW B, NEW S, NEW f \in [A -> [B -> S]],
         NEW a \in A, NEW b \in B, NEW v \in S
  PROVE  [f EXCEPT ![a][b] = v] \in [A -> [B -> S]]
OBVIOUS

LEMMA BouncedFacts ==
  ASSUME ControlOK, Holding, DataOK, NEW r \in Requests,
         pc[r] \in OnDevice, ctx[r], NEW i \in Offsets(r)
  PROVE  /\ ChunkOf(r, i) \in Chunks /\ SlotOf(i) \in 1..BlocksPerChunk
         /\ Bounced(r, i) \in Sector /\ Bounced(r, i).data \in Payload
<1>1. Len(chunks[r]) = Need(r)
  BY DEF Holding, HoldingOf
<1>2. ChunkOf(r, i) \in Chunks /\ SlotOf(i) \in 1..BlocksPerChunk
  BY <1>1, PlaceFacts
<1>3. Bounced(r, i) \in Sector
  BY <1>2 DEF DataOK, Bounced
<1> QED
  BY <1>2, <1>3 DEF Sector

LEMMA DataInit == Init => DataOK
<1> SUFFICES ASSUME Init PROVE DataOK
  OBVIOUS
<1>1. \A r \in Requests : \A i \in Offsets(r) : Written(r, Block(r, i)) \in Payload
  BY ShapeFacts, ControlInit DEF Written, Payload
<1>2. Garbage \in Payload
  BY DEF Payload
<1>3. \A b \in Blocks : [data |-> Initial(b), zero |-> FALSE] \in Sector
  BY DEF Initial, Payload, Sector
<1>4. Foreign \in Sector
  BY <1>2 DEF Foreign, Sector
<1>5. buf \in [Requests -> [1..MaxSectors -> Payload]]
  BY <1>1, <1>2 DEF Init
<1>6. page \in [Chunks -> [1..BlocksPerChunk -> Sector]]
  BY <1>4 DEF Init
<1>7. store \in [Disks -> [Blocks -> Sector]]
  BY <1>3 DEF Init
<1>8. good \in [Requests -> Nat]
  BY DEF Init
<1> QED
  BY <1>5, <1>6, <1>7, <1>8 DEF DataOK

LEMMA DataNext == ControlOK /\ Holding /\ DataOK /\ [Next]_vars => DataOK'
<1> SUFFICES ASSUME ControlOK, Holding, DataOK, [Next]_vars PROVE DataOK'
  OBVIOUS
<1>1. ASSUME NEW r \in Requests, prepare_issue(r) PROVE DataOK'
  <2>1. \A i \in Offsets(r) : i \in 1..MaxSectors
    BY ShapeFacts, EmulationAssumption DEF Offsets
  <2>2. pack_sg_blocks(r) \in [Chunks -> [1..BlocksPerChunk -> Sector]]
    <3> SUFFICES ASSUME NEW c \in Chunks, NEW s \in 1..BlocksPerChunk
                 PROVE  pack_sg_blocks(r)[c][s] \in Sector
      BY DEF pack_sg_blocks
    <3> DEFINE Here(i) == ChunkOf(r, i) = c /\ SlotOf(i) = s
               k == CHOOSE i \in Offsets(r) : Here(i)
    <3>1. CASE \E i \in Offsets(r) : Here(i)
      <4>1. k \in Offsets(r)
        BY <3>1
      <4> HIDE DEF k
      <4>2. buf[r][k] \in Payload
        BY <2>1, <4>1 DEF DataOK
      <4>3. [data |-> buf[r][k], zero |-> TRUE] \in Sector
        BY <4>2 DEF Sector
      <4>4. pack_sg_blocks(r)[c][s] = [data |-> buf[r][k], zero |-> TRUE]
        BY <3>1 DEF pack_sg_blocks, k
      <4> QED
        BY <4>3, <4>4
    <3>2. CASE ~ \E i \in Offsets(r) : Here(i)
      BY <3>2 DEF pack_sg_blocks, DataOK
    <3> QED
      BY <3>1, <3>2
  <2>3. page' \in [Chunks -> [1..BlocksPerChunk -> Sector]]
    BY <1>1, <2>2 DEF prepare_issue, DataOK
  <2>4. UNCHANGED <<buf, good, store>>
    BY <1>1 DEF prepare_issue, device
  <2> QED
    BY <2>3, <2>4 DEF DataOK
<1>2. ASSUME NEW r \in Requests, move_bounced(r) PROVE DataOK'
  <2> DEFINE i == xfer[r] + 1
             d == rq[r].disk
             b == Block(r, i)
  <2>1. i \in Offsets(r)
    BY <1>2, ShapeFacts DEF move_bounced, Offsets, ControlOK
  <2>2. d \in Disks /\ b \in Blocks
    BY <2>1, ShapeFacts
  <2>3. pc[r] \in OnDevice /\ ctx[r]
    BY <1>2 DEF move_bounced, OnDevice, Holding, HoldingOf
  <2>4. /\ ChunkOf(r, i) \in Chunks /\ SlotOf(i) \in 1..BlocksPerChunk
        /\ Bounced(r, i) \in Sector /\ store[d][b] \in Sector
    BY <2>1, <2>2, <2>3, BouncedFacts DEF DataOK
  <2>5. /\ \/ page' = [page EXCEPT ![ChunkOf(r, i)][SlotOf(i)] = store[d][b]]
           \/ page' = page
        /\ \/ store' = [store EXCEPT ![d][b] = Bounced(r, i)]
           \/ store' = store
        /\ UNCHANGED <<buf, good>>
    BY <1>2 DEF move_bounced
  <2> HIDE DEF i, d, b
  <2>6. page' \in [Chunks -> [1..BlocksPerChunk -> Sector]]
    <3>1. page \in [Chunks -> [1..BlocksPerChunk -> Sector]]
      BY DEF DataOK
    <3>2. [page EXCEPT ![ChunkOf(r, i)][SlotOf(i)] = store[d][b]]
            \in [Chunks -> [1..BlocksPerChunk -> Sector]]
      BY <2>4, <3>1, NestedUpdate
    <3> QED
      BY <2>5, <3>1, <3>2
  <2>7. store' \in [Disks -> [Blocks -> Sector]]
    <3>1. store \in [Disks -> [Blocks -> Sector]]
      BY DEF DataOK
    <3>2. [store EXCEPT ![d][b] = Bounced(r, i)] \in [Disks -> [Blocks -> Sector]]
      BY <2>2, <2>4, <3>1, NestedUpdate
    <3> QED
      BY <2>5, <3>1, <3>2
  <2> QED
    BY <2>5, <2>6, <2>7 DEF DataOK
<1>3. ASSUME NEW r \in Requests, move_raw(r) PROVE DataOK'
  <2> DEFINE i == xfer[r] + 1
             d == rq[r].disk
             b == Block(r, i)
  <2>1. i \in Offsets(r) /\ i \in 1..MaxSectors
    <3>1. xfer[r] \in Nat /\ xfer[r] < rq[r].len
      BY <1>3 DEF move_raw, ControlOK
    <3>2. rq[r].len \in 1..MaxSectors /\ MaxSectors \in Nat
      BY ShapeFacts, EmulationAssumption
    <3> QED
      BY <3>1, <3>2 DEF Offsets
  <2>2. d \in Disks /\ b \in Blocks
    BY <2>1, ShapeFacts
  <2>3. Garbage \in Payload /\ store[d][b].data \in Payload /\ buf[r][i] \in Payload
    <3>1. store[d][b] \in Sector
      BY <2>2 DEF DataOK
    <3>2. store[d][b].data \in Payload
      BY <3>1 DEF Sector
    <3>3. buf[r][i] \in Payload
      BY <2>1 DEF DataOK
    <3> QED
      BY <3>2, <3>3 DEF Payload
  <2>4. /\ \/ \E p \in Payload : buf' = [buf EXCEPT ![r][i] = p]
           \/ buf' = buf
        /\ \/ \E p \in Payload : store' = [store EXCEPT ![d][b] = [data |-> p, zero |-> FALSE]]
           \/ store' = store
        /\ UNCHANGED <<page, good>>
    BY <1>3, <2>3 DEF move_raw
  <2>5. \A p \in Payload : [data |-> p, zero |-> FALSE] \in Sector
    BY DEF Sector
  <2> HIDE DEF i, d, b
  <2>6. buf' \in [Requests -> [1..MaxSectors -> Payload]]
    <3>1. buf \in [Requests -> [1..MaxSectors -> Payload]]
      BY DEF DataOK
    <3>2. \A p \in Payload :
            [buf EXCEPT ![r][i] = p] \in [Requests -> [1..MaxSectors -> Payload]]
      BY <2>1, <3>1, NestedUpdate
    <3> QED
      BY <2>4, <3>1, <3>2
  <2>7. store' \in [Disks -> [Blocks -> Sector]]
    <3>1. store \in [Disks -> [Blocks -> Sector]]
      BY DEF DataOK
    <3>2. \A s \in Sector :
            [store EXCEPT ![d][b] = s] \in [Disks -> [Blocks -> Sector]]
      BY <2>2, <3>1, NestedUpdate
    <3>3. store' = store \/ \E s \in Sector : store' = [store EXCEPT ![d][b] = s]
      BY <2>4, <2>5
    <3> QED
      BY <3>1, <3>2, <3>3
  <2> QED
    BY <2>4, <2>6, <2>7 DEF DataOK
<1>4. ASSUME NEW r \in Requests, sd_done(r) PROVE DataOK'
  <2>1. good' \in [Requests -> Nat]
    <3>1. \E n \in Nat : good' = [good EXCEPT ![r] = n]
      BY <1>4, LengthFacts DEF sd_done
    <3> QED
      BY <3>1 DEF DataOK
  <2>2. ASSUME ctx[r] PROVE unpack_sg_bytes(r) \in [1..MaxSectors -> Payload]
    <3>1. pc[r] \in OnDevice
      BY <1>4 DEF sd_done, OnDevice
    <3>2. \A i \in Offsets(r) : Bounced(r, i).data \in Payload
      BY <2>2, <3>1, BouncedFacts
    <3> QED
      BY <3>2 DEF unpack_sg_bytes, DataOK
  <2>3. buf' = buf \/ (ctx[r] /\ buf' = [buf EXCEPT ![r] = unpack_sg_bytes(r)])
    BY <1>4 DEF sd_done
  <2>4. buf' \in [Requests -> [1..MaxSectors -> Payload]]
    BY <2>2, <2>3 DEF DataOK
  <2>5. UNCHANGED <<page, store>>
    BY <1>4 DEF sd_done, device
  <2> QED
    BY <2>1, <2>4, <2>5 DEF DataOK
<1>5. ASSUME NEW r \in Requests, Submit(r) \/ Advance(r), ~prepare_issue(r),
             ~move_bounced(r), ~move_raw(r), ~sd_done(r)
      PROVE  UNCHANGED <<buf, good, page, store>>
  BY <1>5 DEF Advance, Submit, setup_not_emulated, prepare_refused,
     prepare_context, alloc_chunk, alloc_refused, reply_good, reply_soft,
     reply_fault, redispatch, end_request, prepare_again, fail_request,
     retry_command, release_chunk, release_ctx, device
<1>6. CASE (\E d \in Disks : rescan_clear(d) \/ rescan_set(d)) \/ UNCHANGED vars
  BY <1>6 DEF rescan_clear, rescan_set, vars, device, DataOK
<1>7. ASSUME UNCHANGED <<buf, good, page, store>> PROVE DataOK'
  BY <1>7 DEF DataOK
<1> QED
  BY <1>1, <1>2, <1>3, <1>4, <1>5, <1>6, <1>7 DEF Next, Advance, AllAnswered

-----------------------------------------------------------------------------
(***************************************************************************)
(* The inductive invariant, and what follows from it.                      *)
(***************************************************************************)
IInv == ControlOK /\ DataOK /\ Holding /\ ChunksConserved /\ ContextsCounted

LEMMA Invariance == Spec => []IInv
<1>1. Init => IInv
  BY ControlInit, DataInit, HoldingInit, ChunksInit, ContextsInit DEF IInv
<1>2. IInv /\ [Next]_vars => IInv'
  BY ControlNext, DataNext, HoldingNext, ChunksNext, ContextsNext DEF IInv
<1> QED
  BY <1>1, <1>2, PTL DEF Spec

(***************************************************************************)
(* The state of the emulation is well typed: in particular a context is    *)
(* never given back to a full reserve, and no step addresses a chunk, a    *)
(* sector of a chunk or a sector of a disk that does not exist.            *)
(***************************************************************************)
THEOREM EmulationTypeCorrect == Spec => []TypeOK
<1>1. IInv => TypeOK
  BY TypeParts DEF IInv
<1> QED
  BY <1>1, Invariance, PTL

(***************************************************************************)
(* sd_528_alloc_emulation_buffer, its unwinding and                        *)
(* sd_528_release_emulation_ctx neither share, leak nor free twice a       *)
(* chunk, in any interleaving of any number of requests, after any reply   *)
(* of the device and across revalidations under load.                      *)
(***************************************************************************)
THEOREM ChunksAreConserved == Spec => []ChunksConserved
<1>1. IInv => ChunksConserved
  BY DEF IInv
<1> QED
  BY <1>1, Invariance, PTL

(***************************************************************************)
(* mempool_free never leaves the reserve of sd_528_ctx_pool short of more  *)
(* contexts than requests hold, however contexts of kmalloc and of the     *)
(* reserve are mixed, and whatever way a request ends.                     *)
(***************************************************************************)
THEOREM ContextsAreConserved == Spec => []ContextsConserved
<1>1. IInv => ContextsConserved
  BY DEF IInv, ContextsCounted
<1> QED
  BY <1>1, Invariance, PTL

(***************************************************************************)
(* A request that waits or has been answered holds nothing, and what one   *)
(* holds fits the arrays of its context: sd_528_prepare_emulation backs    *)
(* out completely and sd_uninit_command frees all.                         *)
(***************************************************************************)
THEOREM OnlyActiveHold == Spec => []HoldersAreActive
<1>1. IInv => HoldersAreActive
  BY DEF IInv, Holding, HoldingOf, HoldersAreActive
<1> QED
  BY <1>1, Invariance, PTL

(***************************************************************************)
(* The scatterlist that the device works on has a place for each of its    *)
(* sectors, also when the command is sent again: blocks_to_chunks rounds   *)
(* up, and the loop of sd_528_alloc_emulation_buffer completes or fails.   *)
(***************************************************************************)
THEOREM BounceAlwaysCovers == Spec => []BounceCoversTransfer
<1>1. IInv => BounceCoversTransfer
  <2> SUFFICES ASSUME IInv, NEW r \in Requests, ctx[r], pc[r] \in OnDevice,
                      NEW i \in Offsets(r)
               PROVE  ((i - 1) \div BlocksPerChunk) + 1 \in 1..Len(chunks[r])
    BY DEF BounceCoversTransfer, OnDevice
  <2>1. Len(chunks[r]) = Need(r)
    BY DEF IInv, Holding, HoldingOf
  <2> QED
    BY <2>1, PlaceFacts DEF IInv
<1> QED
  BY <1>1, Invariance, PTL

-----------------------------------------------------------------------------
(***************************************************************************)
(* The data of the emulation: sectors are stored in place with zeroed      *)
(* trailers, reads return the payload of their sectors, and the driver     *)
(* implements BlockDevice.  This holds while no reply is a reset and no    *)
(* disk loses its flag in a revalidation; the last two also need a device  *)
(* that does not interrupt a command without sense.                        *)
(***************************************************************************)

-----------------------------------------------------------------------------
(***************************************************************************)
(* The circumstances, and the inductive invariant.                         *)
(***************************************************************************)
\* No revalidation has cleared a flag, and no command was cut off by a reset.
Undisturbed ==
  /\ \A d \in Disks : from528[d]
  /\ \A r \in Requests : reply[r] # "reset"

\* No check condition came without sense.
SenseGiven == \A r \in Requests : reply[r] # "noSense"

\* The course of a request.
CourseOf(r) ==
  /\ pc[r] \in {"issued", "replied", "requeued"} => sdb[r] = "bounce"
  /\ pc[r] = "done" => ctx[r]
  /\ pc[r] = "idle" <=> status[r] = "idle"
  /\ pc[r] = "completed" => status[r] \in {"ok", "error"}
  /\ pc[r] \in {"queued", "alloc", "backout"} \cup OnDevice => status[r] = "pending"
  /\ xfer[r] # 0 => pc[r] \in {"issued", "replied", "done", "uninit"}
  /\ pc[r] = "uninit" /\ status[r] = "pending" => xfer[r] = 0
  /\ xfer[r] <= rq[r].len
  /\ pc[r] \in {"replied", "done"} /\ reply[r] \in {"good", "recovered"}
       => xfer[r] = rq[r].len
  /\ pc[r] = "done" /\ reply[r] = "recovered" => good[r] = 0

Course == \A r \in Requests : CourseOf(r)

\* Payload p is that of sector b of disk d: the first one, or one written to it.
Genuine(p, d, b) ==
  /\ p # Garbage /\ p.blk = b
  /\ p.by # NoRequest =>
       rq[p.by].op = "write" /\ rq[p.by].disk = d /\ status[p.by] # "idle"

Stored ==
  \A d \in Disks, b \in Blocks :
    /\ Genuine(store[d][b].data, d, b)
    /\ store[d][b].data.by # NoRequest => store[d][b].zero

\* A write's buffer is its caller's, and nothing is laid behind the end of a read.
HostBuffer(r) ==
  \A i \in 1..MaxSectors :
    /\ rq[r].op = "write" /\ i \in Offsets(r) => buf[r][i] = Written(r, Block(r, i))
    /\ rq[r].op = "read" /\ i \notin Offsets(r) => buf[r][i] = Garbage

\* The bounce chunks of a command hold what it writes, or has read so far.
BounceBuffer(r) ==
  pc[r] \in OnDevice =>
    \A i \in Offsets(r) :
      /\ rq[r].op = "write" =>
           Bounced(r, i) = [data |-> Written(r, Block(r, i)), zero |-> TRUE]
      /\ rq[r].op = "read" /\ i <= xfer[r] =>
           Genuine(Bounced(r, i).data, rq[r].disk, Block(r, i))

\* After a good reply, sd_done has copied all of them.
Copied(r) ==
  pc[r] = "done" /\ rq[r].op = "read" /\ reply[r] = "good" =>
    \A i \in Offsets(r) : buf[r][i] = Bounced(r, i).data

Buffers == \A r \in Requests : HostBuffer(r) /\ BounceBuffer(r) /\ Copied(r)

DInv == Course /\ Stored /\ Buffers

\* What a read that succeeded gave its caller.
AnswersGenuine ==
  \A r \in Requests : status[r] = "ok" /\ rq[r].op = "read" =>
    \A i \in Offsets(r) : Genuine(buf[r][i], rq[r].disk, Block(r, i))

-----------------------------------------------------------------------------
(***************************************************************************)
(* Places in the bounce chunks.                                            *)
(***************************************************************************)
\* No two sectors, of one prepared request or of two, share a place.
LEMMA PlacesDistinct ==
  ASSUME ControlOK, NoChunkShared, NEW r \in Requests, NEW s \in Requests,
         Len(chunks[r]) = Need(r), Len(chunks[s]) = Need(s),
         NEW i \in Offsets(r), NEW k \in Offsets(s),
         ChunkOf(r, i) = ChunkOf(s, k), SlotOf(i) = SlotOf(k)
  PROVE  r = s /\ i = k
<1> DEFINE d == BlocksPerChunk
           p == (i - 1) \div d
           q == (k - 1) \div d
<1>1. d \in Nat \ {0} /\ i - 1 \in Nat /\ k - 1 \in Nat /\ i \in Nat /\ k \in Nat
  BY BlocksPerChunkPositive, ShapeFacts DEF Offsets
<1>2. p + 1 \in 1..Len(chunks[r]) /\ q + 1 \in 1..Len(chunks[s])
  BY PlaceFacts
<1>3. p \in Nat /\ q \in Nat
  BY <1>1, Quotient
<1>4. r = s /\ p + 1 = q + 1
  BY <1>2 DEF NoChunkShared, ChunkOf
<1>5. (i - 1) % d = (k - 1) % d
  <2>1. (i - 1) % d \in Nat /\ (k - 1) % d \in Nat
    BY <1>1, Quotient
  <2> QED
    BY <2>1 DEF SlotOf
<1>6. i - 1 = d * p + ((i - 1) % d) /\ k - 1 = d * q + ((k - 1) % d)
  BY <1>1, Quotient
<1>7. p = q
  BY <1>3, <1>4
<1>8. i - 1 = k - 1
  BY <1>5, <1>6, <1>7
<1> QED
  BY <1>1, <1>4, <1>8

\* Packing fills the places of its request and no other.
LEMMA PackFacts ==
  ASSUME ControlOK, NoChunkShared, NEW r \in Requests, Len(chunks[r]) = Need(r)
  PROVE  /\ \A i \in Offsets(r) :
              pack_sg_blocks(r)[ChunkOf(r, i)][SlotOf(i)]
                = [data |-> buf[r][i], zero |-> TRUE]
         /\ \A c \in Chunks, n \in 1..BlocksPerChunk :
              (\A i \in Offsets(r) : ~(ChunkOf(r, i) = c /\ SlotOf(i) = n))
                => pack_sg_blocks(r)[c][n] = page[c][n]
<1>1. ASSUME NEW i \in Offsets(r)
      PROVE  pack_sg_blocks(r)[ChunkOf(r, i)][SlotOf(i)]
               = [data |-> buf[r][i], zero |-> TRUE]
  <2> DEFINE c == ChunkOf(r, i)
             n == SlotOf(i)
             k == CHOOSE m \in Offsets(r) : ChunkOf(r, m) = c /\ SlotOf(m) = n
  <2>1. c \in Chunks /\ n \in 1..BlocksPerChunk
    BY PlaceFacts
  <2>2. k \in Offsets(r) /\ ChunkOf(r, k) = c /\ SlotOf(k) = n
    OBVIOUS
  <2> HIDE DEF k
  <2>3. k = i
    BY <2>2, PlacesDistinct
  <2>4. pack_sg_blocks(r)[c][n] = [data |-> buf[r][k], zero |-> TRUE]
    BY <2>1 DEF pack_sg_blocks, k
  <2> QED
    BY <2>3, <2>4
<1>2. ASSUME NEW c \in Chunks, NEW n \in 1..BlocksPerChunk,
             \A i \in Offsets(r) : ~(ChunkOf(r, i) = c /\ SlotOf(i) = n)
      PROVE  pack_sg_blocks(r)[c][n] = page[c][n]
  BY <1>2 DEF pack_sg_blocks
<1> QED
  BY <1>1, <1>2

-----------------------------------------------------------------------------
(***************************************************************************)
(* The course of the requests.                                             *)
(***************************************************************************)
\* A step of one request leaves what others know and hold as it is.
Beside(s) ==
  /\ Untouched(s)
  /\ status'[s] = status[s] /\ xfer'[s] = xfer[s]
  /\ reply'[s] = reply[s] /\ good'[s] = good[s] /\ buf'[s] = buf[s]

LEMMA OthersBeside ==
  ASSUME ControlOK, DataOK, NEW r \in Requests, Submit(r) \/ Advance(r),
         NEW s \in Requests \ {r}
  PROVE  Beside(s)
<1>1. Untouched(s)
  BY OthersUntouched
<1> USE DEF ControlOK, DataOK, pools, device
<1>2. CASE Submit(r) \/ setup_not_emulated(r) \/ prepare_refused(r)
           \/ prepare_context(r) \/ alloc_chunk(r) \/ alloc_refused(r) \/ prepare_issue(r)
  BY <1>1, <1>2 DEF Submit, setup_not_emulated, prepare_refused, prepare_context,
              alloc_chunk, alloc_refused, prepare_issue, Beside
<1>3. CASE move_bounced(r)
  BY <1>1, <1>3 DEF move_bounced, Beside
<1>4. CASE move_raw(r)
  BY <1>1, <1>4 DEF move_raw, Beside
<1>5. CASE reply_good(r) \/ reply_soft(r) \/ reply_fault(r) \/ redispatch(r)
  BY <1>1, <1>5 DEF reply_good, reply_soft, reply_fault, redispatch, Beside
<1>6. CASE sd_done(r)
  BY <1>1, <1>6 DEF sd_done, Beside
<1>7. CASE end_request(r) \/ prepare_again(r) \/ fail_request(r) \/ retry_command(r)
           \/ release_chunk(r) \/ release_ctx(r)
  BY <1>1, <1>7 DEF end_request, prepare_again, fail_request, retry_command,
     release_chunk, release_ctx, Beside
<1> QED
  BY <1>2, <1>3, <1>4, <1>5, <1>6, <1>7 DEF Advance

LEMMA CourseInit == Init => Course
<1> SUFFICES ASSUME Init, NEW r \in Requests PROVE CourseOf(r)
  BY DEF Course
<1>1. rq[r].len \in Nat
  BY ControlInit, ShapeFacts
<1>2. pc[r] = "idle" /\ status[r] = "idle" /\ xfer[r] = 0
  BY DEF Init
<1> QED
  BY <1>1, <1>2 DEF CourseOf, OnDevice

LEMMA OwnCourse ==
  ASSUME ControlOK, DataOK, Holding, Undisturbed, NEW r \in Requests, CourseOf(r),
         Submit(r) \/ Advance(r)
  PROVE  CourseOf(r)'
<1> DEFINE n == rq[r].len
<1>1. n \in Nat \ {0} /\ xfer[r] \in Nat /\ rq[r].disk \in Disks
  BY ShapeFacts, EmulationAssumption DEF ControlOK
<1>2. HoldingOf(r) /\ from528[rq[r].disk] /\ reply[r] # "reset"
  BY <1>1 DEF Holding, Undisturbed
<1> USE DEF ControlOK, CourseOf, OnDevice
<1>3. CASE Submit(r) \/ setup_not_emulated(r) \/ prepare_refused(r) \/ prepare_context(r)
  BY <1>1, <1>2, <1>3 DEF Submit, setup_not_emulated, prepare_refused, prepare_context
<1>4. CASE alloc_chunk(r) \/ alloc_refused(r) \/ prepare_issue(r)
  BY <1>1, <1>2, <1>4 DEF alloc_chunk, alloc_refused, prepare_issue
<1>5. CASE move_bounced(r) \/ move_raw(r)
  <2>1. /\ xfer'[r] = xfer[r] + 1 /\ xfer[r] < n /\ pc[r] = "issued"
        /\ UNCHANGED <<rq, pc, status, sdb>>
    BY <1>5 DEF move_bounced, move_raw
  <2>2. xfer'[r] <= n
    BY <1>1, <2>1
  <2> QED
    BY <2>1, <2>2
<1>6. CASE reply_good(r)
  <2>1. /\ pc[r] = "issued" /\ pc'[r] = "replied" /\ sdb[r] = "bounce"
        /\ xfer[r] * DevSectorSize >= dev_len(r)
        /\ UNCHANGED <<rq, status, xfer, sdb>>
    BY <1>6 DEF reply_good, cmd_underflow
  <2>2. xfer[r] = n
    <3>1. DevSectorSize \in Nat \ {0}
      BY GeometryAssumption
    <3>2. DevSectorSize * xfer[r] >= DevSectorSize * n
      BY <1>1, <2>1, <3>1 DEF dev_len
    <3>3. ~(xfer[r] < n)
      <4>1. DevSectorSize * xfer[r] \in Nat /\ DevSectorSize * n \in Nat
        BY <1>1, <3>1
      <4>2. xfer[r] < n => DevSectorSize * xfer[r] + DevSectorSize <= DevSectorSize * n
        BY <1>1, <3>1, MultiplesApart
      <4> QED
        BY <3>1, <3>2, <4>1, <4>2
    <3> QED
      BY <1>1, <3>3
  <2> QED
    BY <2>1, <2>2
<1>7. CASE reply_soft(r) \/ redispatch(r)
  BY <1>1, <1>7 DEF reply_soft, redispatch
<1>8. CASE reply_fault(r)
  <2>1. /\ pc[r] = "issued" /\ pc'[r] = "replied"
        /\ UNCHANGED <<rq, status, xfer, sdb>>
    BY <1>8 DEF reply_fault
  <2>2. reply'[r] \in {"good", "recovered"} => xfer[r] = n
    BY <1>8, EmulationAssumption DEF reply_fault, FaultKinds
  <2> QED
    BY <2>1, <2>2
<1>9. CASE sd_done(r)
  <2>1. /\ pc[r] = "replied" /\ pc'[r] = "done" /\ ctx[r] /\ ctx'[r]
        /\ UNCHANGED <<rq, status, xfer, reply>>
    BY <1>2, <1>9 DEF sd_done, HoldingOf
  <2>2. reply[r] = "recovered" => good'[r] = 0
    BY <1>2, <1>9, <2>1 DEF sd_done, result_clear, DataOK
  <2> QED
    BY <2>1, <2>2
<1>10. CASE end_request(r) \/ prepare_again(r) \/ fail_request(r)
  BY <1>1, <1>10 DEF end_request, prepare_again, fail_request
<1>11. ~retry_command(r)
  BY <1>2 DEF retry_command
<1>12. CASE release_chunk(r)
  BY <1>1, <1>12 DEF release_chunk
<1>13. CASE release_ctx(r)
  <2>1. /\ status[r] # "idle" /\ pc[r] \in {"backout", "uninit"}
        /\ pc'[r] = IF status[r] = "pending" THEN "queued" ELSE "completed"
        /\ xfer'[r] = 0 /\ UNCHANGED <<rq, status, sdb>>
    BY <1>13 DEF release_ctx
  <2>2. status[r] \in {"pending", "ok", "error"}
    BY <2>1 DEF Statuses
  <2> QED
    BY <1>1, <2>1, <2>2
<1> QED
  BY <1>3, <1>4, <1>5, <1>6, <1>7, <1>8, <1>9, <1>10, <1>11, <1>12, <1>13 DEF Advance

LEMMA CourseNext ==
  ASSUME ControlOK, DataOK, Holding, Undisturbed, Course, [Next]_vars
  PROVE  Course'
<1> SUFFICES ASSUME NEW s \in Requests PROVE CourseOf(s)'
  BY DEF Course
<1>1. CourseOf(s)
  BY DEF Course
<1>2. ASSUME NEW r \in Requests, Submit(r) \/ Advance(r) PROVE CourseOf(s)'
  <2>1. CASE r = s
    BY <1>1, <1>2, <2>1, OwnCourse
  <2>2. CASE r # s
    <3>1. Beside(s)
      BY <1>2, <2>2, OthersBeside
    <3> QED
      BY <1>1, <3>1 DEF CourseOf, Beside, Untouched
  <2> QED
    BY <2>1, <2>2
<1>3. CASE (\E d \in Disks : rescan_clear(d) \/ rescan_set(d)) \/ UNCHANGED vars
  <2>1. UNCHANGED <<rq, status, pc, ctx, sdb, xfer, reply, good>>
    BY <1>3 DEF rescan_clear, rescan_set, vars
  <2> QED
    BY <1>1, <2>1 DEF CourseOf
<1> QED
  BY <1>2, <1>3 DEF Next, AllAnswered

-----------------------------------------------------------------------------
(***************************************************************************)
(* The bounce chunks.                                                      *)
(***************************************************************************)
\* A command on the device holds all its chunks.
LEMMA OnDeviceHolds ==
  ASSUME Holding, Course, NEW r \in Requests, pc[r] \in OnDevice
  PROVE  ctx[r] /\ Len(chunks[r]) = Need(r)
<1>1. HoldingOf(r) /\ CourseOf(r)
  BY DEF Holding, Course
<1> QED
  BY <1>1 DEF HoldingOf, CourseOf, OnDevice

\* It keeps them.
LEMMA OnDeviceKeeps ==
  ASSUME ControlOK, DataOK, [Next]_vars, NEW s \in Requests, pc[s] \in OnDevice
  PROVE  rq' = rq /\ chunks'[s] = chunks[s]
<1>1. ASSUME NEW r \in Requests \ {s}, Submit(r) \/ Advance(r)
      PROVE  rq' = rq /\ chunks'[s] = chunks[s]
  BY <1>1, OthersUntouched DEF Untouched
<1>2. ASSUME Submit(s) \/ Advance(s)
      PROVE  rq' = rq /\ chunks'[s] = chunks[s]
  BY <1>2 DEF OnDevice, Advance, Submit, setup_not_emulated, prepare_refused,
     prepare_context, alloc_chunk, alloc_refused, prepare_issue, move_bounced,
     move_raw, reply_good, reply_soft, reply_fault, redispatch, sd_done,
     end_request, prepare_again, fail_request, retry_command, release_chunk,
     release_ctx
<1>3. CASE (\E d \in Disks : rescan_clear(d) \/ rescan_set(d)) \/ UNCHANGED vars
  BY <1>3 DEF rescan_clear, rescan_set, vars
<1> QED
  BY <1>1, <1>2, <1>3 DEF Next, AllAnswered

\* The two steps that change a chunk.
Packs(r) ==
  /\ prepare_issue(r) /\ rq[r].op = "write"
  /\ page' = pack_sg_blocks(r)

Fills(r) ==
  /\ move_bounced(r) /\ rq[r].op = "read"
  /\ page' = [page EXCEPT ![ChunkOf(r, xfer[r] + 1)][SlotOf(xfer[r] + 1)]
                            = store[rq[r].disk][Block(r, xfer[r] + 1)]]

LEMMA PageMoves ==
  ASSUME [Next]_vars
  PROVE  page' = page \/ \E r \in Requests : Packs(r) \/ Fills(r)
<1>1. ASSUME NEW r \in Requests, prepare_issue(r) PROVE page' = page \/ Packs(r)
  BY <1>1 DEF prepare_issue, Packs
<1>2. ASSUME NEW r \in Requests, move_bounced(r) PROVE page' = page \/ Fills(r)
  BY <1>2 DEF move_bounced, Fills
<1>3. ASSUME NEW r \in Requests, Submit(r) \/ Advance(r), ~prepare_issue(r), ~move_bounced(r)
      PROVE  page' = page
  BY <1>3 DEF Advance, Submit, setup_not_emulated, prepare_refused,
     prepare_context, alloc_chunk, alloc_refused, move_raw, reply_good,
     reply_soft, reply_fault, redispatch, sd_done, end_request, prepare_again,
     fail_request, retry_command, release_chunk, release_ctx
<1>4. CASE (\E d \in Disks : rescan_clear(d) \/ rescan_set(d)) \/ UNCHANGED vars
  BY <1>4 DEF rescan_clear, rescan_set, vars
<1> QED
  BY <1>1, <1>2, <1>3, <1>4 DEF Next, AllAnswered

\* The sector that a read moves next.
LEMMA NextOffset ==
  ASSUME ControlOK, NEW r \in Requests, move_bounced(r)
  PROVE  xfer[r] + 1 \in Offsets(r)
BY ShapeFacts DEF move_bounced, Offsets, ControlOK

LEMMA FilledFacts ==
  ASSUME ControlOK, DataOK, Holding, Course, NEW r \in Requests, Fills(r)
  PROVE  /\ Len(chunks[r]) = Need(r)
         /\ page'[ChunkOf(r, xfer[r] + 1)][SlotOf(xfer[r] + 1)]
              = store[rq[r].disk][Block(r, xfer[r] + 1)]
         /\ \A c \in Chunks, n \in 1..BlocksPerChunk :
              ~(c = ChunkOf(r, xfer[r] + 1) /\ n = SlotOf(xfer[r] + 1))
                => page'[c][n] = page[c][n]
<1> DEFINE i == xfer[r] + 1
<1>1. i \in Offsets(r) /\ pc[r] \in OnDevice
  BY NextOffset DEF Fills, move_bounced, OnDevice
<1>2. Len(chunks[r]) = Need(r)
  BY <1>1, OnDeviceHolds
<1>3. ChunkOf(r, i) \in Chunks /\ SlotOf(i) \in 1..BlocksPerChunk
  BY <1>1, <1>2, PlaceFacts
<1>4. page' = [page EXCEPT ![ChunkOf(r, i)][SlotOf(i)]
                             = store[rq[r].disk][Block(r, i)]]
  BY DEF Fills
<1> HIDE DEF i
<1>5. /\ page'[ChunkOf(r, i)][SlotOf(i)] = store[rq[r].disk][Block(r, i)]
      /\ \A c \in Chunks, n \in 1..BlocksPerChunk :
           ~(c = ChunkOf(r, i) /\ n = SlotOf(i)) => page'[c][n] = page[c][n]
  BY <1>3, <1>4 DEF DataOK
<1> QED
  BY <1>2, <1>5 DEF i

\* What a command has in its chunks is changed only by its own next sector.
LEMMA BouncedStays ==
  ASSUME ControlOK, DataOK, Holding, ChunksConserved, Course, [Next]_vars,
         NEW s \in Requests, pc[s] \in OnDevice, NEW i \in Offsets(s),
         ~(Fills(s) /\ i = xfer[s] + 1)
  PROVE  page'[ChunkOf(s, i)][SlotOf(i)] = Bounced(s, i)
<1> DEFINE c == ChunkOf(s, i)
           n == SlotOf(i)
<1>1. Len(chunks[s]) = Need(s)
  BY OnDeviceHolds
<1>2. c \in Chunks /\ n \in 1..BlocksPerChunk
  BY <1>1, PlaceFacts
<1>3. NoChunkShared
  BY DEF ChunksConserved
<1>4. ASSUME NEW r \in Requests, Packs(r) PROVE page'[c][n] = page[c][n]
  <2>1. Len(chunks[r]) = Need(r) /\ r # s /\ page' = pack_sg_blocks(r)
    BY <1>4 DEF Packs, prepare_issue, OnDevice
  <2>2. \A k \in Offsets(r) : ~(ChunkOf(r, k) = c /\ SlotOf(k) = n)
    BY <1>1, <1>3, <2>1, PlacesDistinct
  <2> QED
    BY <1>2, <1>3, <2>1, <2>2, PackFacts
<1>5. ASSUME NEW r \in Requests, Fills(r) PROVE page'[c][n] = page[c][n]
  <2> DEFINE k == xfer[r] + 1
  <2>1. Len(chunks[r]) = Need(r) /\ k \in Offsets(r)
    BY <1>5, FilledFacts, NextOffset DEF Fills
  <2> HIDE DEF k
  <2>2. c = ChunkOf(r, k) /\ n = SlotOf(k) => s = r /\ i = k
    BY <1>1, <1>3, <2>1, PlacesDistinct
  <2>3. ~(c = ChunkOf(r, k) /\ n = SlotOf(k))
    BY <1>5, <2>2 DEF k
  <2> HIDE DEF c, n
  <2> QED
    BY <1>2, <1>5, <2>3, FilledFacts DEF k
<1> QED
  BY <1>4, <1>5, PageMoves DEF Bounced

-----------------------------------------------------------------------------
(***************************************************************************)
(* Payloads.                                                               *)
(***************************************************************************)
\* No request changes its shape, or is taken back once submitted.
LEMMA SubmittedStays ==
  ASSUME ControlOK, DataOK, [Next]_vars
  PROVE  /\ rq' = rq
         /\ \A q \in Requests : status[q] # "idle" => status'[q] # "idle"
<1>1. rq' = rq
  <2>1. ASSUME NEW r \in Requests, Submit(r) \/ Advance(r) PROVE rq' = rq
    <3>1. Submit(r) => rq' = rq
      BY DEF Submit
    <3>2. Advance(r) => rq' = rq
      BY DEF Advance, setup_not_emulated, prepare_refused, prepare_context,
         alloc_chunk, alloc_refused, prepare_issue, move_bounced, move_raw,
         reply_good, reply_soft, reply_fault, redispatch, sd_done, end_request,
         prepare_again, fail_request, retry_command, release_chunk, release_ctx
    <3> QED
      BY <2>1, <3>1, <3>2
  <2>2. (\E d \in Disks : rescan_clear(d) \/ rescan_set(d)) \/ UNCHANGED vars
          => rq' = rq
    BY DEF rescan_clear, rescan_set, vars
  <2> QED
    BY <2>1, <2>2 DEF Next, AllAnswered
<1>2. ASSUME NEW q \in Requests, status[q] # "idle" PROVE status'[q] # "idle"
  <2>1. ASSUME NEW r \in Requests \ {q}, Submit(r) \/ Advance(r)
        PROVE  status'[q] # "idle"
    BY <1>2, <2>1, OthersBeside DEF Beside
  <2>2. CASE Submit(q) \/ prepare_refused(q) \/ end_request(q) \/ fail_request(q)
    BY <2>2 DEF Submit, prepare_refused, end_request, fail_request, ControlOK
  <2>3. ASSUME Advance(q), ~prepare_refused(q), ~end_request(q), ~fail_request(q)
        PROVE  status' = status
    BY <2>3 DEF Advance, setup_not_emulated, prepare_context, alloc_chunk,
       alloc_refused, prepare_issue, move_bounced, move_raw, reply_good,
       reply_soft, reply_fault, redispatch, sd_done, prepare_again,
       retry_command, release_chunk, release_ctx
  <2>4. CASE (\E d \in Disks : rescan_clear(d) \/ rescan_set(d)) \/ UNCHANGED vars
    BY <1>2, <2>4 DEF rescan_clear, rescan_set, vars
  <2> QED
    BY <1>2, <2>1, <2>2, <2>3, <2>4 DEF Next, AllAnswered
<1> QED
  BY <1>1, <1>2

LEMMA GenuineStays ==
  ASSUME ControlOK, DataOK, [Next]_vars, NEW p \in Payload, NEW d, NEW b, Genuine(p, d, b)
  PROVE  Genuine(p, d, b)'
<1>1. p.by # NoRequest => p.by \in Requests
  BY DEF Genuine, Payload
<1> QED
  BY <1>1, SubmittedStays DEF Genuine

\* What a write writes is genuine.
LEMMA WrittenGenuine ==
  ASSUME ControlOK, NEW r \in Requests, rq[r].op = "write", status[r] # "idle",
         NEW i \in Offsets(r)
  PROVE  /\ Written(r, Block(r, i)) \in Payload
         /\ Genuine(Written(r, Block(r, i)), rq[r].disk, Block(r, i))
<1> DEFINE p == Written(r, Block(r, i))
<1>1. p \in [by : Requests \cup {NoRequest}, blk : Blocks]
  BY ShapeFacts DEF Written
<1>2. p # Garbage
  BY <1>1, EmulationAssumption
<1>3. p.blk = Block(r, i) /\ p.by = r
  BY DEF Written
<1> HIDE DEF p
<1>4. p \in Payload
  BY <1>1 DEF Payload
<1>5. Genuine(p, rq[r].disk, Block(r, i))
  BY <1>2, <1>3 DEF Genuine
<1> QED
  BY <1>4, <1>5 DEF p

LEMMA InitialGenuine ==
  ASSUME NEW d \in Disks, NEW b \in Blocks
  PROVE  Initial(b) \in Payload /\ Genuine(Initial(b), d, b)
<1>1. Initial(b) \in [by : Requests \cup {NoRequest}, blk : Blocks]
  BY DEF Initial
<1>2. Initial(b) # Garbage
  BY <1>1, EmulationAssumption
<1>3. Initial(b).blk = b /\ Initial(b).by = NoRequest
  BY DEF Initial
<1> QED
  BY <1>1, <1>2, <1>3 DEF Genuine, Payload

LEMMA StoredFacts ==
  ASSUME DataOK, Stored, NEW d \in Disks, NEW b \in Blocks
  PROVE  /\ store[d][b] \in Sector /\ store[d][b].data \in Payload
         /\ Genuine(store[d][b].data, d, b)
         /\ store[d][b].data.by # NoRequest => store[d][b].zero
<1>1. store[d][b] \in Sector
  BY DEF DataOK
<1> QED
  BY <1>1 DEF Sector, Stored

-----------------------------------------------------------------------------
(***************************************************************************)
(* The sectors of the disks.                                               *)
(***************************************************************************)
LEMMA StoredInit == Init => Stored
<1> SUFFICES ASSUME Init, NEW d \in Disks, NEW b \in Blocks
             PROVE  /\ Genuine(store[d][b].data, d, b)
                    /\ store[d][b].data.by # NoRequest => store[d][b].zero
  BY DEF Stored
<1>1. store[d][b].data = Initial(b)
  BY DEF Init
<1>2. Initial(b).by = NoRequest
  BY DEF Initial
<1> QED
  BY <1>1, <1>2, InitialGenuine

\* The one step that changes a sector of a disk.
Stores(r) ==
  /\ move_bounced(r) /\ rq[r].op = "write"
  /\ store' = [store EXCEPT ![rq[r].disk][Block(r, xfer[r] + 1)]
                              = Bounced(r, xfer[r] + 1)]

LEMMA StoreMoves ==
  ASSUME Course, [Next]_vars
  PROVE  store' = store \/ \E r \in Requests : Stores(r)
<1>1. ASSUME NEW r \in Requests, move_bounced(r) PROVE store' = store \/ Stores(r)
  BY <1>1 DEF move_bounced, Stores
<1>2. ASSUME NEW r \in Requests PROVE ~move_raw(r)
  BY DEF move_raw, Course, CourseOf
<1>3. ASSUME NEW r \in Requests, Submit(r) \/ Advance(r), ~move_bounced(r)
      PROVE  store' = store
  BY <1>2, <1>3 DEF Advance, Submit, setup_not_emulated, prepare_refused,
     prepare_context, alloc_chunk, alloc_refused, prepare_issue, reply_good,
     reply_soft, reply_fault, redispatch, sd_done, end_request, prepare_again,
     fail_request, retry_command, release_chunk, release_ctx, device
<1>4. CASE (\E d \in Disks : rescan_clear(d) \/ rescan_set(d)) \/ UNCHANGED vars
  BY <1>4 DEF rescan_clear, rescan_set, vars, device
<1> QED
  BY <1>1, <1>3, <1>4 DEF Next, AllAnswered

\* What a write stores.
LEMMA StoresPacked ==
  ASSUME ControlOK, Course, Buffers, NEW r \in Requests, Stores(r)
  PROVE  /\ xfer[r] + 1 \in Offsets(r) /\ status[r] = "pending"
         /\ Bounced(r, xfer[r] + 1)
              = [data |-> Written(r, Block(r, xfer[r] + 1)), zero |-> TRUE]
<1>1. xfer[r] + 1 \in Offsets(r) /\ pc[r] \in OnDevice
  BY NextOffset DEF Stores, move_bounced, OnDevice
<1>2. BounceBuffer(r) /\ CourseOf(r)
  BY DEF Buffers, Course
<1> QED
  BY <1>1, <1>2 DEF BounceBuffer, CourseOf, Stores

LEMMA StoredNext ==
  ASSUME ControlOK, DataOK, Course, Stored, Buffers, [Next]_vars
  PROVE  Stored'
<1> SUFFICES ASSUME NEW d \in Disks, NEW b \in Blocks
             PROVE  /\ Genuine(store[d][b].data, d, b)'
                    /\ store'[d][b].data.by # NoRequest => store'[d][b].zero
  BY DEF Stored
<1>1. PICK s \in Sector : s = store[d][b]
  BY StoredFacts
<1>2. s.data \in Payload /\ Genuine(s.data, d, b) /\ (s.data.by # NoRequest => s.zero)
  BY <1>1, StoredFacts
<1>3. Genuine(s.data, d, b)'
  BY <1>2, GenuineStays
<1>4. ASSUME store'[d][b] = s
      PROVE  /\ Genuine(store[d][b].data, d, b)'
             /\ store'[d][b].data.by # NoRequest => store'[d][b].zero
  BY <1>2, <1>3, <1>4 DEF Genuine
<1>5. ASSUME NEW r \in Requests, Stores(r), d = rq[r].disk, b = Block(r, xfer[r] + 1)
      PROVE  /\ Genuine(store[d][b].data, d, b)'
             /\ store'[d][b].data.by # NoRequest => store'[d][b].zero
  <2>1. /\ xfer[r] + 1 \in Offsets(r) /\ status[r] # "idle" /\ rq[r].op = "write"
        /\ Bounced(r, xfer[r] + 1) = [data |-> Written(r, b), zero |-> TRUE]
    BY <1>5, StoresPacked DEF Stores
  <2>2. Written(r, b) \in Payload /\ Genuine(Written(r, b), d, b)
    BY <1>5, <2>1, WrittenGenuine
  <2>3. PICK p \in Payload : p = Written(r, b)
    BY <2>2
  <2>4. Genuine(p, d, b)'
    BY <2>2, <2>3, GenuineStays
  <2>5. store'[d][b] = [data |-> p, zero |-> TRUE]
    BY <1>5, <2>1, <2>3 DEF Stores, DataOK
  <2> QED
    BY <2>4, <2>5 DEF Genuine
<1>6. ASSUME NEW r \in Requests, Stores(r), ~(d = rq[r].disk /\ b = Block(r, xfer[r] + 1))
      PROVE  store'[d][b] = s
  BY <1>1, <1>6 DEF Stores, DataOK
<1> QED
  BY <1>1, <1>4, <1>5, <1>6, StoreMoves

-----------------------------------------------------------------------------
(***************************************************************************)
(* The buffers.                                                            *)
(***************************************************************************)
LEMMA BuffersInit == Init => Buffers
<1> SUFFICES ASSUME Init, NEW r \in Requests
             PROVE  HostBuffer(r) /\ BounceBuffer(r) /\ Copied(r)
  BY DEF Buffers
<1>1. pc[r] = "idle"
  BY DEF Init
<1>2. HostBuffer(r)
  BY DEF Init, HostBuffer
<1> QED
  BY <1>1, <1>2 DEF BounceBuffer, Copied, OnDevice

\* How a request's buffer changes, and comes to be "done".
LEMMA BufferMoves ==
  ASSUME ControlOK, DataOK, Holding, Undisturbed, Course, [Next]_vars,
         NEW s \in Requests
  PROVE  \/ /\ buf'[s] = buf[s]
            /\ pc'[s] = "done" => pc[s] = "done" /\ reply'[s] = reply[s]
         \/ /\ sd_done(s) /\ pc[s] = "replied" /\ ctx[s]
            /\ UNCHANGED <<page, chunks, reply>>
            /\ buf'[s] = IF rq[s].op = "read" THEN unpack_sg_bytes(s) ELSE buf[s]
<1> DEFINE Same == /\ buf'[s] = buf[s]
                   /\ pc'[s] = "done" => pc[s] = "done" /\ reply'[s] = reply[s]
<1>1. ASSUME NEW r \in Requests \ {s}, Submit(r) \/ Advance(r) PROVE Same
  BY <1>1, OthersBeside DEF Beside, Untouched
<1>2. ASSUME Submit(s) \/ Advance(s), ~sd_done(s) PROVE Same
  <2>1. ~move_raw(s)
    BY DEF move_raw, Course, CourseOf
  <2>2. CASE \/ Submit(s) \/ setup_not_emulated(s) \/ prepare_refused(s)
             \/ prepare_context(s) \/ alloc_chunk(s) \/ alloc_refused(s)
             \/ prepare_issue(s) \/ reply_good(s) \/ reply_soft(s)
             \/ reply_fault(s) \/ redispatch(s) \/ end_request(s)
             \/ prepare_again(s) \/ fail_request(s) \/ retry_command(s)
    BY <2>2 DEF ControlOK, Submit, setup_not_emulated, prepare_refused,
       prepare_context, alloc_chunk, alloc_refused, prepare_issue, reply_good,
       reply_soft, reply_fault, redispatch, end_request, prepare_again,
       fail_request, retry_command
  <2>3. CASE move_bounced(s) \/ release_chunk(s) \/ release_ctx(s)
    BY <2>3 DEF ControlOK, move_bounced, release_chunk, release_ctx
  <2> QED
    BY <1>2, <2>1, <2>2, <2>3 DEF Advance
<1>3. ASSUME sd_done(s)
      PROVE  /\ pc[s] = "replied" /\ ctx[s]
             /\ UNCHANGED <<page, chunks, reply>>
             /\ buf'[s] = IF rq[s].op = "read" THEN unpack_sg_bytes(s) ELSE buf[s]
  <2>1. from528[rq[s].disk]
    BY ShapeFacts DEF Undisturbed
  <2>2. pc[s] = "replied" /\ HoldingOf(s) /\ CourseOf(s)
    BY <1>3 DEF sd_done, Holding, Course
  <2>3. ctx[s]
    BY <2>2 DEF HoldingOf, CourseOf, OnDevice
  <2> QED
    BY <1>3, <2>1, <2>2, <2>3 DEF sd_done, DataOK
<1>4. CASE (\E d \in Disks : rescan_clear(d) \/ rescan_set(d)) \/ UNCHANGED vars
  BY <1>4 DEF rescan_clear, rescan_set, vars
<1> QED
  BY <1>1, <1>2, <1>3, <1>4 DEF Next, AllAnswered

LEMMA HostBufferNext ==
  ASSUME ControlOK, DataOK, Holding, Undisturbed, Course, Buffers, [Next]_vars,
         NEW s \in Requests
  PROVE  HostBuffer(s)'
<1>1. HostBuffer(s) /\ rq' = rq
  BY SubmittedStays DEF Buffers
<1>2. CASE buf'[s] = buf[s]
  BY <1>1, <1>2 DEF HostBuffer, Offsets, Block
<1>3. CASE /\ rq[s].op = "read" /\ buf'[s] = unpack_sg_bytes(s)
  BY <1>1, <1>3 DEF HostBuffer, Offsets, Block, unpack_sg_bytes
<1> QED
  BY <1>2, <1>3, BufferMoves

\* Every way to be on the device, and what moves there.
LEMMA DeviceMoves ==
  ASSUME ControlOK, DataOK, Holding, Undisturbed, Course, [Next]_vars,
         NEW s \in Requests, pc'[s] \in OnDevice
  PROVE  \/ pc[s] \notin OnDevice /\ prepare_issue(s)
         \/ pc[s] \in OnDevice /\ xfer'[s] \in {xfer[s], 0}
         \/ pc[s] \in OnDevice /\ move_bounced(s) /\ xfer'[s] = xfer[s] + 1
<1> DEFINE Goal == \/ pc[s] \notin OnDevice /\ prepare_issue(s)
                   \/ pc[s] \in OnDevice /\ xfer'[s] \in {xfer[s], 0}
                   \/ pc[s] \in OnDevice /\ move_bounced(s) /\ xfer'[s] = xfer[s] + 1
<1>1. ASSUME NEW r \in Requests \ {s}, Submit(r) \/ Advance(r) PROVE Goal
  BY <1>1, OthersBeside DEF Beside, Untouched
<1>2. CASE Submit(s) \/ Advance(s)
  <2>1. ~move_raw(s) /\ ~setup_not_emulated(s)
    BY ShapeFacts DEF move_raw, setup_not_emulated, Undisturbed, Course, CourseOf
  <2>2. CASE \/ Submit(s) \/ prepare_refused(s)
             \/ prepare_context(s) \/ alloc_chunk(s) \/ alloc_refused(s)
             \/ release_chunk(s) \/ release_ctx(s)
    BY <2>2 DEF OnDevice, ControlOK, Submit, prepare_refused,
       prepare_context, alloc_chunk, alloc_refused, release_chunk, release_ctx
  <2>3. CASE prepare_issue(s)
    BY <2>3 DEF prepare_issue, OnDevice
  <2>4. CASE move_bounced(s)
    BY <2>4 DEF move_bounced, OnDevice, ControlOK
  <2>5. CASE \/ reply_good(s) \/ reply_soft(s) \/ reply_fault(s) \/ redispatch(s)
             \/ sd_done(s) \/ end_request(s) \/ prepare_again(s)
             \/ fail_request(s) \/ retry_command(s)
    BY <2>5 DEF OnDevice, ControlOK, reply_good, reply_soft, reply_fault,
       redispatch, sd_done, end_request, prepare_again, fail_request, retry_command
  <2> QED
    BY <1>2, <2>1, <2>2, <2>3, <2>4, <2>5 DEF Advance
<1>3. CASE (\E d \in Disks : rescan_clear(d) \/ rescan_set(d)) \/ UNCHANGED vars
  BY <1>3 DEF rescan_clear, rescan_set, vars
<1> QED
  BY <1>1, <1>2, <1>3 DEF Next, AllAnswered

LEMMA BounceBufferNext ==
  ASSUME ControlOK, DataOK, Holding, ChunksConserved, Undisturbed, Course, Stored,
         Buffers, [Next]_vars, NEW s \in Requests
  PROVE  BounceBuffer(s)'
<1>1. rq' = rq /\ HostBuffer(s) /\ BounceBuffer(s) /\ CourseOf(s)
  BY SubmittedStays DEF Buffers, Course
<1> SUFFICES ASSUME pc'[s] \in OnDevice, NEW i \in Offsets(s)
             PROVE  /\ rq[s].op = "write" => Bounced(s, i)'
                         = [data |-> Written(s, Block(s, i)), zero |-> TRUE]
                    /\ rq[s].op = "read" /\ i <= xfer'[s] =>
                         Genuine(Bounced(s, i).data, rq[s].disk, Block(s, i))'
  BY <1>1 DEF BounceBuffer, Offsets, Block, OnDevice
<1>2. i \in 1..MaxSectors /\ i \in Nat \ {0} /\ xfer[s] \in Nat
  BY ShapeFacts, EmulationAssumption, SMTT(30) DEF Offsets, ControlOK
<1>3. PICK d \in Disks, b \in Blocks : d = rq[s].disk /\ b = Block(s, i)
  BY ShapeFacts
<1>4. CASE pc[s] \notin OnDevice /\ prepare_issue(s)
  <2>1. /\ Len(chunks[s]) = Need(s) /\ chunks' = chunks
        /\ xfer[s] = 0 /\ xfer' = xfer
        /\ rq[s].op = "write" => page' = pack_sg_blocks(s)
    BY <1>1, <1>4 DEF prepare_issue, CourseOf
  <2>2. ASSUME rq[s].op = "write"
        PROVE  Bounced(s, i)' = [data |-> Written(s, Block(s, i)), zero |-> TRUE]
    <3>1. pack_sg_blocks(s)[ChunkOf(s, i)][SlotOf(i)] = [data |-> buf[s][i], zero |-> TRUE]
      BY <2>1, PackFacts DEF ChunksConserved
    <3>2. buf[s][i] = Written(s, Block(s, i))
      BY <1>1, <1>2, <2>2 DEF HostBuffer
    <3> QED
      BY <2>1, <2>2, <3>1, <3>2 DEF Bounced, ChunkOf
  <2>3. ~(i <= xfer'[s])
    BY <1>2, <2>1
  <2> QED
    BY <2>2, <2>3
<1>5. CASE pc[s] \in OnDevice
  <2>1. chunks'[s] = chunks[s] /\ ctx[s] /\ Len(chunks[s]) = Need(s)
    BY <1>5, OnDeviceKeeps, OnDeviceHolds
  <2>2. Bounced(s, i)' = page'[ChunkOf(s, i)][SlotOf(i)]
    BY <2>1 DEF Bounced, ChunkOf
  <2>3. CASE Fills(s) /\ i = xfer[s] + 1
    <3>1. page'[ChunkOf(s, i)][SlotOf(i)] = store[d][b] /\ rq[s].op = "read"
      BY <1>3, <2>3, FilledFacts DEF Fills
    <3>2. PICK p \in Payload : p = store[d][b].data
      BY StoredFacts
    <3>3. Genuine(p, d, b)
      BY <3>2, StoredFacts
    <3>4. Genuine(p, d, b)'
      BY <3>3, GenuineStays
    <3>5. Bounced(s, i).data' = p
      BY <2>2, <3>1, <3>2
    <3> QED
      BY <1>1, <1>3, <3>1, <3>4, <3>5 DEF Genuine, Block
  <2>4. CASE ~(Fills(s) /\ i = xfer[s] + 1)
    <3>1. Bounced(s, i)' = Bounced(s, i)
      BY <1>5, <2>2, <2>4, BouncedStays
    <3>2. ASSUME rq[s].op = "read", i <= xfer'[s] PROVE i <= xfer[s]
      <4>1. move_bounced(s) => Fills(s)
        BY <3>2 DEF move_bounced, Fills
      <4> QED
        BY <1>2, <1>5, <2>4, <3>2, <4>1, DeviceMoves
    <3>3. ASSUME rq[s].op = "read", i <= xfer'[s]
          PROVE  Genuine(Bounced(s, i).data, rq[s].disk, Block(s, i))'
      <4>1. PICK p \in Payload : p = Bounced(s, i).data
        BY <1>5, <2>1, BouncedFacts
      <4>2. Genuine(p, d, b)
        BY <1>1, <1>3, <1>5, <3>2, <3>3, <4>1 DEF BounceBuffer
      <4>3. Genuine(p, d, b)'
        BY <4>2, GenuineStays
      <4> QED
        BY <1>1, <1>3, <3>1, <4>1, <4>3 DEF Genuine, Block
    <3>4. ASSUME rq[s].op = "write"
          PROVE  Bounced(s, i)' = [data |-> Written(s, Block(s, i)), zero |-> TRUE]
      BY <1>1, <1>5, <3>1, <3>4 DEF BounceBuffer
    <3> QED
      BY <3>3, <3>4
  <2> QED
    BY <2>3, <2>4
<1> QED
  BY <1>4, <1>5, DeviceMoves

\* A good reply covers all sectors of the host.
LEMMA CopiedWhole ==
  ASSUME ControlOK, NEW r \in Requests, reply[r] = "good", sdb[r] = "bounce"
  PROVE  copied(r) = rq[r].len
<1> DEFINE n == rq[r].len
           h == HostSectorSize
<1>1. n \in Nat /\ h \in Nat \ {0} /\ DevSectorSize \in Nat /\ h <= DevSectorSize
  BY ShapeFacts, GeometryAssumption
<1>2. good_bytes(r) = dev_len(r) /\ host_len(r) = h * n
  BY <1>1 DEF good_bytes, scsi_bufflen, host_len
<1>3. PICK e \in Nat : DevSectorSize = h + e
  <2>1. DevSectorSize - h \in Nat /\ DevSectorSize = h + (DevSectorSize - h)
    BY <1>1
  <2> QED
    BY <2>1
<1>4. dev_len(r) = h * n + n * e
  BY <1>1, <1>3 DEF dev_len
<1>5. h * n \in Nat /\ n * e \in Nat
  BY <1>1
<1>6. Lesser(good_bytes(r), host_len(r)) = h * n + 0
  BY <1>2, <1>4, <1>5 DEF Lesser
<1> HIDE DEF n, h
<1>7. 0 \in 0..(h - 1)
  BY <1>1
<1>8. (h * n + 0) \div h = n
  BY <1>1, <1>5, <1>7, QuotientUnique
<1> QED
  BY <1>6, <1>8 DEF copied, n, h

LEMMA CopiedNext ==
  ASSUME ControlOK, DataOK, Holding, ChunksConserved, Undisturbed, Course, Buffers,
         [Next]_vars, NEW s \in Requests
  PROVE  Copied(s)'
<1>1. rq' = rq /\ Copied(s) /\ CourseOf(s)
  BY SubmittedStays DEF Buffers, Course
<1> SUFFICES ASSUME pc'[s] = "done", rq[s].op = "read", reply'[s] = "good",
                    NEW i \in Offsets(s)
             PROVE  buf'[s][i] = Bounced(s, i).data'
  BY <1>1 DEF Copied, Offsets
<1>2. i \in 1..MaxSectors /\ i <= rq[s].len
  BY ShapeFacts, EmulationAssumption DEF Offsets
<1>3. CASE buf'[s] = buf[s] /\ pc[s] = "done" /\ reply'[s] = reply[s]
  <2>1. pc[s] \in OnDevice /\ ~Fills(s)
    BY <1>3 DEF OnDevice, Fills, move_bounced
  <2>2. chunks'[s] = chunks[s] /\ page'[ChunkOf(s, i)][SlotOf(i)] = Bounced(s, i)
    BY <2>1, OnDeviceKeeps, BouncedStays
  <2>3. Bounced(s, i)' = Bounced(s, i)
    BY <2>2 DEF Bounced, ChunkOf
  <2>4. buf[s][i] = Bounced(s, i).data
    BY <1>1, <1>3 DEF Copied
  <2> QED
    BY <1>3, <2>3, <2>4
<1>4. CASE /\ pc[s] = "replied" /\ UNCHANGED <<page, chunks, reply>>
           /\ buf'[s] = unpack_sg_bytes(s)
  <2>1. copied(s) = rq[s].len
    BY <1>1, <1>4, CopiedWhole DEF CourseOf
  <2>2. buf'[s][i] = Bounced(s, i).data
    BY <1>2, <1>4, <2>1 DEF unpack_sg_bytes
  <2>3. Bounced(s, i)' = Bounced(s, i)
    BY <1>4 DEF Bounced, ChunkOf
  <2> QED
    BY <2>2, <2>3
<1> QED
  BY <1>3, <1>4, BufferMoves

-----------------------------------------------------------------------------
(***************************************************************************)
(* What a read that succeeds gave its caller.                              *)
(***************************************************************************)
LEMMA SucceedsByEnding ==
  ASSUME ControlOK, DataOK, [Next]_vars, NEW s \in Requests, status'[s] = "ok"
  PROVE  status[s] = "ok" \/ end_request(s)
<1>1. ASSUME NEW r \in Requests \ {s}, Submit(r) \/ Advance(r)
      PROVE  status'[s] = status[s]
  BY <1>1, OthersBeside DEF Beside
<1>2. ASSUME Submit(s) \/ Advance(s), ~end_request(s) PROVE status[s] = "ok"
  BY <1>2 DEF ControlOK, Advance, Submit, setup_not_emulated, prepare_refused,
     prepare_context, alloc_chunk, alloc_refused, prepare_issue, move_bounced,
     move_raw, reply_good, reply_soft, reply_fault, redispatch, sd_done,
     prepare_again, fail_request, retry_command, release_chunk, release_ctx
<1>3. CASE (\E d \in Disks : rescan_clear(d) \/ rescan_set(d)) \/ UNCHANGED vars
  BY <1>3 DEF rescan_clear, rescan_set, vars
<1> QED
  BY <1>1, <1>2, <1>3 DEF Next, AllAnswered

\* A request succeeds only after a good reply to a complete transfer: what a
\* recovered error leaves of good bytes is nothing.
LEMMA SucceedsComplete ==
  ASSUME ControlOK, Course, SenseGiven, NEW s \in Requests, end_request(s)
  PROVE  reply[s] = "good" /\ xfer[s] = rq[s].len
<1>1. pc[s] = "done" /\ reply[s] \in {"good", "recovered"} /\ good[s] >= host_len(s)
  BY DEF end_request, Succeeded, SenseGiven
<1>2. CourseOf(s)
  BY DEF Course
<1>3. ~(0 >= host_len(s))
  <2>1. PICK n \in Nat \ {0} : n = rq[s].len
    BY ShapeFacts
  <2>2. HostSectorSize \in Nat \ {0}
    BY GeometryAssumption
  <2>3. HostSectorSize * n \in Nat /\ HostSectorSize <= HostSectorSize * n
    BY <2>2, PositiveMultiple
  <2>4. host_len(s) = n * HostSectorSize
    BY <2>1 DEF host_len
  <2>5. n * HostSectorSize = HostSectorSize * n
    BY <2>1, <2>2
  <2> QED
    BY <2>2, <2>3, <2>4, <2>5
<1> QED
  BY <1>1, <1>2, <1>3 DEF CourseOf

\* Its caller has what the device delivered.
LEMMA SucceedsWithData ==
  ASSUME ControlOK, Course, Buffers, SenseGiven, NEW s \in Requests, end_request(s),
         rq[s].op = "read", NEW i \in Offsets(s)
  PROVE  /\ buf[s][i] = Bounced(s, i).data /\ i <= xfer[s]
         /\ Genuine(buf[s][i], rq[s].disk, Block(s, i))
<1>1. pc[s] = "done" /\ reply[s] = "good" /\ i <= xfer[s]
  <2>1. i <= rq[s].len
    BY ShapeFacts DEF Offsets
  <2> QED
    BY <2>1, SucceedsComplete DEF end_request
<1>2. Copied(s) /\ BounceBuffer(s)
  BY DEF Buffers
<1> QED
  BY <1>1, <1>2 DEF Copied, BounceBuffer, OnDevice

LEMMA AnswersNext ==
  ASSUME ControlOK, DataOK, Holding, Undisturbed, SenseGiven, DInv, AnswersGenuine,
         [Next]_vars
  PROVE  AnswersGenuine'
<1>1. rq' = rq
  BY SubmittedStays
<1> SUFFICES ASSUME NEW s \in Requests, status'[s] = "ok", rq[s].op = "read",
                    NEW i \in Offsets(s)
             PROVE  Genuine(buf[s][i], rq[s].disk, Block(s, i))'
  BY <1>1 DEF AnswersGenuine, Offsets, Block
<1>2. PICK p \in Payload : p = buf[s][i]
  <2>1. buf[s] \in [1..MaxSectors -> Payload]
    BY DEF DataOK
  <2>2. rq[s].len \in 1..MaxSectors
    BY ShapeFacts
  <2>3. MaxSectors \in Nat
    BY EmulationAssumption
  <2>4. i \in 1..MaxSectors
    BY <2>2, <2>3 DEF Offsets
  <2> QED
    BY <2>1, <2>4
<1>3. PICK d \in Disks, b \in Blocks : d = rq[s].disk /\ b = Block(s, i)
  BY ShapeFacts
<1>4. Genuine(p, d, b)
  <2>1. CASE status[s] = "ok"
    BY <1>2, <1>3, <2>1 DEF AnswersGenuine
  <2>2. CASE end_request(s)
    BY <1>2, <1>3, <2>2, SucceedsWithData DEF DInv
  <2> QED
    BY <2>1, <2>2, SucceedsByEnding
<1>5. Genuine(p, d, b)'
  BY <1>4, GenuineStays
<1>6. buf'[s] = buf[s]
  <2>1. pc[s] # "replied"
    <3>1. CASE status[s] = "ok"
      BY <3>1 DEF DInv, Course, CourseOf, OnDevice
    <3>2. CASE end_request(s)
      BY <3>2 DEF end_request
    <3> QED
      BY <3>1, <3>2, SucceedsByEnding
  <2> QED
    BY <2>1, BufferMoves DEF DInv
<1> QED
  BY <1>1, <1>2, <1>3, <1>5, <1>6 DEF Genuine, Block

-----------------------------------------------------------------------------
(***************************************************************************)
(* The theorems.                                                           *)
(***************************************************************************)
LEMMA DataInvInit == Init => DInv
  BY CourseInit, StoredInit, BuffersInit DEF DInv

LEMMA DataInvNext == IInv /\ Undisturbed /\ DInv /\ [Next]_vars => DInv'
<1> SUFFICES ASSUME IInv, Undisturbed, DInv, [Next]_vars PROVE DInv'
  OBVIOUS
<1> USE DEF IInv, DInv
<1>1. Course'
  BY CourseNext
<1>2. Stored'
  BY StoredNext
<1>3. Buffers'
  BY HostBufferNext, BounceBufferNext, CopiedNext DEF Buffers
<1> QED
  BY <1>1, <1>2, <1>3

LEMMA DataInvariance == Spec /\ []Undisturbed => []DInv
<1>1. Init => DInv
  BY DataInvInit
<1>2. IInv /\ Undisturbed /\ DInv /\ [Next]_vars => DInv'
  BY DataInvNext
<1> QED
  BY <1>1, <1>2, Invariance, PTL DEF Spec

LEMMA AnswersInvariance == Spec /\ []Undisturbed /\ []SenseGiven => []AnswersGenuine
<1>1. Init => AnswersGenuine
  BY DEF Init, AnswersGenuine
<1>2. IInv /\ Undisturbed /\ SenseGiven /\ DInv /\ AnswersGenuine /\ [Next]_vars
        => AnswersGenuine'
  BY AnswersNext DEF IInv
<1> QED
  BY <1>1, <1>2, Invariance, DataInvariance, PTL DEF Spec

(***************************************************************************)
(* sd_528_pack_sg_blocks and the bounce scatterlist put each sector of a   *)
(* write in its place with a zeroed trailer, in any interleaving of any    *)
(* number of requests on any number of disks, also when a write is failed  *)
(* or starts over in the middle: while no revalidation clears the flag of  *)
(* a disk under load, and no reset makes the mid-layer send a command      *)
(* again after its buffer was swapped back.                                *)
(***************************************************************************)
THEOREM SectorsStayInPlace == Spec /\ []Undisturbed => []StoredInPlace
<1>1. Stored => StoredInPlace
  BY DEF Stored, StoredInPlace, Genuine
<1> QED
  BY <1>1, DataInvariance, PTL DEF DInv

(***************************************************************************)
(* A read that sd_done and scsi_io_completion report as a success gave its *)
(* caller a payload of each of its sectors, the first one or one a write   *)
(* of that sector was submitted with.  Besides, this needs a device that   *)
(* never ends a command early with a check condition without sense, which  *)
(* the driver takes for a success.                                         *)
(***************************************************************************)
THEOREM ReadsGetTheirSectors ==
  Spec /\ []Undisturbed /\ []SenseGiven => []ReadsReturnTheirSectors
<1>1. AnswersGenuine => ReadsReturnTheirSectors
  BY DEF AnswersGenuine, ReadsReturnTheirSectors, Genuine
<1> QED
  BY <1>1, AnswersInvariance, PTL

-----------------------------------------------------------------------------
(***************************************************************************)
(* The driver implements BlockDevice.  What BlockDevice sees of a request  *)
(* and of the disks, as the substitution of Abstract says:                 *)
(***************************************************************************)
movedOf(r) == IF Pending(r) THEN 1..xfer[r] ELSE {}
gotOf(r) == [i \in 1..MaxSectors |->
               IF Pending(r) /\ rq[r].op = "read" /\ i <= xfer[r] /\ ctx[r]
                 THEN Bounced(r, i).data ELSE Garbage]
answerOf(r) == [i \in 1..MaxSectors |->
                  IF status[r] = "ok" /\ rq[r].op = "read" THEN buf[r][i] ELSE Garbage]
Nothing == [i \in 1..MaxSectors |-> Garbage]

stored == [d \in Disks |-> [b \in Blocks |-> store[d][b].data]]
moved == [r \in Requests |-> movedOf(r)]
got == [r \in Requests |-> gotOf(r)]
answer == [r \in Requests |-> answerOf(r)]

\* The steps of BlockDevice in these words.
LEMMA AbstractSteps ==
  ASSUME rq' = rq, NEW r \in Requests
  PROVE  /\ UNCHANGED <<status, stored, moved, got, answer>> => UNCHANGED Abstract!vars
         /\ (/\ status[r] = "idle"
             /\ status' = [status EXCEPT ![r] = "pending"]
             /\ UNCHANGED <<stored, moved, got, answer>>) => Abstract!Submit(r)
         /\ (/\ status[r] = "pending"
             /\ moved' = [moved EXCEPT ![r] = {}]
             /\ got' = [got EXCEPT ![r] = Nothing]
             /\ UNCHANGED <<status, stored, answer>>) => Abstract!StartOver(r)
         /\ (/\ status[r] = "pending"
             /\ \/ /\ moved[r] = Offsets(r)
                   /\ status' = [status EXCEPT ![r] = "ok"]
                   /\ answer' = [answer EXCEPT ![r] = got[r]]
                \/ /\ status' = [status EXCEPT ![r] = "error"]
                   /\ UNCHANGED answer
             /\ moved' = [moved EXCEPT ![r] = {}]
             /\ got' = [got EXCEPT ![r] = Nothing]
             /\ UNCHANGED stored) => Abstract!Finish(r)
<1> USE DEF stored, moved, got, answer, movedOf, gotOf, answerOf, Nothing,
            Abstract!Nothing
<1>1. UNCHANGED <<status, stored, moved, got, answer>> => UNCHANGED Abstract!vars
  BY Zenon DEF Abstract!vars
<1>2. (/\ status[r] = "idle"
       /\ status' = [status EXCEPT ![r] = "pending"]
       /\ UNCHANGED <<stored, moved, got, answer>>) => Abstract!Submit(r)
  BY Zenon DEF Abstract!Submit
<1>3. (/\ status[r] = "pending"
       /\ moved' = [moved EXCEPT ![r] = {}]
       /\ got' = [got EXCEPT ![r] = Nothing]
       /\ UNCHANGED <<status, stored, answer>>) => Abstract!StartOver(r)
  BY Zenon DEF Abstract!StartOver
<1>4. (/\ status[r] = "pending"
       /\ \/ /\ moved[r] = Offsets(r)
             /\ status' = [status EXCEPT ![r] = "ok"]
             /\ answer' = [answer EXCEPT ![r] = got[r]]
          \/ /\ status' = [status EXCEPT ![r] = "error"]
             /\ UNCHANGED answer
       /\ moved' = [moved EXCEPT ![r] = {}]
       /\ got' = [got EXCEPT ![r] = Nothing]
       /\ UNCHANGED stored) => Abstract!Finish(r)
  BY Zenon DEF Abstract!Finish, Offsets, Abstract!Offsets
<1> QED
  BY <1>1, <1>2, <1>3, <1>4

LEMMA AbstractMove ==
  ASSUME rq' = rq, NEW r \in Requests, NEW i \in Offsets(r),
         status[r] = "pending", i \notin moved[r],
         moved' = [moved EXCEPT ![r] = @ \cup {i}],
         \/ /\ rq[r].op = "read"
            /\ got' = [got EXCEPT ![r][i] = stored[rq[r].disk][Block(r, i)]]
            /\ UNCHANGED stored
         \/ /\ rq[r].op = "write"
            /\ stored' = [stored EXCEPT ![rq[r].disk][Block(r, i)]
                                          = Written(r, Block(r, i))]
            /\ UNCHANGED got,
         UNCHANGED <<status, answer>>
  PROVE  Abstract!Move(r, i)
BY Zenon DEF stored, moved, got, answer, movedOf, gotOf, answerOf,
   Abstract!Move, Block, Abstract!Block, Written, Abstract!Written

-----------------------------------------------------------------------------
(***************************************************************************)
(* How a step changes what is seen of one request.                         *)
(***************************************************************************)
Faithful == IInv /\ DInv /\ Undisturbed /\ SenseGiven

LEMMA FaithfulFacts ==
  ASSUME Faithful
  PROVE  /\ ControlOK /\ DataOK /\ Holding /\ ChunksConserved
         /\ Course /\ Stored /\ Buffers /\ Undisturbed /\ SenseGiven
BY DEF Faithful, IInv, DInv

\* A request that has moved nothing shows nothing.
LEMMA NothingGot ==
  ASSUME ControlOK, NEW s \in Requests, status[s] = "pending" => xfer[s] = 0
  PROVE  movedOf(s) = {} /\ gotOf(s) = Nothing
<1>1. MaxSectors \in Nat
  BY EmulationAssumption
<1>2. movedOf(s) = {}
  BY DEF movedOf, Pending
<1>3. \A i \in 1..MaxSectors : ~(Pending(s) /\ i <= xfer[s])
  BY <1>1 DEF Pending
<1>4. gotOf(s) = Nothing
  BY <1>3 DEF gotOf, Nothing
<1> QED
  BY <1>2, <1>4

LEMMA NothingGotNext ==
  ASSUME ControlOK', NEW s \in Requests, status'[s] = "pending" => xfer'[s] = 0
  PROVE  movedOf(s)' = {} /\ gotOf(s)' = Nothing
<1>1. MaxSectors \in Nat
  BY EmulationAssumption
<1>2. movedOf(s)' = {}
  BY DEF movedOf, Pending
<1>3. \A i \in 1..MaxSectors : ~(Pending(s)' /\ i <= xfer'[s])
  BY <1>1 DEF Pending
<1>4. gotOf(s)' = Nothing
  BY <1>3 DEF gotOf, Nothing
<1> QED
  BY <1>2, <1>4

\* What a request has read so far is not touched by other steps.
LEMMA GotStays ==
  ASSUME Faithful, [Next]_vars, NEW s \in Requests,
         status'[s] = status[s], xfer'[s] = xfer[s], ctx'[s] = ctx[s]
  PROVE  movedOf(s)' = movedOf(s) /\ gotOf(s)' = gotOf(s)
<1> USE FaithfulFacts
<1>1. rq' = rq /\ CourseOf(s)
  BY SubmittedStays DEF Course
<1>2. movedOf(s)' = movedOf(s)
  BY DEF movedOf, Pending
<1>3. ASSUME NEW i \in 1..MaxSectors, Pending(s), i <= xfer[s]
      PROVE  Bounced(s, i)' = Bounced(s, i)
  <2>1. xfer[s] # 0 /\ i \in Offsets(s)
    <3>1. xfer[s] \in Nat /\ rq[s].len \in Nat /\ i \in Nat \ {0}
      BY ShapeFacts, EmulationAssumption DEF ControlOK
    <3> QED
      BY <1>1, <1>3, <3>1 DEF Offsets, CourseOf
  <2>2. pc[s] \in OnDevice
    BY <1>1, <1>3, <2>1 DEF CourseOf, OnDevice, Pending
  <2>3. ~Fills(s)
    BY EmulationAssumption DEF Fills, move_bounced, ControlOK
  <2>4. chunks'[s] = chunks[s] /\ page'[ChunkOf(s, i)][SlotOf(i)] = Bounced(s, i)
    BY <2>1, <2>2, <2>3, OnDeviceKeeps, BouncedStays
  <2> QED
    BY <2>4 DEF Bounced, ChunkOf
<1>4. gotOf(s)' = gotOf(s)
  BY <1>1, <1>3 DEF gotOf, Pending
<1> QED
  BY <1>2, <1>4

LEMMA AnswerStays ==
  ASSUME Faithful, [Next]_vars, NEW s \in Requests,
         status'[s] = status[s] \/ (status[s] # "ok" /\ status'[s] # "ok")
  PROVE  answerOf(s)' = answerOf(s)
<1> USE FaithfulFacts
<1>1. rq' = rq /\ CourseOf(s)
  BY SubmittedStays DEF Course
<1>2. ASSUME status[s] = "ok" PROVE buf'[s] = buf[s]
  <2>1. pc[s] # "replied"
    BY <1>1, <1>2 DEF CourseOf, OnDevice
  <2> QED
    BY <2>1, BufferMoves
<1> QED
  BY <1>1, <1>2 DEF answerOf

\* A request that a step leaves alone, or lets start without a change of status.
Quiet(s) ==
  /\ status'[s] = status[s]
  /\ \/ xfer'[s] = xfer[s] /\ ctx'[s] = ctx[s]
     \/ status[s] = "pending" => xfer[s] = 0 /\ xfer'[s] = 0

LEMMA QuietView ==
  ASSUME Faithful, [Next]_vars, NEW s \in Requests, Quiet(s)
  PROVE  /\ movedOf(s)' = movedOf(s) /\ gotOf(s)' = gotOf(s)
         /\ answerOf(s)' = answerOf(s)
<1>1. answerOf(s)' = answerOf(s)
  BY AnswerStays DEF Quiet
<1>2. CASE xfer'[s] = xfer[s] /\ ctx'[s] = ctx[s]
  BY <1>1, <1>2, GotStays DEF Quiet
<1>3. CASE status[s] = "pending" => xfer[s] = 0 /\ xfer'[s] = 0
  <2>1. ControlOK /\ ControlOK'
    BY FaithfulFacts, ControlNext
  <2> QED
    BY <1>1, <1>3, <2>1, NothingGot, NothingGotNext DEF Quiet
<1> QED
  BY <1>2, <1>3 DEF Quiet

LEMMA OthersQuiet ==
  ASSUME Faithful, [Next]_vars, NEW r \in Requests, Submit(r) \/ Advance(r),
         NEW s \in Requests \ {r}
  PROVE  /\ status'[s] = status[s]
         /\ movedOf(s)' = movedOf(s) /\ gotOf(s)' = gotOf(s)
         /\ answerOf(s)' = answerOf(s)
<1>1. Beside(s)
  BY FaithfulFacts, OthersBeside
<1>2. Quiet(s)
  BY <1>1 DEF Beside, Untouched, Quiet
<1> QED
  BY <1>2, QuietView DEF Quiet

\* What is seen changes for the request that takes the step.
LEMMA ViewUpdates ==
  ASSUME Faithful, [Next]_vars, NEW r \in Requests, Submit(r) \/ Advance(r)
  PROVE  /\ moved' = [moved EXCEPT ![r] = movedOf(r)']
         /\ got' = [got EXCEPT ![r] = gotOf(r)']
         /\ answer' = [answer EXCEPT ![r] = answerOf(r)']
<1>1. \A s \in Requests \ {r} : /\ movedOf(s)' = movedOf(s) /\ gotOf(s)' = gotOf(s)
                                /\ answerOf(s)' = answerOf(s)
  BY OthersQuiet
<1>2. moved' = [moved EXCEPT ![r] = movedOf(r)']
  BY <1>1 DEF moved
<1>3. got' = [got EXCEPT ![r] = gotOf(r)']
  BY <1>1 DEF got
<1>4. answer' = [answer EXCEPT ![r] = answerOf(r)']
  BY <1>1 DEF answer
<1> QED
  BY <1>2, <1>3, <1>4

-----------------------------------------------------------------------------
(***************************************************************************)
(* Each step of the driver is one of BlockDevice, or changes nothing there.*)
(***************************************************************************)
LEMMA StutterMaps ==
  ASSUME Faithful, [Next]_vars, NEW r \in Requests, Submit(r) \/ Advance(r),
         Quiet(r), status' = status, store' = store
  PROVE  UNCHANGED Abstract!vars
<1>1. /\ movedOf(r)' = movedOf(r) /\ gotOf(r)' = gotOf(r)
      /\ answerOf(r)' = answerOf(r)
  BY QuietView
<1>2. moved' = moved /\ got' = got /\ answer' = answer
  BY <1>1, ViewUpdates DEF moved, got, answer
<1>3. stored' = stored
  BY DEF stored
<1>4. rq' = rq
  BY FaithfulFacts, SubmittedStays
<1> QED
  BY <1>2, <1>3, <1>4, AbstractSteps

LEMMA QuietSteps ==
  ASSUME Faithful, NEW r \in Requests,
         \/ prepare_context(r) \/ alloc_chunk(r) \/ alloc_refused(r)
         \/ prepare_issue(r) \/ reply_good(r) \/ reply_fault(r) \/ redispatch(r)
         \/ sd_done(r) \/ release_chunk(r) \/ release_ctx(r)
  PROVE  Quiet(r) /\ status' = status /\ store' = store
<1> USE DEF Quiet, device
<1>1. CourseOf(r)
  BY FaithfulFacts DEF Course
<1>2. CASE prepare_context(r)
  BY <1>1, <1>2 DEF prepare_context, CourseOf
<1>3. CASE \/ alloc_chunk(r) \/ alloc_refused(r) \/ prepare_issue(r) \/ reply_good(r)
           \/ reply_fault(r) \/ redispatch(r) \/ sd_done(r) \/ release_chunk(r)
  BY <1>3 DEF alloc_chunk, alloc_refused, prepare_issue, reply_good, reply_fault,
     redispatch, sd_done, release_chunk
<1>4. CASE release_ctx(r)
  BY <1>1, <1>4, FaithfulFacts DEF release_ctx, CourseOf, ControlOK
<1> QED
  BY <1>2, <1>3, <1>4

LEMMA SubmitMaps ==
  ASSUME Faithful, [Next]_vars, NEW r \in Requests, Submit(r)
  PROVE  Abstract!Submit(r)
<1> USE FaithfulFacts
<1>1. /\ status[r] = "idle" /\ status' = [status EXCEPT ![r] = "pending"]
      /\ store' = store /\ xfer[r] = 0 /\ xfer' = xfer
  BY DEF Submit, device, Course, CourseOf
<1>2. ControlOK' /\ status'[r] = "pending"
  BY <1>1, ControlNext DEF ControlOK
<1>3. /\ movedOf(r)' = movedOf(r) /\ gotOf(r)' = gotOf(r)
      /\ answerOf(r)' = answerOf(r)
  BY <1>1, <1>2, NothingGot, NothingGotNext, AnswerStays
<1>4. moved' = moved /\ got' = got /\ answer' = answer
  BY <1>3, ViewUpdates DEF moved, got, answer
<1>5. stored' = stored /\ rq' = rq
  BY <1>1, SubmittedStays DEF stored
<1> QED
  BY <1>1, <1>4, <1>5, AbstractSteps

\* BLK_STS_IOERR, and an error after part of a transfer.
LEMMA FailureMaps ==
  ASSUME Faithful, [Next]_vars, NEW r \in Requests,
         prepare_refused(r) \/ fail_request(r)
  PROVE  Abstract!Finish(r)
<1> USE FaithfulFacts
<1>1. /\ status[r] = "pending" /\ status' = [status EXCEPT ![r] = "error"]
      /\ store' = store
  BY DEF prepare_refused, fail_request, device, Course, CourseOf, OnDevice
<1>2. ControlOK' /\ status'[r] = "error"
  BY <1>1, ControlNext DEF ControlOK
<1>3. movedOf(r)' = {} /\ gotOf(r)' = Nothing /\ answerOf(r)' = answerOf(r)
  BY <1>1, <1>2, NothingGotNext, AnswerStays
<1>4. Submit(r) \/ Advance(r)
  BY DEF Advance
<1>5. /\ moved' = [moved EXCEPT ![r] = {}] /\ got' = [got EXCEPT ![r] = Nothing]
      /\ answer' = answer
  BY <1>3, <1>4, ViewUpdates DEF answer
<1>6. stored' = stored /\ rq' = rq
  BY <1>1, SubmittedStays DEF stored
<1> QED
  BY <1>1, <1>5, <1>6, AbstractSteps

\* A soft error, and what is left after a recovered one.
LEMMA RetryMaps ==
  ASSUME Faithful, [Next]_vars, NEW r \in Requests,
         reply_soft(r) \/ prepare_again(r)
  PROVE  Abstract!StartOver(r)
<1> USE FaithfulFacts
<1>1. /\ status[r] = "pending" /\ status' = status /\ store' = store
      /\ xfer' = [xfer EXCEPT ![r] = 0]
  BY DEF reply_soft, prepare_again, device, Course, CourseOf, OnDevice
<1>2. ControlOK' /\ xfer'[r] = 0
  BY <1>1, ControlNext DEF ControlOK
<1>3. movedOf(r)' = {} /\ gotOf(r)' = Nothing /\ answerOf(r)' = answerOf(r)
  BY <1>1, <1>2, NothingGotNext, AnswerStays
<1>4. Submit(r) \/ Advance(r)
  BY DEF Advance
<1>5. /\ moved' = [moved EXCEPT ![r] = {}] /\ got' = [got EXCEPT ![r] = Nothing]
      /\ answer' = answer
  BY <1>3, <1>4, ViewUpdates DEF answer
<1>6. stored' = stored /\ rq' = rq
  BY <1>1, SubmittedStays DEF stored
<1> QED
  BY <1>1, <1>5, <1>6, AbstractSteps

LEMMA SuccessMaps ==
  ASSUME Faithful, [Next]_vars, NEW r \in Requests, end_request(r)
  PROVE  Abstract!Finish(r)
<1> USE FaithfulFacts
<1>1. /\ pc[r] = "done" /\ status' = [status EXCEPT ![r] = "ok"]
      /\ store' = store /\ buf' = buf
  BY DEF end_request, device
<1>2. status[r] = "pending" /\ ctx[r] /\ xfer[r] = rq[r].len
  BY <1>1, SucceedsComplete DEF Course, CourseOf, OnDevice
<1>3. ControlOK' /\ status'[r] = "ok" /\ rq' = rq
  BY <1>1, ControlNext, SubmittedStays DEF ControlOK
<1>4. movedOf(r) = Offsets(r)
  BY <1>2 DEF movedOf, Pending, Offsets
<1>5. movedOf(r)' = {} /\ gotOf(r)' = Nothing
  BY <1>3, NothingGotNext
<1>6. ASSUME NEW i \in 1..MaxSectors
      PROVE  answerOf(r)'[i] = gotOf(r)[i]
  <2>1. i \in Offsets(r) <=> i <= xfer[r]
    BY <1>2, ShapeFacts, EmulationAssumption DEF Offsets
  <2>2. answerOf(r)'[i] = IF rq[r].op = "read" THEN buf[r][i] ELSE Garbage
    BY <1>1, <1>3 DEF answerOf
  <2>3. gotOf(r)[i] = IF rq[r].op = "read" /\ i \in Offsets(r)
                        THEN Bounced(r, i).data ELSE Garbage
    BY <1>2, <2>1 DEF gotOf, Pending
  <2>4. rq[r].op = "read" /\ i \in Offsets(r) => buf[r][i] = Bounced(r, i).data
    BY SucceedsWithData
  <2>5. rq[r].op = "read" /\ i \notin Offsets(r) => buf[r][i] = Garbage
    BY DEF Buffers, HostBuffer
  <2> QED
    BY <2>2, <2>3, <2>4, <2>5
<1>7. answerOf(r)' = gotOf(r)
  BY <1>6 DEF answerOf, gotOf
<1>8. Submit(r) \/ Advance(r)
  BY DEF Advance
<1>9. /\ moved[r] = Offsets(r) /\ got[r] = gotOf(r)
      /\ moved' = [moved EXCEPT ![r] = {}] /\ got' = [got EXCEPT ![r] = Nothing]
      /\ answer' = [answer EXCEPT ![r] = gotOf(r)]
  BY <1>4, <1>5, <1>7, <1>8, ViewUpdates DEF moved, got
<1>10. stored' = stored
  BY <1>1 DEF stored
<1> QED
  BY <1>1, <1>2, <1>3, <1>9, <1>10, AbstractSteps

\* The device moves one sector.
LEMMA MoveMaps ==
  ASSUME Faithful, [Next]_vars, NEW r \in Requests, move_bounced(r)
  PROVE  \E i \in Offsets(r) : Abstract!Move(r, i)
<1> USE FaithfulFacts
<1> DEFINE i == xfer[r] + 1
           d == rq[r].disk
           b == Block(r, i)
<1>1. i \in Offsets(r) /\ d \in Disks /\ b \in Blocks
  BY NextOffset, ShapeFacts
<1>2. pc[r] \in OnDevice /\ status[r] = "pending" /\ ctx[r]
  BY OnDeviceHolds DEF move_bounced, OnDevice, Course, CourseOf
<1>3. /\ status' = status /\ ctx' = ctx /\ chunks' = chunks
      /\ xfer'[r] = i /\ rq' = rq
  BY DEF move_bounced, ControlOK
<1>4. xfer[r] \in Nat /\ i \in Nat
  BY EmulationAssumption DEF ControlOK
<1>5. i \notin moved[r] /\ movedOf(r)' = movedOf(r) \cup {i} /\ moved[r] = movedOf(r)
  BY <1>2, <1>3, <1>4 DEF moved, movedOf, Pending
<1>6. answerOf(r)' = answerOf(r)
  BY <1>3, AnswerStays
<1>7. Advance(r)
  BY DEF Advance
<1> HIDE DEF i
<1>8. moved' = [moved EXCEPT ![r] = @ \cup {i}] /\ answer' = answer
  BY <1>5, <1>6, <1>7, ViewUpdates DEF answer
<1>9. got' = [got EXCEPT ![r] = gotOf(r)'] /\ got[r] = gotOf(r)
  BY <1>7, ViewUpdates DEF got
<1>10. CASE rq[r].op = "read"
  <2>1. Fills(r) /\ store' = store
    BY <1>10 DEF Fills, move_bounced
  <2>2. ASSUME NEW k \in 1..MaxSectors
        PROVE  gotOf(r)'[k] = IF k = i THEN store[d][b].data ELSE gotOf(r)[k]
    <3>1. k \in Nat \ {0} /\ k <= i /\ k # i => k <= xfer[r]
      BY <1>4 DEF i
    <3>2. k \in Nat \ {0} /\ (k <= xfer[r] => k <= i)
      BY <1>4, EmulationAssumption DEF i
    <3>3. gotOf(r)'[k] = IF k <= i THEN Bounced(r, k)'.data ELSE Garbage
      BY <1>2, <1>3, <1>10 DEF gotOf, Pending
    <3>4. gotOf(r)[k] = IF k <= xfer[r] THEN Bounced(r, k).data ELSE Garbage
      BY <1>2, <1>10 DEF gotOf, Pending
    <3>5. Bounced(r, k)' = page'[ChunkOf(r, k)][SlotOf(k)]
      BY <1>3 DEF Bounced, ChunkOf
    <3>6. CASE k = i
      <4>1. Bounced(r, k)' = store[d][b]
        BY <2>1, <3>5, <3>6, FilledFacts DEF i
      <4> QED
        BY <1>4, <3>3, <3>6, <4>1
    <3>7. CASE k # i /\ k <= i
      <4>1. k \in Offsets(r)
        BY <1>1, <1>4, <3>2, <3>7, ShapeFacts DEF Offsets
      <4>2. Bounced(r, k)' = Bounced(r, k)
        BY <1>2, <3>5, <3>7, <4>1, BouncedStays DEF i
      <4> QED
        BY <3>1, <3>2, <3>3, <3>4, <3>7, <4>2
    <3>8. CASE ~(k <= i)
      BY <1>4, <3>2, <3>3, <3>4, <3>8
    <3> QED
      BY <3>6, <3>7, <3>8
  <2> HIDE DEF d, b
  <2>3. gotOf(r)' = [gotOf(r) EXCEPT ![i] = store[d][b].data]
    BY <2>2 DEF gotOf
  <2>4. stored[d][b] = store[d][b].data
    BY <1>1 DEF stored
  <2>5. got' = [got EXCEPT ![r][i] = stored[d][b]]
    BY <1>9, <2>3, <2>4
  <2>6. stored' = stored
    BY <2>1 DEF stored
  <2> QED
    BY <1>1, <1>2, <1>3, <1>5, <1>8, <1>10, <2>5, <2>6, AbstractMove DEF d, b
<1>11. CASE rq[r].op = "write"
  <2>1. /\ Stores(r)
        /\ store' = [store EXCEPT ![d][b] = Bounced(r, i)]
    BY <1>11 DEF Stores, move_bounced, i
  <2>2. Bounced(r, i) = [data |-> Written(r, b), zero |-> TRUE]
    BY <2>1, StoresPacked DEF i
  <2>3. gotOf(r)' = gotOf(r)
    BY <1>3, <1>11 DEF gotOf
  <2>4. got' = got
    BY <1>9, <2>3 DEF got
  <2> HIDE DEF d, b
  <2>5. stored' = [stored EXCEPT ![d][b] = Written(r, b)]
    <3>1. \A e \in Disks, c \in Blocks :
            store'[e][c] = IF e = d /\ c = b THEN Bounced(r, i) ELSE store[e][c]
      BY <1>1, <2>1 DEF DataOK
    <3>2. \A e \in Disks, c \in Blocks :
            stored'[e][c] = IF e = d /\ c = b THEN Written(r, b) ELSE stored[e][c]
      BY <2>2, <3>1 DEF stored
    <3>3. ASSUME NEW e \in Disks
          PROVE  stored'[e] = IF e = d THEN [stored[d] EXCEPT ![b] = Written(r, b)]
                                       ELSE stored[e]
      <4>1. /\ stored'[e] = [c \in Blocks |-> stored'[e][c]]
            /\ stored[e] = [c \in Blocks |-> stored[e][c]]
        BY DEF stored
      <4> HIDE DEF stored
      <4> QED
        BY <1>1, <3>2, <4>1
    <3>4. stored = [e \in Disks |-> stored[e]] /\ stored' = [e \in Disks |-> stored'[e]]
      BY DEF stored
    <3> QED
      BY <1>1, <3>3, <3>4
  <2> QED
    BY <1>1, <1>2, <1>3, <1>5, <1>8, <1>11, <2>4, <2>5, AbstractMove DEF d, b
<1>12. rq[r].op \in {"read", "write"}
  BY ShapeFacts DEF Operations
<1> QED
  BY <1>10, <1>11, <1>12

LEMMA InitMaps == Init => Abstract!Init
<1> SUFFICES ASSUME Init PROVE Abstract!Init
  OBVIOUS
<1>1. ControlOK /\ rq \in [Requests -> Shapes] /\ status = [r \in Requests |-> "idle"]
  BY ControlInit DEF Init
<1>2. ASSUME NEW r \in Requests
      PROVE  movedOf(r) = {} /\ gotOf(r) = Nothing /\ answerOf(r) = Nothing
  <2>1. status[r] = "idle"
    BY <1>1
  <2>2. movedOf(r) = {} /\ gotOf(r) = Nothing
    BY <1>1, <2>1, NothingGot
  <2>3. answerOf(r) = Nothing
    BY <2>1 DEF answerOf, Nothing
  <2> QED
    BY <2>2, <2>3
<1>3. /\ moved = [r \in Requests |-> {}]
      /\ got = [r \in Requests |-> Nothing]
      /\ answer = [r \in Requests |-> Nothing]
  BY <1>2 DEF moved, got, answer
<1>4. stored = [d \in Disks |-> [b \in Blocks |-> Initial(b)]]
  BY DEF Init, stored
<1> QED
  BY <1>1, <1>3, <1>4, Zenon DEF Abstract!Init, moved, got, answer, stored, movedOf,
     gotOf, answerOf, Nothing, Abstract!Nothing, Initial, Abstract!Initial

LEMMA StepMaps ==
  ASSUME Faithful, [Next]_vars
  PROVE  [Abstract!Next]_(Abstract!vars)
<1>1. ASSUME NEW r \in Requests, Submit(r) \/ Advance(r)
      PROVE  Abstract!Next \/ UNCHANGED Abstract!vars
  <2>1. ~setup_not_emulated(r) /\ ~move_raw(r) /\ ~retry_command(r)
    BY FaithfulFacts, ShapeFacts DEF setup_not_emulated, move_raw, retry_command,
       Undisturbed, Course, CourseOf
  <2>2. CASE Submit(r)
    BY <2>2, SubmitMaps DEF Abstract!Next
  <2>3. CASE prepare_refused(r) \/ fail_request(r)
    BY <2>3, FailureMaps DEF Abstract!Next
  <2>4. CASE reply_soft(r) \/ prepare_again(r)
    BY <2>4, RetryMaps DEF Abstract!Next
  <2>5. CASE end_request(r)
    BY <2>5, SuccessMaps DEF Abstract!Next
  <2>6. CASE move_bounced(r)
    BY <2>6, MoveMaps DEF Abstract!Next, Offsets, Abstract!Offsets
  <2>7. CASE \/ prepare_context(r) \/ alloc_chunk(r) \/ alloc_refused(r)
             \/ prepare_issue(r) \/ reply_good(r) \/ reply_fault(r) \/ redispatch(r)
             \/ sd_done(r) \/ release_chunk(r) \/ release_ctx(r)
    BY <1>1, <2>7, QuietSteps, StutterMaps
  <2> QED
    BY <1>1, <2>1, <2>2, <2>3, <2>4, <2>5, <2>6, <2>7 DEF Advance
<1>2. CASE (\E d \in Disks : rescan_clear(d) \/ rescan_set(d)) \/ UNCHANGED vars
  <2>1. UNCHANGED <<rq, status, ctx, chunks, buf, xfer, page, store>>
    BY <1>2 DEF rescan_clear, rescan_set, vars, device
  <2> QED
    BY <2>1 DEF Abstract!vars, Pending, Bounced, ChunkOf
<1> QED
  BY <1>1, <1>2 DEF Next, AllAnswered

(***************************************************************************)
(* wvg-sd-528.patch makes of 528-byte sectors a disk of 512-byte sectors:  *)
(* whatever the block layer sees of an emulated disk, it could see of      *)
(* BlockDevice, however the requests interleave in the driver, whether     *)
(* allocations fail, commands are sent again after a soft error or a       *)
(* recovered one, or requests fail in the middle of a transfer.            *)
(***************************************************************************)
THEOREM EmulationImplementsBlockDevice ==
  Spec /\ []Undisturbed /\ []SenseGiven => ImplementsBlockDevice
<1>1. Init => Abstract!Init
  BY InitMaps
<1>2. Faithful /\ [Next]_vars => [Abstract!Next]_(Abstract!vars)
  BY StepMaps
<1>3. Spec /\ []Undisturbed /\ []SenseGiven => []Faithful
  BY Invariance, DataInvariance, PTL DEF Faithful
<1> QED
  BY <1>1, <1>2, <1>3, PTL DEF Spec, ImplementsBlockDevice, Abstract!Spec

-----------------------------------------------------------------------------
(***************************************************************************)
(* The circumstances, in terms of the constants.                           *)
(***************************************************************************)
LEMMA UndisturbedStays ==
  ASSUME "reset" \notin Faults, MaxRescans = 0
  PROVE  Spec => []Undisturbed
<1>1. Init => Undisturbed
  BY DEF Init, Undisturbed
<1>2. IInv /\ Undisturbed /\ [Next]_vars => Undisturbed'
  <2> SUFFICES ASSUME IInv, Undisturbed, [Next]_vars PROVE Undisturbed'
    OBVIOUS
  <2> USE DEF IInv
  <2>1. \A d \in Disks : ~rescan_clear(d)
    BY DEF rescan_clear, ControlOK
  <2>2. ASSUME NEW r \in Requests, reply_good(r) \/ reply_fault(r) PROVE Undisturbed'
    BY <2>2 DEF reply_good, reply_fault, Undisturbed, ControlOK
  <2>3. ASSUME NEW r \in Requests, Submit(r) \/ Advance(r), ~reply_good(r), ~reply_fault(r)
        PROVE  UNCHANGED <<from528, reply>>
    BY <2>3 DEF Advance, Submit, setup_not_emulated, prepare_refused,
       prepare_context, alloc_chunk, alloc_refused, prepare_issue, move_bounced,
       move_raw, reply_soft, redispatch, sd_done, end_request, prepare_again,
       fail_request, retry_command, release_chunk, release_ctx
  <2>4. ASSUME NEW d \in Disks, rescan_set(d) PROVE Undisturbed'
    BY <2>4 DEF rescan_set, Undisturbed, ControlOK
  <2>5. UNCHANGED <<from528, reply>> => Undisturbed'
    BY DEF Undisturbed
  <2> QED
    BY <2>1, <2>2, <2>3, <2>4, <2>5 DEF Next, AllAnswered, vars
<1> QED
  BY <1>1, <1>2, Invariance, PTL DEF Spec

LEMMA SenseStaysGiven ==
  ASSUME "noSense" \notin Faults
  PROVE  Spec => []SenseGiven
<1>1. Init => SenseGiven
  BY DEF Init, SenseGiven
<1>2. IInv /\ SenseGiven /\ [Next]_vars => SenseGiven'
  <2> SUFFICES ASSUME IInv, SenseGiven, [Next]_vars PROVE SenseGiven'
    OBVIOUS
  <2> USE DEF IInv
  <2>1. ASSUME NEW r \in Requests, reply_good(r) \/ reply_fault(r) PROVE SenseGiven'
    BY <2>1 DEF reply_good, reply_fault, SenseGiven, ControlOK
  <2>2. ASSUME NEW r \in Requests, Submit(r) \/ Advance(r), ~reply_good(r), ~reply_fault(r)
        PROVE  reply' = reply
    BY <2>2 DEF Advance, Submit, setup_not_emulated, prepare_refused,
       prepare_context, alloc_chunk, alloc_refused, prepare_issue, move_bounced,
       move_raw, reply_soft, redispatch, sd_done, end_request, prepare_again,
       fail_request, retry_command, release_chunk, release_ctx
  <2>3. CASE (\E d \in Disks : rescan_clear(d) \/ rescan_set(d)) \/ UNCHANGED vars
    BY <2>3 DEF rescan_clear, rescan_set, vars, SenseGiven
  <2>4. reply' = reply => SenseGiven'
    BY DEF SenseGiven
  <2> QED
    BY <2>1, <2>2, <2>3, <2>4 DEF Next, AllAnswered
<1> QED
  BY <1>1, <1>2, Invariance, PTL DEF Spec

(***************************************************************************)
(* With devices that answer with soft, failed and recovered commands only, *)
(* and no revalidation under load, as many faults as there may be, the     *)
(* three results hold of every behaviour of the driver.                    *)
(***************************************************************************)
COROLLARY EmulationHandled ==
  ASSUME Faults \subseteq {"soft", "failed", "recovered"}, MaxRescans = 0
  PROVE  Spec => /\ []StoredInPlace
                 /\ []ReadsReturnTheirSectors
                 /\ ImplementsBlockDevice
<1>1. "reset" \notin Faults /\ "noSense" \notin Faults
  OBVIOUS
<1>2. Spec => []Undisturbed
  BY <1>1, UndisturbedStays
<1>3. Spec => []SenseGiven
  BY <1>1, SenseStaysGiven
<1> QED
  BY <1>2, <1>3, SectorsStayInPlace, ReadsGetTheirSectors,
     EmulationImplementsBlockDevice, PTL
=============================================================================
