---------------------------- MODULE SdEmulation ----------------------------
(***************************************************************************)
(* The life of the requests that wvg-sd-528.patch emulates, on any number  *)
(* of disks that share one reserve of bounce chunks and one of contexts.   *)
(*                                                                         *)
(* A request of the block layer is set up by the sd driver (a context, the *)
(* chunks one by one, the payload of a write packed with zeroed trailers,  *)
(* the data buffer of the command swapped for the bounce chunks), executed *)
(* by the device, completed by sd_done (the payload of a read unpacked,    *)
(* the data buffer swapped back) and disposed of by the SCSI mid-layer,    *)
(* which ends it, sets it up again or sends the same command again.        *)
(*                                                                         *)
(* Every step of every request interleaves with the steps of the others.   *)
(* Data is kept by sector: a payload names its writer and its sector, so   *)
(* that a misplaced, stale or unwritten sector is visible.                 *)
(***************************************************************************)
EXTENDS SdGeometry, Sequences, FiniteSets

CONSTANTS
  Disks,
  Requests,
  Blocks,       \* sector numbers, 0..n
  Shapes,       \* the requests there may be: [op, disk, lba, len]
  MaxSectors,   \* no shape is longer
  MaxSegments,  \* limits.max_segments of every queue, 0 for no limit
  QueueDepth,   \* sdev->queue_depth of every disk
  Chunks,       \* the identities of the PoolChunks chunks in the reserve
  Faults,       \* the replies, other than success, a device may give
  MaxFaults,    \* bound: how many such replies there are in a behaviour
  MaxRescans,   \* bound: how many times a disk is revalidated under load
  NoRequest,    \* the writer of what was on the disks before
  Garbage       \* bytes that are no sector's payload

Operations == {"read", "write"}
FaultKinds == {"soft", "failed", "recovered", "noSense", "reset"}

ASSUME EmulationAssumption ==
  /\ Blocks \subseteq Nat
  /\ MaxSectors \in Nat \ {0}
  /\ Shapes \subseteq [op : Operations, disk : Disks, lba : Blocks,
                       len : 1..MaxSectors]
  /\ \A q \in Shapes : \A i \in 1..q.len : q.lba + i - 1 \in Blocks
  /\ MaxSegments \in Nat
  /\ QueueDepth \in Nat \ {0}
  /\ Cardinality(Chunks) = PoolChunks
  /\ Faults \subseteq FaultKinds
  /\ MaxFaults \in Nat /\ MaxRescans \in Nat
  /\ NoRequest \notin Requests
  /\ Garbage \notin [by : Requests \cup {NoRequest}, blk : Blocks]

VARIABLES
  from528,   \* sdkp->emulate_512_from_528 of each disk
  rescans,   \* how many revalidations there were
  rq,        \* the shape of each request
  status,    \* what the block layer knows of it: idle, pending, ok, error
  pc,        \* where it is in the driver
  ctx,       \* does it hold a context?
  chunks,    \* ctx->chunks, in order
  sdb,       \* what the command's data buffer is: host or bounce
  buf,       \* the host's buffer, by sector
  xfer,      \* how many sectors the current attempt has moved
  reply,     \* what the device answered
  good,      \* what sd_done returned
  reserve,   \* the chunks in sd_528_page_pool
  ctxFree,   \* the number of contexts in the reserve of sd_528_ctx_pool
  page,      \* the contents of each chunk, by device sector
  store,     \* the sectors of each disk
  faults     \* how many replies were not a success

device == <<store, faults>>
pools == <<reserve, ctxFree>>
vars == <<from528, rescans, rq, status, pc, ctx, chunks, sdb, buf, xfer,
          reply, good, reserve, ctxFree, page, store, faults>>

Locations == {"idle", "queued", "alloc", "backout", "issued", "replied",
              "done", "requeued", "uninit", "completed"}
Statuses == {"idle", "pending", "ok", "error"}
Replies == {"none", "good"} \cup FaultKinds

Payload == [by : Requests \cup {NoRequest}, blk : Blocks] \cup {Garbage}
Sector == [data : Payload, zero : BOOLEAN]   \* zero: is the trailer zeroed?

Written(r, b) == [by |-> r, blk |-> b]
Initial(b) == [by |-> NoRequest, blk |-> b]
Foreign == [data |-> Garbage, zero |-> FALSE]

-----------------------------------------------------------------------------
(***************************************************************************)
(* The geometry of a request.                                              *)
(***************************************************************************)
Offsets(r) == 1..rq[r].len
Block(r, i) == rq[r].lba + i - 1
host_len(r) == rq[r].len * HostSectorSize
dev_len(r) == rq[r].len * DevSectorSize
Need(r) == blocks_to_chunks(rq[r].len)

\* The chunk, and the place in it, of the i-th device sector of request r.
ChunkOf(r, i) == chunks[r][((i - 1) \div BlocksPerChunk) + 1]
SlotOf(i) == ((i - 1) % BlocksPerChunk) + 1

\* What the bounce table of r has there, whether or not the command uses it.
Bounced(r, i) == page[ChunkOf(r, i)][SlotOf(i)]

\* Where a request holds one of the sdev->queue_depth tokens of its disk.
\* The mid-layer gives it back before it calls sd_done and before it queues
\* a command again.
HoldsToken(r) == pc[r] \in {"alloc", "backout", "issued", "replied"}
TokenFree(d) ==
  Cardinality({r \in Requests : rq[r].disk = d /\ HoldsToken(r)}) < QueueDepth

Init ==
  /\ from528 = [d \in Disks |-> TRUE]
  /\ rescans = 0
  /\ rq \in [Requests -> Shapes]
  /\ status = [r \in Requests |-> "idle"]
  /\ pc = [r \in Requests |-> "idle"]
  /\ ctx = [r \in Requests |-> FALSE]
  /\ chunks = [r \in Requests |-> <<>>]
  /\ sdb = [r \in Requests |-> "host"]
  /\ buf = [r \in Requests |-> [i \in 1..MaxSectors |->
              IF rq[r].op = "write" /\ i \in Offsets(r)
                THEN Written(r, Block(r, i)) ELSE Garbage]]
  /\ xfer = [r \in Requests |-> 0]
  /\ reply = [r \in Requests |-> "none"]
  /\ good = [r \in Requests |-> 0]
  /\ reserve = Chunks
  /\ ctxFree = PoolContexts
  /\ page = [c \in Chunks |-> [s \in 1..BlocksPerChunk |-> Foreign]]
  /\ store = [d \in Disks |-> [b \in Blocks |->
                [data |-> Initial(b), zero |-> FALSE]]]
  /\ faults = 0

-----------------------------------------------------------------------------
(***************************************************************************)
(* Setting a request up: the hook in sd_setup_read_write_cmnd and          *)
(* sd_528_prepare_emulation.                                               *)
(***************************************************************************)
Submit(r) ==
  /\ pc[r] = "idle"
  /\ status' = [status EXCEPT ![r] = "pending"]
  /\ pc' = [pc EXCEPT ![r] = "queued"]
  /\ UNCHANGED <<from528, rescans, rq, ctx, chunks, sdb, buf, xfer, reply,
                 good, pools, page, device>>

\* The disk is not emulated: the command gets the host's buffer.
setup_not_emulated(r) ==
  /\ pc[r] = "queued" /\ TokenFree(rq[r].disk)
  /\ ~from528[rq[r].disk]
  /\ sdb' = [sdb EXCEPT ![r] = "host"]
  /\ pc' = [pc EXCEPT ![r] = "issued"]
  /\ UNCHANGED <<from528, rescans, rq, status, ctx, chunks, buf, xfer, reply,
                 good, pools, page, device>>

TooLong(r) ==
  \/ rq[r].len > MaxHostSectors
  \/ MaxSegments # 0 /\ Need(r) > MaxSegments

\* BLK_STS_IOERR before anything is allocated: the request fails.
prepare_refused(r) ==
  /\ pc[r] = "queued" /\ TokenFree(rq[r].disk)
  /\ from528[rq[r].disk]
  /\ TooLong(r)
  /\ status' = [status EXCEPT ![r] = "error"]
  /\ pc' = [pc EXCEPT ![r] = "completed"]
  /\ UNCHANGED <<from528, rescans, rq, ctx, chunks, sdb, buf, xfer, reply,
                 good, pools, page, device>>

\* The context pool is a kmalloc pool: the allocation is first tried with
\* kmalloc and takes from the reserve when that fails.  When the reserve is
\* empty too, BLK_STS_RESOURCE leaves the request queued.
prepare_context(r) ==
  /\ pc[r] = "queued" /\ TokenFree(rq[r].disk)
  /\ from528[rq[r].disk]
  /\ ~TooLong(r)
  /\ \/ ctxFree' = ctxFree
     \/ ctxFree > 0 /\ ctxFree' = ctxFree - 1
  /\ ctx' = [ctx EXCEPT ![r] = TRUE]
  /\ sdb' = [sdb EXCEPT ![r] = "host"]
  /\ pc' = [pc EXCEPT ![r] = "alloc"]
  /\ UNCHANGED <<from528, rescans, rq, status, chunks, buf, xfer, reply, good,
                 reserve, page, device>>

\* One round of the loop in sd_528_alloc_emulation_buffer.
alloc_chunk(r) ==
  /\ pc[r] = "alloc" /\ Len(chunks[r]) < Need(r)
  /\ \E c \in reserve :
       /\ chunks' = [chunks EXCEPT ![r] = Append(@, c)]
       /\ reserve' = reserve \ {c}
  /\ UNCHANGED <<from528, rescans, rq, status, pc, ctx, sdb, buf, xfer, reply,
                 good, ctxFree, page, device>>

\* Bug: the request is queued again with what it already holds.
alloc_refused_keeps_chunks(r) ==
  /\ pc[r] = "alloc" /\ Len(chunks[r]) < Need(r)
  /\ reserve = {}
  /\ pc' = [pc EXCEPT ![r] = "queued"]
  /\ UNCHANGED <<from528, rescans, rq, status, ctx, chunks, sdb, buf, xfer,
                 reply, good, pools, page, device>>

\* The reserve is empty: BLK_STS_RESOURCE, after giving everything back.
alloc_refused(r) ==
  /\ pc[r] = "alloc" /\ Len(chunks[r]) < Need(r)
  /\ reserve = {}
  /\ pc' = [pc EXCEPT ![r] = "backout"]
  /\ UNCHANGED <<from528, rescans, rq, status, ctx, chunks, sdb, buf, xfer,
                 reply, good, pools, page, device>>

\* Bug: the trailers are skipped and not zeroed.
pack_keeps_trailers(r) ==
  [c \in Chunks |-> [s \in 1..BlocksPerChunk |->
     IF \E i \in Offsets(r) : ChunkOf(r, i) = c /\ SlotOf(i) = s
       THEN LET i == CHOOSE i \in Offsets(r) : ChunkOf(r, i) = c /\ SlotOf(i) = s
            IN  [data |-> buf[r][i], zero |-> page[c][s].zero]
       ELSE page[c][s]]]

\* The chunks after sd_528_pack_sg_blocks: each payload in its place, and
\* its trailer zeroed.
pack_sg_blocks(r) ==
  [c \in Chunks |-> [s \in 1..BlocksPerChunk |->
     IF \E i \in Offsets(r) : ChunkOf(r, i) = c /\ SlotOf(i) = s
       THEN LET i == CHOOSE i \in Offsets(r) : ChunkOf(r, i) = c /\ SlotOf(i) = s
            IN  [data |-> buf[r][i], zero |-> TRUE]
       ELSE page[c][s]]]

\* The rest of sd_528_prepare_emulation.
prepare_issue(r) ==
  /\ pc[r] = "alloc" /\ Len(chunks[r]) = Need(r)
  /\ page' = IF rq[r].op = "write" THEN pack_sg_blocks(r) ELSE page
  /\ sdb' = [sdb EXCEPT ![r] = "bounce"]
  /\ pc' = [pc EXCEPT ![r] = "issued"]
  /\ UNCHANGED <<from528, rescans, rq, status, ctx, chunks, buf, xfer, reply,
                 good, pools, device>>

-----------------------------------------------------------------------------
(***************************************************************************)
(* The device and the host adapter, which execute an issued command.       *)
(***************************************************************************)

\* The next device sector moves between the disk and the bounce chunks.
move_bounced(r) ==
  /\ pc[r] = "issued" /\ sdb[r] = "bounce" /\ xfer[r] < rq[r].len
  /\ LET i == xfer[r] + 1
         d == rq[r].disk
         b == Block(r, i)
     IN  /\ xfer' = [xfer EXCEPT ![r] = i]
         /\ \/ /\ rq[r].op = "read"
               /\ page' = [page EXCEPT ![ChunkOf(r, i)][SlotOf(i)] = store[d][b]]
               /\ UNCHANGED store
            \/ /\ rq[r].op = "write"
               /\ store' = [store EXCEPT ![d][b] = Bounced(r, i)]
               /\ UNCHANGED page
  /\ UNCHANGED <<from528, rescans, rq, status, pc, ctx, chunks, sdb, buf,
                 reply, good, pools, faults>>

\* The next device sector moves straight between the disk and the host's
\* buffer: device sectors lie DevSectorSize apart there, so that only the
\* first one is in its place.  A write runs out of buffer early.
move_raw(r) ==
  /\ pc[r] = "issued" /\ sdb[r] = "host" /\ xfer[r] < rq[r].len
  /\ LET i == xfer[r] + 1
         d == rq[r].disk
         b == Block(r, i)
     IN  /\ xfer' = [xfer EXCEPT ![r] = i]
         /\ \/ /\ rq[r].op = "read"
               /\ buf' = [buf EXCEPT ![r][i] =
                            IF i = 1 THEN store[d][b].data ELSE Garbage]
               /\ UNCHANGED store
            \/ /\ rq[r].op = "write"
               /\ i * DevSectorSize <= host_len(r)
               /\ store' = [store EXCEPT ![d][b] =
                    [data |-> IF i = 1 THEN buf[r][i] ELSE Garbage,
                     zero |-> FALSE]]
               /\ UNCHANGED buf
  /\ UNCHANGED <<from528, rescans, rq, status, pc, ctx, chunks, sdb, reply,
                 good, pools, page, faults>>

\* Bug: the smallest acceptable transfer is counted in host sectors.
cmd_underflow_host(r) == host_len(r)

\* cmd->underflow, the fewest bytes the host adapter may call a success.
cmd_underflow(r) == dev_len(r)

reply_good(r) ==
  /\ pc[r] = "issued"
  /\ IF sdb[r] = "bounce" THEN xfer[r] * DevSectorSize >= cmd_underflow(r)
                          ELSE rq[r].op = "read" /\ xfer[r] = rq[r].len
  /\ reply' = [reply EXCEPT ![r] = "good"]
  /\ pc' = [pc EXCEPT ![r] = "replied"]
  /\ UNCHANGED <<from528, rescans, rq, status, ctx, chunks, sdb, buf, xfer,
                 good, pools, page, device>>

\* A busy device, a full queue or a transfer below cmd->underflow: the
\* mid-layer queues the command again and sd_done never sees the reply.
reply_soft(r) ==
  /\ pc[r] = "issued" /\ "soft" \in Faults /\ faults < MaxFaults
  /\ faults' = faults + 1
  /\ xfer' = [xfer EXCEPT ![r] = 0]
  /\ pc' = [pc EXCEPT ![r] = "requeued"]
  /\ UNCHANGED <<from528, rescans, rq, status, ctx, chunks, sdb, buf, reply,
                 good, pools, page, store>>

\* A reply that reaches sd_done: a medium or hardware error after a correct
\* beginning ("failed"), a check condition that reports a recovered error
\* ("recovered") or nothing ("noSense"), a unit attention or a bus reset
\* ("reset").  A write from a raw buffer always ends as "failed".
reply_fault(r) ==
  /\ pc[r] = "issued"
  /\ \/ /\ faults < MaxFaults
        /\ faults' = faults + 1
        /\ \/ /\ "recovered" \in Faults /\ xfer[r] = rq[r].len
              /\ reply' = [reply EXCEPT ![r] = "recovered"]
           \/ \E f \in Faults \ {"soft", "recovered"} :
                reply' = [reply EXCEPT ![r] = f]
     \/ /\ sdb[r] = "host" /\ rq[r].op = "write"
        /\ reply' = [reply EXCEPT ![r] = "failed"]
        /\ UNCHANGED faults
  /\ pc' = [pc EXCEPT ![r] = "replied"]
  /\ UNCHANGED <<from528, rescans, rq, status, ctx, chunks, sdb, buf, xfer,
                 good, pools, page, store>>

\* The mid-layer sends a queued command again, as it is.
redispatch(r) ==
  /\ pc[r] = "requeued" /\ TokenFree(rq[r].disk)
  /\ pc' = [pc EXCEPT ![r] = "issued"]
  /\ UNCHANGED <<from528, rescans, rq, status, ctx, chunks, sdb, buf, xfer,
                 reply, good, pools, page, device>>

-----------------------------------------------------------------------------
(***************************************************************************)
(* Completion: sd_done, which calls sd_528_complete_emulation.             *)
(***************************************************************************)
scsi_bufflen(r) == IF sdb[r] = "bounce" THEN dev_len(r) ELSE host_len(r)

\* The good bytes sd_done finds before it calls complete_emulation.  After a
\* medium error they are the host sectors before the bad one.
good_bytes(r) ==
  CASE reply[r] \in {"good", "recovered"} -> scsi_bufflen(r)
    [] reply[r] = "failed"                -> xfer[r] * HostSectorSize
    [] OTHER                              -> 0

\* SCpnt->result is zero: success, or a check condition without sense, which
\* sd_done clears.
result_clear(r) == reply[r] \in {"good", "noSense"}

\* Bug: what is copied is counted in device sectors.
copied_by_device(r) == Lesser(good_bytes(r), host_len(r)) \div DevSectorSize

\* How many host sectors of a read complete_emulation copies.
copied(r) == Lesser(good_bytes(r), host_len(r)) \div HostSectorSize

\* Bug: the next sector of the same chunk is read, the trailer not skipped.
unpack_sg_bytes_shifted(r) ==
  [i \in 1..MaxSectors |->
     IF i \in Offsets(r) /\ i <= copied(r)
       THEN page[ChunkOf(r, i)][BlocksPerChunk].data ELSE buf[r][i]]

\* The host's buffer after sd_528_unpack_sg_bytes.
unpack_sg_bytes(r) ==
  [i \in 1..MaxSectors |->
     IF i \in Offsets(r) /\ i <= copied(r) THEN Bounced(r, i).data ELSE buf[r][i]]

sd_done(r) ==
  /\ pc[r] = "replied"
  /\ pc' = [pc EXCEPT ![r] = "done"]
  /\ IF from528[rq[r].disk] /\ ctx[r]
       THEN /\ buf' = IF rq[r].op = "read"
                        THEN [buf EXCEPT ![r] = unpack_sg_bytes(r)] ELSE buf
            /\ sdb' = [sdb EXCEPT ![r] = "host"]
            /\ good' = [good EXCEPT ![r] = IF result_clear(r) THEN host_len(r)
                                                              ELSE 0]
       ELSE /\ good' = [good EXCEPT ![r] = good_bytes(r)]
            /\ UNCHANGED <<buf, sdb>>
  /\ UNCHANGED <<from528, rescans, rq, status, ctx, chunks, xfer, reply, pools,
                 page, device>>

-----------------------------------------------------------------------------
(***************************************************************************)
(* The mid-layer's disposition, scsi_io_completion.  It treats a recovered *)
(* error as a success.                                                     *)
(***************************************************************************)
Succeeded(r) == reply[r] \in {"good", "noSense", "recovered"}

\* All bytes are good: the caller is told before the context is freed.
end_request(r) ==
  /\ pc[r] = "done" /\ Succeeded(r) /\ good[r] >= host_len(r)
  /\ status' = [status EXCEPT ![r] = "ok"]
  /\ pc' = [pc EXCEPT ![r] = "uninit"]
  /\ UNCHANGED <<from528, rescans, rq, ctx, chunks, sdb, buf, xfer, reply,
                 good, pools, page, device>>

\* Not all bytes are good: what is left is set up from the start.
prepare_again(r) ==
  /\ pc[r] = "done" /\ Succeeded(r) /\ good[r] < host_len(r)
  /\ pc' = [pc EXCEPT ![r] = "uninit"]
  /\ xfer' = [xfer EXCEPT ![r] = 0]
  /\ UNCHANGED <<from528, rescans, rq, status, ctx, chunks, sdb, buf, reply,
                 good, pools, page, device>>

fail_request(r) ==
  /\ pc[r] = "done" /\ reply[r] = "failed"
  /\ status' = [status EXCEPT ![r] = "error"]
  /\ pc' = [pc EXCEPT ![r] = "uninit"]
  /\ UNCHANGED <<from528, rescans, rq, ctx, chunks, sdb, buf, xfer, reply,
                 good, pools, page, device>>

\* ACTION_RETRY: the same command is sent again without being set up again.
retry_command(r) ==
  /\ pc[r] = "done" /\ reply[r] = "reset"
  /\ pc' = [pc EXCEPT ![r] = "requeued"]
  /\ xfer' = [xfer EXCEPT ![r] = 0]
  /\ UNCHANGED <<from528, rescans, rq, status, ctx, chunks, sdb, buf, reply,
                 good, pools, page, device>>

-----------------------------------------------------------------------------
(***************************************************************************)
(* Giving the resources back: sd_528_release_emulation_ctx, from a failed  *)
(* prepare ("backout") or from sd_uninit_command ("uninit").               *)
(***************************************************************************)
\* Bug: the number of chunks is reset before they are freed.
release_chunk_forgets(r) ==
  /\ pc[r] \in {"backout", "uninit"} /\ chunks[r] # <<>>
  /\ chunks' = [chunks EXCEPT ![r] = <<>>]
  /\ UNCHANGED <<from528, rescans, rq, status, pc, ctx, sdb, buf, xfer, reply,
                 good, pools, page, device>>

release_chunk(r) ==
  /\ pc[r] \in {"backout", "uninit"} /\ chunks[r] # <<>>
  /\ chunks' = [chunks EXCEPT ![r] = Tail(@)]
  /\ reserve' = reserve \cup {Head(chunks[r])}
  /\ UNCHANGED <<from528, rescans, rq, status, pc, ctx, sdb, buf, xfer, reply,
                 good, ctxFree, page, device>>

\* Bug: a context always goes back to kmalloc, never to the reserve.
release_ctx_drops(r) ==
  /\ pc[r] \in {"backout", "uninit"} /\ chunks[r] = <<>>
  /\ ctx' = [ctx EXCEPT ![r] = FALSE]
  /\ pc' = [pc EXCEPT ![r] = IF status[r] = "pending" THEN "queued"
                                                      ELSE "completed"]
  /\ xfer' = [xfer EXCEPT ![r] = 0]
  /\ UNCHANGED <<from528, rescans, rq, status, chunks, sdb, buf, reply, good,
                 pools, page, device>>

\* Bug: every context that is freed goes to the reserve.
release_ctx_overfills(r) ==
  /\ pc[r] \in {"backout", "uninit"} /\ chunks[r] = <<>>
  /\ ctx' = [ctx EXCEPT ![r] = FALSE]
  /\ ctxFree' = IF ctx[r] THEN ctxFree + 1 ELSE ctxFree
  /\ pc' = [pc EXCEPT ![r] = IF status[r] = "pending" THEN "queued"
                                                      ELSE "completed"]
  /\ xfer' = [xfer EXCEPT ![r] = 0]
  /\ UNCHANGED <<from528, rescans, rq, status, chunks, sdb, buf, reply, good,
                 reserve, page, device>>

\* The context goes to the reserve unless that is full.
release_ctx(r) ==
  /\ pc[r] \in {"backout", "uninit"} /\ chunks[r] = <<>>
  /\ ctx' = [ctx EXCEPT ![r] = FALSE]
  /\ ctxFree' = IF ctx[r] /\ ctxFree < PoolContexts THEN ctxFree + 1
                                                    ELSE ctxFree
  /\ pc' = [pc EXCEPT ![r] = IF status[r] = "pending" THEN "queued"
                                                      ELSE "completed"]
  /\ xfer' = [xfer EXCEPT ![r] = 0]
  /\ UNCHANGED <<from528, rescans, rq, status, chunks, sdb, buf, reply, good,
                 reserve, page, device>>

-----------------------------------------------------------------------------
(***************************************************************************)
(* A revalidation of disk d while it serves requests:                      *)
(* sd_adjust_logical_sector_size clears the flag before it sets it.        *)
(***************************************************************************)
rescan_clear(d) ==
  /\ from528[d] /\ rescans < MaxRescans
  /\ from528' = [from528 EXCEPT ![d] = FALSE]
  /\ rescans' = rescans + 1
  /\ UNCHANGED <<rq, status, pc, ctx, chunks, sdb, buf, xfer, reply, good,
                 pools, page, device>>

rescan_set(d) ==
  /\ ~from528[d]
  /\ from528' = [from528 EXCEPT ![d] = TRUE]
  /\ UNCHANGED <<rescans, rq, status, pc, ctx, chunks, sdb, buf, xfer, reply,
                 good, pools, page, device>>

-----------------------------------------------------------------------------
\* What the kernel and the device do for request r once it is submitted.
Advance(r) ==
  \/ setup_not_emulated(r) \/ prepare_refused(r) \/ prepare_context(r)
  \/ alloc_chunk(r) \/ alloc_refused(r) \/ prepare_issue(r)
  \/ move_bounced(r) \/ move_raw(r)
  \/ reply_good(r) \/ reply_soft(r) \/ reply_fault(r) \/ redispatch(r)
  \/ sd_done(r)
  \/ end_request(r) \/ prepare_again(r) \/ fail_request(r) \/ retry_command(r)
  \/ release_chunk(r) \/ release_ctx(r)

\* Every request has been answered: there is nothing left to do.
AllAnswered ==
  /\ \A r \in Requests : pc[r] = "completed"
  /\ \A d \in Disks : from528[d]
  /\ UNCHANGED vars

Next ==
  \/ \E r \in Requests : Submit(r) \/ Advance(r)
  \/ \E d \in Disks : rescan_clear(d) \/ rescan_set(d)
  \/ AllAnswered

Spec == Init /\ [][Next]_vars

(***************************************************************************)
(* The kernel runs what is runnable and the device answers every command.  *)
(* blk-mq keeps what it could not dispatch on a list that it serves in     *)
(* order, so that a request which again and again could have had a token   *)
(* of its disk in the end gets one.                                        *)
(***************************************************************************)
Fairness ==
  /\ \A r \in Requests : /\ WF_vars(Advance(r))
                         /\ SF_vars(prepare_context(r))
                         /\ SF_vars(redispatch(r))
  /\ \A d \in Disks : WF_vars(rescan_set(d))

FairSpec == Spec /\ Fairness
-----------------------------------------------------------------------------
TypeOK ==
  /\ from528 \in [Disks -> BOOLEAN]
  /\ rescans \in Nat
  /\ rq \in [Requests -> Shapes]
  /\ status \in [Requests -> Statuses]
  /\ pc \in [Requests -> Locations]
  /\ ctx \in [Requests -> BOOLEAN]
  /\ chunks \in [Requests -> Seq(Chunks)]
  /\ sdb \in [Requests -> {"host", "bounce"}]
  /\ buf \in [Requests -> [1..MaxSectors -> Payload]]
  /\ xfer \in [Requests -> 0..MaxSectors]
  /\ reply \in [Requests -> Replies]
  /\ good \in [Requests -> Nat]
  /\ reserve \in SUBSET Chunks
  /\ ctxFree \in 0..PoolContexts
  /\ page \in [Chunks -> [1..BlocksPerChunk -> Sector]]
  /\ store \in [Disks -> [Blocks -> Sector]]
  /\ faults \in Nat

(***************************************************************************)
(* Every chunk is in the reserve or held by one request, once: none is     *)
(* freed twice, shared by two transfers or lost, whatever the device       *)
(* answers, however often a command is sent again, and even when the disk  *)
(* is revalidated under load.                                              *)
(***************************************************************************)
NoChunkShared ==
  \A r, s \in Requests : \A k \in 1..Len(chunks[r]), l \in 1..Len(chunks[s]) :
    chunks[r][k] = chunks[s][l] => r = s /\ k = l
NoChunkHeldIsFree ==
  \A r \in Requests : \A k \in 1..Len(chunks[r]) : chunks[r][k] \notin reserve
NoChunkLost ==
  \A c \in Chunks : c \in reserve \/ \E r \in Requests : \E k \in 1..Len(chunks[r]) :
                                         chunks[r][k] = c
ChunksConserved == NoChunkShared /\ NoChunkHeldIsFree /\ NoChunkLost

(***************************************************************************)
(* The context reserve is never short of more contexts than requests hold, *)
(* though contexts of kmalloc and of the reserve are freed alike: it is    *)
(* full again when no request holds one.                                   *)
(***************************************************************************)
ContextsConserved ==
  PoolContexts - ctxFree <= Cardinality({r \in Requests : ctx[r]})

(***************************************************************************)
(* A request that waits to be set up, and one that has been answered and   *)
(* uninitialised, hold neither chunks nor a context; chunks are only held  *)
(* with a context, never more than its arrays have places for.             *)
(***************************************************************************)
HoldersAreActive ==
  \A r \in Requests :
    /\ pc[r] \in {"idle", "queued", "completed"} => ~ctx[r]
    /\ ~ctx[r] => chunks[r] = <<>>
    /\ Len(chunks[r]) <= MaxChunks

(***************************************************************************)
(* A command that the device executes, or that waits to be sent again, has *)
(* a place in its bounce chunks for each of its device sectors.            *)
(***************************************************************************)
BounceCoversTransfer ==
  \A r \in Requests :
    (ctx[r] /\ pc[r] \in {"issued", "replied", "done", "requeued"}) =>
      \A i \in Offsets(r) :
        ((i - 1) \div BlocksPerChunk) + 1 \in 1..Len(chunks[r])

(***************************************************************************)
(* "The data is physically stored in the right place in the right sectors, *)
(* with the 16 metadata bytes zeroed": a sector of a disk holds a payload  *)
(* meant for it, and once written by a request its trailer is zeroed.      *)
(***************************************************************************)
StoredInPlace ==
  \A d \in Disks, b \in Blocks :
    LET s == store[d][b]
    IN  /\ s.data # Garbage /\ s.data.blk = b
        /\ s.data.by # NoRequest => s.zero

(***************************************************************************)
(* A read reported as a success gave the caller, for each sector, a        *)
(* payload of that sector; a payload another request wrote is one that a   *)
(* write of that sector had at least been submitted with.                  *)
(***************************************************************************)
ReadsReturnTheirSectors ==
  \A r \in Requests :
    (status[r] = "ok" /\ rq[r].op = "read") =>
      \A i \in Offsets(r) :
        LET p == buf[r][i]
        IN  /\ p # Garbage /\ p.blk = Block(r, i)
            /\ p.by # NoRequest =>
                 /\ rq[p.by].op = "write" /\ rq[p.by].disk = rq[r].disk
                 /\ status[p.by] # "idle"

(***************************************************************************)
(* The emulated disk is a disk of 512-byte sectors: every behaviour is one *)
(* of BlockDevice.  A sector counts as moved when the device has moved it  *)
(* in the current attempt, and what a read has got so far lies in its      *)
(* bounce chunks.                                                          *)
(***************************************************************************)
Pending(r) == status[r] = "pending"
Abstract == INSTANCE BlockDevice WITH
  store <- [d \in Disks |-> [b \in Blocks |-> store[d][b].data]],
  moved <- [r \in Requests |-> IF Pending(r) THEN 1..xfer[r] ELSE {}],
  got <- [r \in Requests |-> [i \in 1..MaxSectors |->
            IF Pending(r) /\ rq[r].op = "read" /\ i <= xfer[r] /\ ctx[r]
              THEN Bounced(r, i).data ELSE Garbage]],
  answer <- [r \in Requests |-> [i \in 1..MaxSectors |->
            IF status[r] = "ok" /\ rq[r].op = "read" THEN buf[r][i] ELSE Garbage]]

ImplementsBlockDevice == Abstract!Spec

(***************************************************************************)
(* "Running out is safe, just slow": every request submitted is answered.  *)
(***************************************************************************)
EveryRequestAnswered ==
  \A r \in Requests : pc[r] = "queued" ~> pc[r] = "completed"
=============================================================================
