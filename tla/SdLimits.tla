------------------------------ MODULE SdLimits ------------------------------
(***************************************************************************)
(* How a disk's limits follow the module parameters.                       *)
(*                                                                         *)
(* The administrator writes the parameters at any moment (they have mode   *)
(* 0644); nothing in the driver reacts before the disk is revalidated.     *)
(* sd_revalidate_disk then reads them in three places, in this order:      *)
(* sd_adjust_logical_sector_size decides whether the disk is emulated,     *)
(* sd_528_limit_queue_depth lowers the queue depth, and the emu_cap block  *)
(* bounds the request size.  The order is the one port_universal.py gives  *)
(* the patched tree.                                                       *)
(***************************************************************************)
EXTENDS SdGeometry

CONSTANTS
  Disks,
  SectorSize,   \* [Disks -> Nat], what READ CAPACITY reports
  MaxSegments,  \* [Disks -> Nat], lim->max_segments, 0 for no limit
  StockMax,     \* lim->max_dev_sectors before the emulation bounds it
  CanQueue,     \* sdp->host->can_queue
  LldDepth,     \* the queue depth the host adapter's driver gave the disk
  DepthValues,  \* values written to emulate_528_queue_depth
  MaxValues     \* values written to emulate_528_max_sectors

ASSUME LimitsAssumption ==
  /\ SectorSize \in [Disks -> Nat]
  /\ MaxSegments \in [Disks -> Nat]
  /\ StockMax \in Nat \ {0}
  /\ CanQueue \in Nat \ {0}
  /\ LldDepth \in Nat \ {0}
  /\ DepthValues \subseteq Nat
  /\ MaxValues \subseteq Nat

VARIABLES
  emulate,        \* emulate_512_from_fat_sectors
  depthParam,     \* emulate_528_queue_depth
  maxParam,       \* emulate_528_max_sectors
  step,           \* the next step of each disk's revalidation, or "idle"
  fat,            \* sdkp->emulate_512_from_fat
  from528,        \* sdkp->emulate_512_from_528
  queueDepth,     \* sdp->queue_depth
  maxDevSectors   \* lim->max_dev_sectors

params == <<emulate, depthParam, maxParam>>
disk == <<step, fat, from528, queueDepth, maxDevSectors>>
vars == <<emulate, depthParam, maxParam, step, fat, from528, queueDepth,
          maxDevSectors>>

Steps == {"idle", "depth", "cap"}

Init ==
  /\ emulate \in BOOLEAN
  /\ depthParam \in DepthValues
  /\ maxParam \in MaxValues
  /\ step = [d \in Disks |-> "idle"]
  /\ fat = [d \in Disks |-> FALSE]
  /\ from528 = [d \in Disks |-> FALSE]
  /\ queueDepth = [d \in Disks |-> LldDepth]
  /\ maxDevSectors = [d \in Disks |-> StockMax]

-----------------------------------------------------------------------------
(***************************************************************************)
(* The administrator.                                                      *)
(***************************************************************************)
WriteParams ==
  /\ \/ /\ emulate' \in BOOLEAN \ {emulate}
        /\ UNCHANGED <<depthParam, maxParam>>
     \/ /\ depthParam' \in DepthValues \ {depthParam}
        /\ UNCHANGED <<emulate, maxParam>>
     \/ /\ maxParam' \in MaxValues \ {maxParam}
        /\ UNCHANGED <<emulate, depthParam>>
  /\ UNCHANGED disk

-----------------------------------------------------------------------------
(***************************************************************************)
(* sd_revalidate_disk of disk d.                                           *)
(***************************************************************************)

\* Called from sd_read_capacity: the flags follow the parameter, for 520 and
\* 528 byte sectors only.
sd_adjust_logical_sector_size(d) ==
  /\ step[d] = "idle"
  /\ fat' = [fat EXCEPT ![d] = emulate /\ SectorSize[d] \in {520, 528}]
  /\ from528' = [from528 EXCEPT ![d] = emulate /\ SectorSize[d] = 528]
  /\ step' = [step EXCEPT ![d] = "depth"]
  /\ UNCHANGED <<params, queueDepth, maxDevSectors>>

\* The depth sd_528_limit_queue_depth aims at.
depth_target(d) ==
  LET cap == queue_depth_cap(maxParam)
      asked == IF depthParam = 0 THEN cap ELSE depthParam
  IN  Lesser(Lesser(Lesser(asked, cap), CanQueue), 4096)

\* Bug: the depth is set to the target even when that raises it.
limit_queue_depth_raises(d) ==
  /\ step[d] = "depth"
  /\ queueDepth' =
       [queueDepth EXCEPT ![d] =
          IF fat[d] /\ from528[d] THEN depth_target(d) ELSE @]
  /\ step' = [step EXCEPT ![d] = "cap"]
  /\ UNCHANGED <<params, fat, from528, maxDevSectors>>

\* The late call block.  The depth is lowered and never raised.
sd_528_limit_queue_depth(d) ==
  /\ step[d] = "depth"
  /\ queueDepth' =
       [queueDepth EXCEPT ![d] =
          IF fat[d] /\ from528[d] THEN Lesser(@, depth_target(d)) ELSE @]
  /\ step' = [step EXCEPT ![d] = "cap"]
  /\ UNCHANGED <<params, fat, from528, maxDevSectors>>

\* The emu_cap block, and the commit of the queue limits.
sd_revalidate_max_dev_sectors(d) ==
  /\ step[d] = "cap"
  /\ maxDevSectors' =
       [maxDevSectors EXCEPT ![d] =
          IF from528[d]
            THEN Lesser(StockMax, Lesser(effective_max_sectors(maxParam),
                                         segments_to_sectors(MaxSegments[d])))
            ELSE StockMax]
  /\ step' = [step EXCEPT ![d] = "idle"]
  /\ UNCHANGED <<params, fat, from528, queueDepth>>

Revalidate(d) ==
  \/ sd_adjust_logical_sector_size(d)
  \/ sd_528_limit_queue_depth(d)
  \/ sd_revalidate_max_dev_sectors(d)

Next == WriteParams \/ \E d \in Disks : Revalidate(d)

Spec == Init /\ [][Next]_vars

(***************************************************************************)
(* The same system with an administrator who lets a revalidation finish    *)
(* before writing a parameter again.                                       *)
(***************************************************************************)
QuietNext ==
  \/ (\A d \in Disks : step[d] = "idle") /\ WriteParams
  \/ \E d \in Disks : Revalidate(d)

QuietSpec == Init /\ [][QuietNext]_vars

-----------------------------------------------------------------------------
TypeOK ==
  /\ emulate \in BOOLEAN
  /\ depthParam \in DepthValues
  /\ maxParam \in MaxValues
  /\ step \in [Disks -> Steps]
  /\ fat \in [Disks -> BOOLEAN]
  /\ from528 \in [Disks -> BOOLEAN]
  /\ queueDepth \in [Disks -> 0..LldDepth]
  /\ maxDevSectors \in [Disks -> 0..StockMax]

\* A disk whose limits are the ones of the emulation.
Emulated(d) == step[d] = "idle" /\ from528[d]

(***************************************************************************)
(* A request within the limits of an emulated disk is never refused by     *)
(* sd_528_prepare_emulation: it is at most MaxHostSectors long, its chunks *)
(* fit in the context's arrays and in the queue's segment limit, and the   *)
(* limit leaves room for at least one sector.                              *)
(***************************************************************************)
LimitsSound ==
  \A d \in Disks : Emulated(d) =>
    /\ maxDevSectors[d] \in 1..MaxHostSectors
    /\ blocks_to_chunks(maxDevSectors[d]) <= MaxChunks
    /\ MaxSegments[d] # 0 =>
         blocks_to_chunks(maxDevSectors[d]) <= MaxSegments[d]

(***************************************************************************)
(* Revalidation never closes a disk's queue, however small the reserve:    *)
(* with depth zero no request would ever be dispatched.                    *)
(***************************************************************************)
QueueStaysOpen == \A d \in Disks : queueDepth[d] >= 1

(***************************************************************************)
(* "The effective queue-depth cap is derived from the actual reserved pool *)
(* footprint": as many requests of the largest size as the depth of one    *)
(* disk allows fit in the chunk reserve, when one of them does.            *)
(***************************************************************************)
DepthFitsReserve ==
  \A d \in Disks :
    LET need == blocks_to_chunks(maxDevSectors[d])
    IN  Emulated(d) /\ need <= PoolChunks => queueDepth[d] * need <= PoolChunks
=============================================================================
