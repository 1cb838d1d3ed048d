------------------------------ MODULE SdDriver ------------------------------
(***************************************************************************)
(* What the driver that is built from a ported sd.c does where the pieces  *)
(* were put: init_sd creates the pools and unwinds when something fails,   *)
(* a revalidation restricts the block operations of a 528-byte disk and    *)
(* caps its queue depth around what the stock code does, exit_sd destroys  *)
(* the pools.  The stock code is modelled from what the patch and the      *)
(* scripts say of it.                                                      *)
(***************************************************************************)
EXTENDS SdSource, Sequences

CONSTANT MaxScans  \* bound: how many revalidations there are

ASSUME DriverAssumption == MaxScans \in Nat

VARIABLES
  at,      \* where the driver is
  pools,   \* what each pointer to a pool is
  device,  \* what the disk answers to inquiries
  disk,    \* the flags of its struct scsi_disk
  scans    \* how often it was revalidated

driver == <<at, pools, device, disk, scans>>

Pools == {"sd_page", "ctx", "page"}
Pointers == {"null", "live", "freed", "freed_twice"}
Modes == {"disable", "unmap", "write_same"}

\* lbpu, count: UNMAP and a MAXIMUM UNMAP LBA COUNT; mode: the way to discard
\* that the stock code chooses.
Device == [lbpu : BOOLEAN, count : BOOLEAN, mode : Modes]

\* flag: emulate_512_from_528; mode: provisioning_mode; capped: the queue
\* depth is at most what the pools serve.
Disk == [flag : BOOLEAN, lbpu : BOOLEAN, mode : Modes, capped : BOOLEAN]

DriverInit ==
  /\ at = "built"
  /\ pools = [p \in Pools |-> "null"]
  /\ device \in {d \in Device : d.mode = "unmap" => d.lbpu /\ d.count}
  /\ disk = [flag |-> FALSE, lbpu |-> FALSE, mode |-> "disable", capped |-> FALSE]
  /\ scans = 0

-----------------------------------------------------------------------------
(***************************************************************************)
(* init_sd and exit_sd.                                                    *)
(***************************************************************************)
\* mempool_destroy does nothing for a null pointer.
Destroyed(pointer) ==
  CASE pointer = "null" -> "null"
    [] pointer = "live" -> "freed"
    [] OTHER -> "freed_twice"

destroy(ps, held) == [p \in Pools |-> IF p \in ps THEN Destroyed(held[p]) ELSE held[p]]

\* The pools that are destroyed from a label of init_sd on; where the labels
\* are missing, gotos to them do not compile.
Unwinds(label) ==
  CASE label = "err_out_driver" ->
         {"sd_page"} \cup (IF tree.destroyed \cap {"labels", "init_error"} # {}
                            THEN {"page", "ctx"} ELSE {})
    [] label = "err_out_528_page_pool" -> {"ctx", "sd_page"}
    [] label = "err_out_528_ctx_pool" -> {"sd_page"}
    [] label = "err_out_class" -> {}

step(here, pool, next) ==
  /\ at = here
  /\ pools' = [pools EXCEPT ![pool] = "live"]
  /\ at' = next
  /\ UNCHANGED <<device, disk, scans>>

fail(here, held, label) ==
  /\ at = here
  /\ pools' = destroy(Unwinds(label), held)
  /\ at' = "failed"
  /\ UNCHANGED <<device, disk, scans>>

page_pool_fails ==
  \/ tree.create = "label" /\ fail("page", pools, "err_out_528_page_pool")
  \/ tree.create = "inline" /\ fail("page", destroy({"ctx"}, pools), "err_out_driver")

init_sd ==
  \/ step("built", "sd_page", IF tree.create = "no" THEN "register" ELSE "ctx")
  \/ fail("built", pools, "err_out_class")
  \/ step("ctx", "ctx", "page")
  \/ fail("ctx", pools, "err_out_528_ctx_pool")
  \/ step("page", "page", "register")
  \/ page_pool_fails
  \/ fail("register", pools, "err_out_driver")

scsi_register_driver ==
  /\ at = "register"
  /\ at' = "loaded"
  /\ UNCHANGED <<pools, device, disk, scans>>

exit_sd ==
  /\ at = "loaded"
  /\ pools' = destroy({"sd_page"} \cup (IF "exit_sd" \in tree.destroyed
                                          THEN {"page", "ctx"} ELSE {}), pools)
  /\ at' = "gone"
  /\ UNCHANGED <<device, disk, scans>>

-----------------------------------------------------------------------------
(***************************************************************************)
(* sd_revalidate_disk.                                                     *)
(***************************************************************************)
sd_disable_advanced_block_ops(d) ==
  [d EXCEPT !.lbpu = FALSE, !.mode = "disable"]

sd_528_restrict_block_ops(d) ==
  [d EXCEPT !.mode = IF d.lbpu /\ (tree.unmap = "lbpu" \/ device.count)
                       THEN "unmap" ELSE "disable"]

restricted(d) ==
  IF tree.unmap = "no" THEN sd_disable_advanced_block_ops(d)
  ELSE sd_528_restrict_block_ops(d)

sd_528_limit_queue_depth(d) == [d EXCEPT !.capped = @ \/ d.flag]

scan(here, next, becomes) ==
  /\ at = here
  /\ disk' = becomes
  /\ at' = next
  /\ UNCHANGED <<pools, device>>

revalidate_online ==
  /\ scans < MaxScans
  /\ scan("loaded", "online",
          IF "revalidate" \in tree.depth THEN sd_528_limit_queue_depth(disk) ELSE disk)
  /\ UNCHANGED scans

\* READ CAPACITY, sd_adjust_logical_sector_size, and the restriction where the
\* patch puts it.
sd_read_capacity ==
  LET adjusted == [disk EXCEPT !.flag = TRUE]
  IN  /\ scan("online", "capacity",
              IF tree.early THEN restricted(adjusted) ELSE adjusted)
      /\ UNCHANGED scans

\* Stock code, which "overwrites everything they set".
sd_read_block_provisioning ==
  /\ scan("capacity", "configured",
          [disk EXCEPT !.lbpu = device.lbpu, !.mode = device.mode])
  /\ UNCHANGED scans

late_block(d) ==
  IF "late" \in tree.depth THEN sd_528_limit_queue_depth(restricted(d))
  ELSE restricted(d)

revalidated ==
  /\ scan("configured", "loaded", IF tree.late # {} THEN late_block(disk) ELSE disk)
  /\ scans' = scans + 1

\* A cache flush, where port_universal.py first puts the call of the cap.
sd_sync_cache ==
  /\ scan("loaded", "loaded",
          IF "sync_cache" \in tree.depth THEN sd_528_limit_queue_depth(disk) ELSE disk)
  /\ UNCHANGED scans

DriverNext ==
  \/ init_sd \/ scsi_register_driver \/ exit_sd
  \/ revalidate_online \/ sd_read_capacity \/ sd_read_block_provisioning
  \/ revalidated \/ sd_sync_cache
-----------------------------------------------------------------------------
DriverTypeOK ==
  /\ at \in {"built", "ctx", "page", "register", "loaded", "failed", "gone",
             "online", "capacity", "configured"}
  /\ pools \in [Pools -> Pointers]
  /\ device \in Device
  /\ disk \in Disk
  /\ scans \in 0..MaxScans
=============================================================================
