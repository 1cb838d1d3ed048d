---------------------------- MODULE PortedDriver ----------------------------
(***************************************************************************)
(* From a stock kernel tree to the driver that runs: the patch, the recipe *)
(* that ports it, and then the driver built from the sd.c it left.  What   *)
(* the scripts leave out shows as a failure of init_sd, a discard the disk *)
(* cannot take, or a queue that is too deep.                               *)
(***************************************************************************)
EXTENDS PatchPort, RebasePve, SdDriver

vars == <<tree, recipe, pc, port, driver>>

Init ==
  /\ \E t \in Trees : tree = Stock(t[1]) /\ recipe = t[2]
  /\ pc = "stock"
  /\ PortInit
  /\ DriverInit

\* Jumps to the labels of init_sd only compile where the labels are, and calls
\* where the function is.
Builds ==
  /\ pc = "done" /\ (recipe = "rebase" \/ runs = MaxRuns)
  /\ Declared(tree)
  /\ tree.create # "no" => "labels" \in tree.destroyed

Next ==
  \/ apply_patch /\ UNCHANGED <<port, driver>>
  \/ PortNext /\ UNCHANGED driver
  \/ rebase /\ UNCHANGED <<port, driver>>
  \/ Builds /\ DriverNext /\ UNCHANGED <<tree, recipe, pc, port>>

Spec == Init /\ [][Next]_vars
-----------------------------------------------------------------------------
TypeOK == PortTypeOK /\ DriverTypeOK

(***************************************************************************)
(* However init_sd fails, no pool is destroyed twice and none outlives it: *)
(* the places where the recipes create and destroy the pools fit together. *)
(* A rebased driver, and a ported one whose tree took the exit hunk,       *)
(* leaves no pool behind when it is unloaded.  (port_universal.py takes    *)
(* the labels of init_sd for the calls of exit_sd.)                        *)
(***************************************************************************)
PoolsReleased ==
  LET unloads == recipe = "rebase" \/ "exit_sd" \in tree.destroyed
  IN  \A p \in Pools :
        /\ pools[p] # "freed_twice"
        /\ at = "failed" \/ (at = "gone" /\ unloads) => pools[p] # "live"

(***************************************************************************)
(* Once an emulated disk was revalidated by a driver that port_universal.py*)
(* left, it is not discarded with WRITE SAME, whose payload the emulation  *)
(* cannot resize; UNMAP stays, where the disk takes it.                    *)
(***************************************************************************)
DiscardRestricted ==
  Ported /\ at = "loaded" /\ scans > 0
    => disk.mode = IF device.lbpu /\ device.count THEN "unmap" ELSE "disable"

(***************************************************************************)
(* The queue depth of an emulated disk is capped when its revalidation     *)
(* ends; in a rebased driver, where the call comes before the sector size  *)
(* is read, when its second one ends.                                      *)
(***************************************************************************)
DepthCapped ==
  at = "loaded" /\ scans > (IF recipe = "rebase" THEN 1 ELSE 0) => disk.capped
=============================================================================
