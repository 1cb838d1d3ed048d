----------------------------- MODULE RebasePve -----------------------------
(***************************************************************************)
(* rebase_pve_528_patch.py: on a copy of the tree it applies the patch,    *)
(* puts the known hunks that were rejected where they belong in the newer  *)
(* kernel, or stops where an anchor is not there, and writes the           *)
(* difference as a new patch when the pieces it requires are there.        *)
(***************************************************************************)
EXTENDS SdSource

\* sd_revalidate_disk returns nothing, and so does the way out that the
\* patterns look for.
NoGuard(t) == t.depth = {} /\ t.kernel.guard = "enodev"

insert_queue_depth_call(t) ==
  IF t.depth # {} THEN t ELSE [t EXCEPT !.depth = {"revalidate"}]

\* The regular expression matches either way to register the driver.
insert_before_regex(t) ==
  IF t.create # "no" THEN t ELSE [t EXCEPT !.create = "label"]

ensure_init_cleanup(t) == [t EXCEPT !.destroyed = @ \cup {"labels"}]

\* The marker is the two calls next to each other, which the labels keep apart.
exit_part(t) == [t EXCEPT !.destroyed = @ \cup {"exit_sd"}]

rebased(t) ==
  exit_part(ensure_init_cleanup(insert_before_regex(
    insert_queue_depth_call(with_hunk_1(t)))))

required(t) ==
  /\ Hunk1(t) /\ t.depth # {} /\ t.create # "no"
  /\ "labels" \in t.destroyed

rebase ==
  /\ pc = "patched" /\ recipe = "rebase"
  /\ IF ~NoGuard(tree) /\ required(rebased(tree))
       THEN tree' = rebased(tree) /\ pc' = "done"
       ELSE pc' = "died" /\ UNCHANGED tree
  /\ UNCHANGED recipe
=============================================================================
