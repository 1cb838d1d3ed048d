------------------------------ MODULE SdSource ------------------------------
(***************************************************************************)
(* The text of drivers/scsi/sd.c, which patch(1) and the port scripts      *)
(* edit.  Each edit looks for a marker, then for an anchor.  The text is   *)
(* kept as a record that says how the kernel of the tree is written, which *)
(* pieces of the emulation it holds, where and in which form; whether a    *)
(* marker or an anchor is in the text follows from it.  Pieces that land   *)
(* in every tree are left out.                                             *)
(***************************************************************************)
EXTENDS Naturals, FiniteSets

(***************************************************************************)
(* Trees to port, each with its recipe:                                    *)
(*   "universal"  patch, then port_universal.py                            *)
(*   "manual"     patch, apply_manual_hunks.py, port_to_68.py and then     *)
(*                port_universal.py                                        *)
(*   "rebase"     rebase_pve_528_patch.py                                  *)
(***************************************************************************)
CONSTANT Trees

Generations == {"none", "local", "ptr"}  \* up to 6.10, 6.11 to 6.14, 7.0
Guards == {"goto", "return", "enodev"}   \* what an offline device leads to
Registers == {"gendrv", "plain"}         \* the argument of scsi_register_driver
Kernel == [gen : Generations, guard : Guards, register : Registers]

ASSUME SourceAssumption ==
  Trees \subseteq Kernel \X {"universal", "manual", "rebase"}

\* The hunks that the scripts know of: the infrastructure (hunk 1), the
\* queue depth call (9), the cap (10), the call in sd_read_capacity (8), the
\* creation of the pools (11), the labels of init_sd (12), exit_sd (13).
Hunks == {"infra", "depth", "cap", "capacity", "create", "labels", "exit"}

VARIABLES
  tree,    \* sd.c
  recipe,
  pc       \* what was run last, or the next step of port_universal.py

Forms == {"plain", "lim"}  \* with or without a struct queue_limits argument

\* fn: the function that restricts the block operations, and proto: the
\* prototype of sd_config_discard, both by form; unmap: the test for UNMAP in
\* that function, which disables everything when there is none; early, late:
\* the calls of that function from sd_read_capacity and, by form, from the
\* late block; depth: where the queue depth is capped; create: how init_sd
\* leaves when the page pool cannot be created; destroyed: where the pools
\* are destroyed, in the error path of init_sd with or without its labels;
\* params, clamps: how often the reserve sizes are declared and clamped;
\* sized: what uses them.
Text == [kernel : Kernel, fn : Forms \cup {"no"},
         unmap : {"no", "lbpu", "lbpu_count"},
         proto : Forms \cup {"no"}, early : BOOLEAN, late : SUBSET Forms,
         depth : SUBSET {"sync_cache", "revalidate", "late"},
         cap : Generations \cup {"no"}, create : {"no", "inline", "label"},
         destroyed : SUBSET {"labels", "init_error", "exit_sd"},
         params : Nat, clamps : Nat, sized : SUBSET {"depth_cap", "create"}]

Stock(k) ==
  [kernel |-> k, fn |-> "no", unmap |-> "no", proto |-> "no", early |-> FALSE,
   late |-> {}, depth |-> {}, cap |-> "no", create |-> "no", destroyed |-> {},
   params |-> 0, clamps |-> 0, sized |-> {}]

\* The infrastructure of hunk 1 is in the text.
Hunk1(t) == t.fn # "no"

\* "sd_528_page_pool" is in the text: hunk 1 has it, but so does each piece
\* that creates or destroys the pools.
Infra(t) == Hunk1(t) \/ t.create # "no" \/ t.destroyed # {}

\* The text declares what it names: the late block calls the function that the
\* restriction of TRIM defines, the clamp sets the parameters, and every piece
\* needs hunk 1.
Declared(t) ==
  /\ Hunk1(t)
  /\ t.late # {} => t.unmap # "no"
  /\ t.clamps > 0 => t.params > 0

\* What surrounds a hunk in the tree the patch was cut against is not there
\* in every kernel.
Rejected(k) ==
  (IF k.gen # "ptr" THEN {"infra", "depth", "cap"} ELSE {})
    \cup (IF k.guard # "goto" THEN {"depth"} ELSE {})
    \cup (IF k.register # "gendrv" THEN {"create", "exit"} ELSE {})

Landed(t, H) ==
  [t EXCEPT
     !.fn = IF "infra" \in H THEN "lim" ELSE "no",
     !.early = "capacity" \in H,
     !.depth = IF "depth" \in H THEN {"revalidate"} ELSE {},
     !.cap = IF "cap" \in H THEN "ptr" ELSE "no",
     !.create = IF "create" \in H THEN "label" ELSE "no",
     !.destroyed = (IF "labels" \in H THEN {"labels"} ELSE {})
                     \cup (IF "exit" \in H THEN {"exit_sd"} ELSE {})]

\* patch(1): any other hunk may be rejected as well.
apply_patch ==
  /\ pc = "stock"
  /\ \E H \in SUBSET (Hunks \ Rejected(tree.kernel)) : tree' = Landed(tree, H)
  /\ pc' = "patched"
  /\ UNCHANGED recipe

\* The marker is the declaration of the pool, which only hunk 1 has.
with_hunk_1(t) == IF Hunk1(t) THEN t ELSE [t EXCEPT !.fn = "lim"]
=============================================================================
