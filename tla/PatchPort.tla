----------------------------- MODULE PatchPort -----------------------------
(***************************************************************************)
(* Bringing the patch to a kernel tree with the scripts that edit the tree *)
(* in place: apply_manual_hunks.py and port_to_68.py for a 6.8 tree, and   *)
(* port_universal.py, which is to fix up the rest on any tree.             *)
(***************************************************************************)
EXTENDS SdSource

CONSTANT MaxRuns  \* bound: how often port_universal.py is run

ASSUME PortAssumption == MaxRuns \in Nat \ {0}

VARIABLES
  gen,     \* the generation port_universal.py detected
  runs,    \* how often it was run since sd.c was last edited by hand
  first    \* auxiliary: sd.c after the first of those runs

port == <<gen, runs, first>>

PortInit == gen = "none" /\ runs = 0 /\ first = tree

\* "If hunk 1 was rejected, apply it from sd.c.rej by hand", before
\* port_universal.py is run or when it has left a text that does not build.
apply_infra_by_hand ==
  /\ pc \in {"patched", "done"} /\ recipe = "universal"
  /\ ~Hunk1(tree)
  /\ tree' = with_hunk_1(tree)
  /\ pc' = "patched"
  /\ runs' = 0
  /\ UNCHANGED <<recipe, gen, first>>

-----------------------------------------------------------------------------
(***************************************************************************)
(* apply_manual_hunks.py: the rejected hunks 1, 9 and 10.                  *)
(***************************************************************************)
with_hunk_9(t) == IF t.depth # {} THEN t ELSE [t EXCEPT !.depth = {"revalidate"}]

\* The marker is the call sd_528_effective_max_sectors(), which hunk 1 holds.
with_hunk_10(t) == IF Hunk1(t) THEN t ELSE [t EXCEPT !.cap = "none"]

apply_manual_hunks ==
  /\ pc = "patched" /\ recipe = "manual"
  /\ tree' = with_hunk_10(with_hunk_9(with_hunk_1(tree)))
  /\ pc' = "manual"
  /\ UNCHANGED <<recipe, port>>

\* port_to_68.py rewrites the function and its calls, and adds the cap.
port_to_68 ==
  /\ pc = "manual"
  /\ tree' = [tree EXCEPT !.fn = "plain",
                          !.cap = IF tree.cap = "no" /\ tree.kernel.gen = "none"
                                    THEN "none" ELSE tree.cap]
  /\ pc' = "translated"
  /\ UNCHANGED <<recipe, port>>

-----------------------------------------------------------------------------
(***************************************************************************)
(* port_universal.py, step by step.                                        *)
(***************************************************************************)
\* Is "lim->", or "lim.", in the text?
HasArrow(t) == t.kernel.gen = "ptr" \/ t.fn = "lim" \/ t.cap = "ptr"
HasDot(t) == t.kernel.gen = "local" \/ t.cap = "local"

detect(t) == IF HasArrow(t) THEN "ptr" ELSE IF HasDot(t) THEN "local" ELSE "none"

\* Bug: the anchor is one that occurs first in sd_read_capacity.
queue_depth_call_elsewhere(t) ==
  IF t.depth # {} THEN t ELSE [t EXCEPT !.depth = {"read_capacity"}]

queue_depth_call(t) ==
  IF t.depth # {} THEN t ELSE [t EXCEPT !.depth = {"sync_cache"}]

\* The anchor of a generation is there in trees of that generation only.
max_dev_sectors_cap(t, g) ==
  IF t.cap # "no" \/ g # t.kernel.gen THEN t ELSE [t EXCEPT !.cap = g]

pool_create(t) == IF t.create # "no" THEN t ELSE [t EXCEPT !.create = "inline"]

\* The first anchor is in the error path of init_sd.
pool_destroy(t) ==
  IF t.destroyed # {} THEN t ELSE [t EXCEPT !.destroyed = {"init_error"}]

discard_prototype(t, g) ==
  IF t.proto # "no" THEN t
  ELSE [t EXCEPT !.proto = IF g = "none" THEN "plain" ELSE "lim"]

\* The function of the patch is there, and nothing names the one that is to
\* replace it; the late block, which calls that one, does.
Blanket(t) == Hunk1(t) /\ t.unmap = "no" /\ t.late = {}

\* Bug: the same replacement for every generation.
trim_restriction_one_form(t, g) ==
  IF ~Blanket(t) THEN t
  ELSE [t EXCEPT !.unmap = "lbpu_count", !.fn = "plain"]

trim_restriction(t, g) ==
  IF ~Blanket(t) THEN t
  ELSE [t EXCEPT !.unmap = "lbpu_count",
                 !.fn = IF g = "ptr" THEN "lim" ELSE "plain"]

\* Bug: the test that an older port wrote stays.
unmap_condition_stays(t) == t

unmap_condition(t) ==
  IF t.unmap = "lbpu" THEN [t EXCEPT !.unmap = "lbpu_count"] ELSE t

\* Bug: only the restriction moves.
late_call_block_restricts(t, g) ==
  LET form == IF g = "ptr" THEN "lim" ELSE "plain"
  IN  IF form \in t.late THEN t
      ELSE [t EXCEPT !.early = @ /\ t.unmap = "no", !.late = @ \cup {form},
                     !.depth = {}]

\* Both calls move to the end of sd_revalidate_disk, the early one only under
\* the name it has from the restriction of TRIM.
late_call_block(t, g) ==
  LET form == IF g = "ptr" THEN "lim" ELSE "plain"
  IN  IF form \in t.late THEN t
      ELSE [t EXCEPT !.early = @ /\ t.unmap = "no", !.late = @ \cup {form},
                     !.depth = {"late"}]

\* Bug: the failure still goes past the labels.
double_free_stays(t) == t

double_free(t) == IF t.create = "inline" THEN [t EXCEPT !.create = "label"] ELSE t

\* The clamp has the marker too, and the anchor is in hunk 1.
pool_parameters(t) ==
  IF t.params > 0 \/ t.clamps > 0 \/ ~Hunk1(t) THEN t
  ELSE [t EXCEPT !.params = 1,
                 !.sized = {"depth_cap"}
                             \cup (IF t.create # "no" THEN {"create"} ELSE {})]

\* Bug: there is no marker.
pool_clamp_again(t) == [t EXCEPT !.clamps = @ + 1]

pool_clamp(t) == IF t.clamps > 0 THEN t ELSE [t EXCEPT !.clamps = 1]

Steps == {"depth_call", "cap", "create", "destroy", "prototype", "trim", "unmap",
          "late_block", "double_free", "parameters", "clamp"}

start_universal ==
  /\ \/ pc = "patched" /\ recipe = "universal" /\ Infra(tree)
     \/ pc = "translated"
     \/ pc = "done" /\ recipe # "rebase" /\ runs < MaxRuns
  /\ gen' = detect(tree)
  /\ pc' = "depth_call"
  /\ UNCHANGED <<tree, recipe, runs, first>>

Do(this, edited, next) ==
  /\ pc = this
  /\ tree' = edited
  /\ pc' = next
  /\ UNCHANGED <<recipe, port>>

finish_universal ==
  /\ pc = "write"
  /\ runs' = runs + 1
  /\ first' = IF runs = 0 THEN tree ELSE first
  /\ pc' = "done"
  /\ UNCHANGED <<tree, recipe, gen>>

port_universal ==
  \/ start_universal
  \/ Do("depth_call", queue_depth_call(tree), "cap")
  \/ Do("cap", max_dev_sectors_cap(tree, gen), "create")
  \/ Do("create", pool_create(tree), "destroy")
  \/ Do("destroy", pool_destroy(tree), "prototype")
  \/ Do("prototype", discard_prototype(tree, gen), "trim")
  \/ Do("trim", trim_restriction(tree, gen), "unmap")
  \/ Do("unmap", unmap_condition(tree), "late_block")
  \/ Do("late_block", late_call_block(tree, gen), "double_free")
  \/ Do("double_free", double_free(tree), "parameters")
  \/ Do("parameters", pool_parameters(tree), "clamp")
  \/ Do("clamp", pool_clamp(tree), "write")
  \/ finish_universal

\* An older version of the script, whose test for UNMAP was too weak.
older_port_universal ==
  /\ pc = "patched" /\ recipe = "universal"
  /\ Blanket(tree)
  /\ tree' = [trim_restriction(tree, detect(tree)) EXCEPT !.unmap = "lbpu"]
  /\ UNCHANGED <<recipe, pc, port>>

PortNext ==
  \/ apply_infra_by_hand \/ older_port_universal
  \/ apply_manual_hunks \/ port_to_68
  \/ port_universal
-----------------------------------------------------------------------------
Stages == {"stock", "patched", "died", "manual", "translated", "write", "done"}
            \cup Steps

PortTypeOK ==
  /\ tree \in Text /\ first \in Text
  /\ recipe \in {"universal", "manual", "rebase"}
  /\ pc \in Stages
  /\ gen \in Generations
  /\ runs \in 0..MaxRuns

\* port_universal.py was run.
Ported == pc = "done" /\ recipe # "rebase"

(***************************************************************************)
(* "Idempotent: running it twice changes nothing", whichever hunks landed, *)
(* also where hunk 1 did not and where it came by hand after a first run.  *)
(***************************************************************************)
Idempotent == Ported => tree = first

(***************************************************************************)
(* "The same tool works on 6.8, on 6.11 to 6.14 and on 7.0": in a text that*)
(* declares what it names, the cap is there, in the form of the tree's     *)
(* generation, and the restriction, its call and the prototype agree with  *)
(* how that generation passes limits.  (A text that does not declare them, *)
(* as one without hunk 1, is refused by the compiler, and says nothing of  *)
(* the generation.)                                                        *)
(***************************************************************************)
GenerationFits ==
  LET g == tree.kernel.gen
      form == IF g = "none" THEN "plain" ELSE "lim"
  IN  Ported /\ Declared(tree) =>
        /\ tree.cap = g
        /\ tree.fn = form /\ tree.proto = form /\ tree.late = {form}
=============================================================================
