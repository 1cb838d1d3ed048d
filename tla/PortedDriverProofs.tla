------------------------- MODULE PortedDriverProofs -------------------------
(***************************************************************************)
(* The ports and the drivers built from them, for every kernel tree, every *)
(* recipe, every set of hunks that land and any number of runs and scans.  *)
(***************************************************************************)
EXTENDS PortedDriver, TLAPS

-----------------------------------------------------------------------------
(***************************************************************************)
(* How far a run of port_universal.py has come, and what its steps, once   *)
(* taken, have left in the text; a text that was ported has all of it.     *)
(***************************************************************************)
Early == {"stock", "patched", "died", "manual", "translated"}

Rank(p) ==
  IF p = "depth_call" THEN 1 ELSE IF p = "cap" THEN 2
  ELSE IF p = "create" THEN 3 ELSE IF p = "destroy" THEN 4
  ELSE IF p = "prototype" THEN 5 ELSE IF p = "trim" THEN 6
  ELSE IF p = "unmap" THEN 7 ELSE IF p = "late_block" THEN 8
  ELSE IF p = "double_free" THEN 9 ELSE IF p = "parameters" THEN 10
  ELSE IF p = "clamp" THEN 11 ELSE IF p = "write" THEN 12 ELSE 0

Form(g) == IF g = "ptr" THEN "lim" ELSE "plain"

Marked(t, g, n) ==
  /\ n > 1 => t.depth # {}
  /\ n > 2 => t.cap # "no" \/ g # t.kernel.gen
  /\ n > 3 => t.create # "no"
  /\ n > 4 => t.destroyed # {}
  /\ n > 5 => t.proto # "no"
  /\ n > 6 => t.unmap # "no" \/ t.late # {} \/ ~Hunk1(t)
  /\ n > 7 => t.unmap # "lbpu"
  /\ n > 8 => Form(g) \in t.late
  /\ n > 9 => t.create # "inline"
  /\ n > 10 => t.params > 0 \/ t.clamps > 0 \/ ~Hunk1(t)
  /\ n > 11 => t.clamps > 0

Typed == PortTypeOK

\* runs is 0 until port_universal.py was run to its end, and again when hunk 1
\* is then applied by hand.
Staged ==
  /\ pc \in Early => runs = 0
  /\ Rank(pc) > 0 => runs < MaxRuns
  /\ recipe = "rebase" => Rank(pc) = 0 /\ runs = 0
  /\ Ported => runs > 0
  /\ pc \in {"manual", "translated"} => recipe = "manual"

Progress ==
  /\ Marked(tree, gen, IF runs > 0 THEN 12 ELSE Rank(pc))
  /\ runs > 0 => tree = first

Held ==
  /\ pc = "stock" => tree = Stock(tree.kernel)
  /\ runs > 0 \/ Rank(pc) > 0 \/ pc \in {"manual", "translated"} => Infra(tree)
  /\ runs > 0 \/ Rank(pc) > 0 => gen = detect(tree)
  /\ tree.late # {} => "late" \in tree.depth
  /\ tree.create = "inline" => Rank(pc) \in 4..9

Rebased ==
  recipe = "rebase" =>
    /\ pc \in {"stock", "patched", "died", "done"}
    /\ tree.depth \subseteq {"revalidate"} /\ tree.late = {}
    /\ pc = "done" => tree.depth # {} /\ tree.create = "label"
                        /\ "exit_sd" \in tree.destroyed

PortInv == Typed /\ Staged /\ Progress /\ Held /\ Rebased

-----------------------------------------------------------------------------
(***************************************************************************)
(* Every edit of the text gives a text.                                    *)
(***************************************************************************)
LEMMA EditsTyped ==
  ASSUME NEW t \in Text, NEW g \in Generations
  PROVE  /\ with_hunk_1(t) \in Text /\ with_hunk_9(t) \in Text
         /\ with_hunk_10(t) \in Text
         /\ queue_depth_call(t) \in Text /\ max_dev_sectors_cap(t, g) \in Text
         /\ pool_create(t) \in Text /\ pool_destroy(t) \in Text
         /\ discard_prototype(t, g) \in Text /\ trim_restriction(t, g) \in Text
         /\ unmap_condition(t) \in Text /\ late_call_block(t, g) \in Text
         /\ double_free(t) \in Text /\ pool_parameters(t) \in Text
         /\ pool_clamp(t) \in Text
<1> USE DEF Text, Generations, Forms
<1>1. with_hunk_1(t) \in Text
  BY DEF with_hunk_1
<1>2. with_hunk_9(t) \in Text
  BY DEF with_hunk_9
<1>3. with_hunk_10(t) \in Text
  BY DEF with_hunk_10
<1>4. queue_depth_call(t) \in Text
  BY DEF queue_depth_call
<1>5. max_dev_sectors_cap(t, g) \in Text
  BY DEF max_dev_sectors_cap
<1>6. pool_create(t) \in Text
  BY DEF pool_create
<1>7. pool_destroy(t) \in Text
  BY DEF pool_destroy
<1>8. discard_prototype(t, g) \in Text
  BY DEF discard_prototype
<1>9. trim_restriction(t, g) \in Text
  <2> DEFINE fn == IF g = "ptr" THEN "lim" ELSE "plain"
             e == [t EXCEPT !.unmap = "lbpu_count", !.fn = fn]
  <2>1. fn \in Forms
    OBVIOUS
  <2> HIDE DEF fn
  <2>2. e \in Text
    BY <2>1
  <2> QED
    BY <2>2 DEF trim_restriction, fn
<1>10. unmap_condition(t) \in Text
  BY DEF unmap_condition
<1>11. late_call_block(t, g) \in Text
  <2> DEFINE form == IF g = "ptr" THEN "lim" ELSE "plain"
  <2>1. form \in Forms
    OBVIOUS
  <2> HIDE DEF form
  <2> DEFINE early == t.early /\ t.unmap = "no"
  <2>2. early \in BOOLEAN
    OBVIOUS
  <2>3. late_call_block(t, g) =
          IF form \in t.late THEN t
          ELSE [t EXCEPT !.early = early, !.late = @ \cup {form}, !.depth = {"late"}]
    BY DEF late_call_block, form
  <2> HIDE DEF early
  <2>4. [t EXCEPT !.early = early, !.late = @ \cup {form}, !.depth = {"late"}] \in Text
    BY <2>1, <2>2
  <2> QED
    BY <2>3, <2>4
<1>12. double_free(t) \in Text
  BY DEF double_free
<1>13. pool_parameters(t) \in Text
  <2> DEFINE sized == {"depth_cap"} \cup (IF t.create # "no" THEN {"create"} ELSE {})
  <2>1. sized \in SUBSET {"depth_cap", "create"}
    OBVIOUS
  <2> HIDE DEF sized
  <2>2. [t EXCEPT !.params = 1, !.sized = sized] \in Text
    BY <2>1
  <2> QED
    BY <2>2 DEF pool_parameters, sized
<1>14. pool_clamp(t) \in Text
  BY DEF pool_clamp
<1> QED
  BY <1>1, <1>2, <1>3, <1>4, <1>5, <1>6, <1>7, <1>8, <1>9, <1>10, <1>11,
     <1>12, <1>13, <1>14

-----------------------------------------------------------------------------
(***************************************************************************)
(* The invariant of the ports.                                             *)
(***************************************************************************)
LEMMA StockTyped ==
  ASSUME NEW k \in Kernel
  PROVE  Stock(k) \in Text
BY DEF Stock, Text, Kernel, Forms, Generations

LEMMA PortStarts ==
  Init => PortInv
<1> SUFFICES ASSUME Init PROVE PortInv
  OBVIOUS
<1>1. PICK k \in Kernel, w \in {"universal", "manual", "rebase"} :
        tree = Stock(k) /\ recipe = w
  BY SourceAssumption DEF Init
<1>2. Typed
  BY <1>1, StockTyped, PortAssumption DEF Typed, PortTypeOK, Init, PortInit, Stages, Generations
<1>3. Staged /\ Progress /\ Held /\ Rebased
  BY <1>1 DEF Init, PortInit, Staged, Progress, Marked, Held, Rebased, Early, Rank,
     Ported, Stock, Infra, Hunk1
<1> QED
  BY <1>2, <1>3 DEF PortInv

LEMMA LandsFirst ==
  ASSUME NEW t \in Text, NEW fn \in Forms \cup {"no"}, NEW early \in BOOLEAN,
         NEW depth \in SUBSET {"sync_cache", "revalidate", "late"}
  PROVE  [t EXCEPT !.fn = fn, !.early = early, !.depth = depth] \in Text
BY DEF Text

LEMMA LandsThen ==
  ASSUME NEW t \in Text, NEW cap \in Generations \cup {"no"},
         NEW create \in {"no", "inline", "label"},
         NEW destroyed \in SUBSET {"labels", "init_error", "exit_sd"}
  PROVE  [t EXCEPT !.cap = cap, !.create = create, !.destroyed = destroyed] \in Text
BY DEF Text

LEMMA LandedTyped ==
  ASSUME NEW t \in Text, NEW H \in SUBSET Hunks
  PROVE  Landed(t, H) \in Text
<1> DEFINE fn == IF "infra" \in H THEN "lim" ELSE "no"
           early == "capacity" \in H
           depth == IF "depth" \in H THEN {"revalidate"} ELSE {}
           cap == IF "cap" \in H THEN "ptr" ELSE "no"
           create == IF "create" \in H THEN "label" ELSE "no"
           destroyed == (IF "labels" \in H THEN {"labels"} ELSE {})
                          \cup (IF "exit" \in H THEN {"exit_sd"} ELSE {})
           half == [t EXCEPT !.fn = fn, !.early = early, !.depth = depth]
<1>1. /\ fn \in Forms \cup {"no"} /\ early \in BOOLEAN
      /\ depth \in SUBSET {"sync_cache", "revalidate", "late"}
      /\ cap \in Generations \cup {"no"} /\ create \in {"no", "inline", "label"}
      /\ destroyed \in SUBSET {"labels", "init_error", "exit_sd"}
  BY DEF Forms, Generations
<1>2. Landed(t, H) = [half EXCEPT !.cap = cap, !.create = create, !.destroyed = destroyed]
  BY DEF Landed, Text
<1> HIDE DEF fn, early, depth, cap, create, destroyed, half
<1>3. half \in Text
  BY <1>1, LandsFirst DEF half
<1>4. [half EXCEPT !.cap = cap, !.create = create, !.destroyed = destroyed] \in Text
  BY <1>1, <1>3, LandsThen, Zenon
<1> QED
  BY <1>2, <1>4, Zenon

LEMMA PatchKeeps ==
  PortInv /\ apply_patch /\ UNCHANGED port => PortInv'
<1> SUFFICES ASSUME PortInv, apply_patch, UNCHANGED port PROVE PortInv'
  OBVIOUS
<1> USE DEF port
<1>1. PICK H \in SUBSET Hunks : tree' = Landed(tree, H)
  BY DEF apply_patch
<1>2. pc = "stock" /\ pc' = "patched" /\ recipe' = recipe
      /\ gen' = gen /\ runs' = runs /\ first' = first /\ runs = 0
  BY DEF apply_patch, PortInv, Staged, Early
<1>3. tree' \in Text
  BY <1>1, LandedTyped DEF PortInv, Typed, PortTypeOK
<1>4. Typed'
  BY <1>2, <1>3 DEF PortInv, Typed, PortTypeOK, Stages
<1>5. Staged' /\ Progress'
  BY <1>2 DEF PortInv, Staged, Progress, Marked, Early, Rank, Ported
<1>6. /\ tree'.late = tree.late /\ tree'.depth \subseteq {"revalidate"}
      /\ tree'.create # "inline"
  BY <1>1 DEF Landed, PortInv, Typed, PortTypeOK, Text
<1>7. tree.late = {}
  BY <1>2 DEF PortInv, Held, Stock
<1> QED
  BY <1>2, <1>4, <1>5, <1>6, <1>7 DEF PortInv, Held, Rebased, Rank, Infra, Hunk1

-----------------------------------------------------------------------------
(***************************************************************************)
(* A text is a function of these fields.                                   *)
(***************************************************************************)
LEMMA Fields ==
  ASSUME NEW t \in Text
  PROVE  t = [f \in {"kernel", "fn", "unmap", "proto", "early", "late", "depth",
                     "cap", "create", "destroyed", "params", "clamps", "sized"} |-> t[f]]
BY DEF Text

(***************************************************************************)
(* An edit of step n keeps what earlier ones left and leaves its own mark; *)
(* a text that has every mark it does not change.                          *)
(***************************************************************************)
Edit(t, g, n, e) ==
  /\ e \in Text /\ Infra(e) /\ detect(e) = g
  /\ Marked(t, g, n) => Marked(e, g, n + 1)
  /\ Marked(t, g, 12) => e = t
  /\ (t.late # {} => "late" \in t.depth) => (e.late # {} => "late" \in e.depth)
  /\ e.create = "inline" => t.create = "inline" \/ n = 3

LEMMA Edits ==
  ASSUME NEW t \in Text, NEW g \in Generations, Infra(t), g = detect(t)
  PROVE  /\ Edit(t, g, 1, queue_depth_call(t))
         /\ Edit(t, g, 2, max_dev_sectors_cap(t, g))
         /\ Edit(t, g, 3, pool_create(t))
         /\ Edit(t, g, 4, pool_destroy(t))
         /\ Edit(t, g, 5, discard_prototype(t, g))
         /\ Edit(t, g, 6, trim_restriction(t, g))
         /\ Edit(t, g, 7, unmap_condition(t))
         /\ Edit(t, g, 8, late_call_block(t, g))
         /\ Edit(t, g, 9, double_free(t)) /\ double_free(t).create # "inline"
         /\ Edit(t, g, 10, pool_parameters(t))
         /\ Edit(t, g, 11, pool_clamp(t))
<1> USE Fields DEF Edit, Infra, Hunk1, detect, HasArrow, HasDot, Marked, Form
<1>1. Edit(t, g, 1, queue_depth_call(t))
  <2>1. queue_depth_call(t) \in Text
    BY EditsTyped
  <2> QED
    BY <2>1 DEF queue_depth_call
<1>2. Edit(t, g, 2, max_dev_sectors_cap(t, g))
  <2>1. max_dev_sectors_cap(t, g) \in Text
    BY EditsTyped
  <2> QED
    BY <2>1 DEF max_dev_sectors_cap, Generations
<1>3. Edit(t, g, 3, pool_create(t))
  <2>1. pool_create(t) \in Text
    BY EditsTyped
  <2> QED
    BY <2>1 DEF pool_create
<1>4. Edit(t, g, 4, pool_destroy(t))
  <2>1. pool_destroy(t) \in Text
    BY EditsTyped
  <2> QED
    BY <2>1 DEF pool_destroy
<1>5. Edit(t, g, 5, discard_prototype(t, g))
  <2>1. discard_prototype(t, g) \in Text
    BY EditsTyped
  <2> QED
    BY <2>1 DEF discard_prototype
<1>6. Edit(t, g, 6, trim_restriction(t, g))
  <2>1. trim_restriction(t, g) \in Text
    BY EditsTyped
  <2> QED
    BY <2>1 DEF trim_restriction, Blanket, Generations
<1>7. Edit(t, g, 7, unmap_condition(t))
  <2>1. unmap_condition(t) \in Text
    BY EditsTyped
  <2> QED
    BY <2>1 DEF unmap_condition
<1>8. Edit(t, g, 8, late_call_block(t, g))
  <2>1. late_call_block(t, g) \in Text
    BY EditsTyped
  <2> QED
    BY <2>1 DEF late_call_block, Forms
<1>9. Edit(t, g, 9, double_free(t)) /\ double_free(t).create # "inline"
  <2>1. double_free(t) \in Text
    BY EditsTyped
  <2> QED
    BY <2>1 DEF double_free
<1>10. Edit(t, g, 10, pool_parameters(t))
  <2>1. pool_parameters(t) \in Text
    BY EditsTyped
  <2> QED
    BY <2>1 DEF pool_parameters
<1>11. Edit(t, g, 11, pool_clamp(t))
  <2>1. pool_clamp(t) \in Text
    BY EditsTyped
  <2> QED
    BY <2>1 DEF pool_clamp
<1> QED
  BY <1>1, <1>2, <1>3, <1>4, <1>5, <1>6, <1>7, <1>8, <1>9, <1>10, <1>11

LEMMA RankBounds ==
  ASSUME NEW p
  PROVE  /\ Rank(p) \in 0..12
         /\ Rank(p) > 0 => p \notin Early /\ p # "done"
BY DEF Rank, Early

(***************************************************************************)
(* A step of port_universal.py.                                            *)
(***************************************************************************)
LEMMA DoKeeps ==
  ASSUME PortInv, Rank(pc) \in 1..11,
         NEW next \in Steps \cup {"write"}, Rank(next) = Rank(pc) + 1,
         NEW edited, Do(pc, edited, next), Edit(tree, gen, Rank(pc), edited),
         Rank(pc) = 9 => edited.create # "inline"
  PROVE  PortInv'
<1> DEFINE n == Rank(pc)
<1>1. /\ tree' = edited /\ pc' = next /\ recipe' = recipe
      /\ gen' = gen /\ runs' = runs /\ first' = first
  BY DEF Do, port
<1>2. runs \in Nat /\ recipe # "rebase" /\ runs < MaxRuns
  BY <1>1, PortAssumption DEF PortInv, Staged, Typed, PortTypeOK
<1>3. pc \notin Early /\ next \notin Early /\ next # "done" /\ pc # "done"
  BY RankBounds
<1>4. Typed'
  BY <1>1 DEF PortInv, Typed, PortTypeOK, Stages, Edit
<1>5. Staged'
  BY <1>1, <1>2, <1>3 DEF PortInv, Staged, Ported, Early
<1>6. Progress'
  BY <1>1, <1>2 DEF PortInv, Progress, Edit
<1>7. edited.create = "inline" => n + 1 \in 4..9
  <2>1. edited.create = "inline" => tree.create = "inline" \/ n = 3
    BY DEF Edit
  <2>2. tree.create = "inline" => n \in 4..9
    BY <1>1 DEF PortInv, Held
  <2> QED
    BY <2>1, <2>2
<1>8. Held' /\ Rebased'
  BY <1>1, <1>2, <1>3, <1>7 DEF PortInv, Held, Rebased, Early, Edit
<1> QED
  BY <1>4, <1>5, <1>6, <1>8 DEF PortInv

LEMMA Stepping ==
  ASSUME PortInv, Rank(pc) > 0
  PROVE  tree \in Text /\ gen \in Generations /\ Infra(tree) /\ gen = detect(tree)
BY DEF PortInv, Typed, PortTypeOK, Held

LEMMA StepKeeps ==
  ASSUME PortInv, port_universal, ~start_universal, ~finish_universal
  PROVE  PortInv'
<1>1. CASE Do("depth_call", queue_depth_call(tree), "cap")
  <2> DEFINE e == queue_depth_call(tree)
  <2>1. /\ pc = "depth_call" /\ Do(pc, e, "cap") /\ Rank(pc) = 1
        /\ "cap" \in Steps \cup {"write"} /\ Rank("cap") = 2
    BY <1>1 DEF Do, Rank, Steps
  <2>2. Edit(tree, gen, 1, e)
    BY <2>1, Stepping, Edits
  <2> HIDE DEF e
  <2> QED
    BY <2>1, <2>2, DoKeeps
<1>2. CASE Do("cap", max_dev_sectors_cap(tree, gen), "create")
  <2> DEFINE e == max_dev_sectors_cap(tree, gen)
  <2>1. /\ pc = "cap" /\ Do(pc, e, "create") /\ Rank(pc) = 2
        /\ "create" \in Steps \cup {"write"} /\ Rank("create") = 3
    BY <1>2 DEF Do, Rank, Steps
  <2>2. Edit(tree, gen, 2, e)
    BY <2>1, Stepping, Edits
  <2> HIDE DEF e
  <2> QED
    BY <2>1, <2>2, DoKeeps
<1>3. CASE Do("create", pool_create(tree), "destroy")
  <2> DEFINE e == pool_create(tree)
  <2>1. /\ pc = "create" /\ Do(pc, e, "destroy") /\ Rank(pc) = 3
        /\ "destroy" \in Steps \cup {"write"} /\ Rank("destroy") = 4
    BY <1>3 DEF Do, Rank, Steps
  <2>2. Edit(tree, gen, 3, e)
    BY <2>1, Stepping, Edits
  <2> HIDE DEF e
  <2> QED
    BY <2>1, <2>2, DoKeeps
<1>4. CASE Do("destroy", pool_destroy(tree), "prototype")
  <2> DEFINE e == pool_destroy(tree)
  <2>1. /\ pc = "destroy" /\ Do(pc, e, "prototype") /\ Rank(pc) = 4
        /\ "prototype" \in Steps \cup {"write"} /\ Rank("prototype") = 5
    BY <1>4 DEF Do, Rank, Steps
  <2>2. Edit(tree, gen, 4, e)
    BY <2>1, Stepping, Edits
  <2> HIDE DEF e
  <2> QED
    BY <2>1, <2>2, DoKeeps
<1>5. CASE Do("prototype", discard_prototype(tree, gen), "trim")
  <2> DEFINE e == discard_prototype(tree, gen)
  <2>1. /\ pc = "prototype" /\ Do(pc, e, "trim") /\ Rank(pc) = 5
        /\ "trim" \in Steps \cup {"write"} /\ Rank("trim") = 6
    BY <1>5 DEF Do, Rank, Steps
  <2>2. Edit(tree, gen, 5, e)
    BY <2>1, Stepping, Edits
  <2> HIDE DEF e
  <2> QED
    BY <2>1, <2>2, DoKeeps
<1>6. CASE Do("trim", trim_restriction(tree, gen), "unmap")
  <2> DEFINE e == trim_restriction(tree, gen)
  <2>1. /\ pc = "trim" /\ Do(pc, e, "unmap") /\ Rank(pc) = 6
        /\ "unmap" \in Steps \cup {"write"} /\ Rank("unmap") = 7
    BY <1>6 DEF Do, Rank, Steps
  <2>2. Edit(tree, gen, 6, e)
    BY <2>1, Stepping, Edits
  <2> HIDE DEF e
  <2> QED
    BY <2>1, <2>2, DoKeeps
<1>7. CASE Do("unmap", unmap_condition(tree), "late_block")
  <2> DEFINE e == unmap_condition(tree)
  <2>1. /\ pc = "unmap" /\ Do(pc, e, "late_block") /\ Rank(pc) = 7
        /\ "late_block" \in Steps \cup {"write"} /\ Rank("late_block") = 8
    BY <1>7 DEF Do, Rank, Steps
  <2>2. Edit(tree, gen, 7, e)
    BY <2>1, Stepping, Edits
  <2> HIDE DEF e
  <2> QED
    BY <2>1, <2>2, DoKeeps
<1>8. CASE Do("late_block", late_call_block(tree, gen), "double_free")
  <2> DEFINE e == late_call_block(tree, gen)
  <2>1. /\ pc = "late_block" /\ Do(pc, e, "double_free") /\ Rank(pc) = 8
        /\ "double_free" \in Steps \cup {"write"} /\ Rank("double_free") = 9
    BY <1>8 DEF Do, Rank, Steps
  <2>2. Edit(tree, gen, 8, e)
    BY <2>1, Stepping, Edits
  <2> HIDE DEF e
  <2> QED
    BY <2>1, <2>2, DoKeeps
<1>9. CASE Do("double_free", double_free(tree), "parameters")
  <2> DEFINE e == double_free(tree)
  <2>1. /\ pc = "double_free" /\ Do(pc, e, "parameters") /\ Rank(pc) = 9
        /\ "parameters" \in Steps \cup {"write"} /\ Rank("parameters") = 10
    BY <1>9 DEF Do, Rank, Steps
  <2>2. Edit(tree, gen, 9, e) /\ e.create # "inline"
    BY <2>1, Stepping, Edits
  <2> HIDE DEF e
  <2> QED
    BY <2>1, <2>2, DoKeeps
<1>10. CASE Do("parameters", pool_parameters(tree), "clamp")
  <2> DEFINE e == pool_parameters(tree)
  <2>1. /\ pc = "parameters" /\ Do(pc, e, "clamp") /\ Rank(pc) = 10
        /\ "clamp" \in Steps \cup {"write"} /\ Rank("clamp") = 11
    BY <1>10 DEF Do, Rank, Steps
  <2>2. Edit(tree, gen, 10, e)
    BY <2>1, Stepping, Edits
  <2> HIDE DEF e
  <2> QED
    BY <2>1, <2>2, DoKeeps
<1>11. CASE Do("clamp", pool_clamp(tree), "write")
  <2> DEFINE e == pool_clamp(tree)
  <2>1. /\ pc = "clamp" /\ Do(pc, e, "write") /\ Rank(pc) = 11
        /\ "write" \in Steps \cup {"write"} /\ Rank("write") = 12
    BY <1>11 DEF Do, Rank, Steps
  <2>2. Edit(tree, gen, 11, e)
    BY <2>1, Stepping, Edits
  <2> HIDE DEF e
  <2> QED
    BY <2>1, <2>2, DoKeeps
<1> QED
  BY <1>1, <1>2, <1>3, <1>4, <1>5, <1>6, <1>7, <1>8, <1>9, <1>10, <1>11
     DEF port_universal

LEMMA StartKeeps ==
  PortInv /\ start_universal => PortInv'
<1> SUFFICES ASSUME PortInv, start_universal PROVE PortInv'
  OBVIOUS
<1>1. /\ pc' = "depth_call" /\ gen' = detect(tree) /\ tree' = tree
      /\ recipe' = recipe /\ runs' = runs /\ first' = first
  BY DEF start_universal
<1>2. /\ recipe # "rebase" /\ runs < MaxRuns /\ Infra(tree)
      /\ tree.create # "inline" /\ (runs > 0 => gen = gen')
  BY <1>1, PortAssumption
     DEF start_universal, PortInv, Staged, Held, Early, Ported, Rank, Typed, PortTypeOK
<1>3. Typed'
  BY <1>1 DEF PortInv, Typed, PortTypeOK, Stages, Steps, detect, Generations
<1>4. Staged' /\ Progress' /\ Held' /\ Rebased'
  BY <1>1, <1>2 DEF PortInv, Staged, Progress, Held, Rebased, Early, Rank, Ported, Marked
<1> QED
  BY <1>3, <1>4 DEF PortInv

LEMMA FinishKeeps ==
  PortInv /\ finish_universal => PortInv'
<1> SUFFICES ASSUME PortInv, finish_universal PROVE PortInv'
  OBVIOUS
<1>1. /\ pc = "write" /\ pc' = "done" /\ runs' = runs + 1 /\ tree' = tree
      /\ recipe' = recipe /\ gen' = gen
      /\ first' = IF runs = 0 THEN tree ELSE first
  BY DEF finish_universal
<1>2. Rank(pc) = 12 /\ runs < MaxRuns /\ recipe # "rebase" /\ runs \in Nat
  BY <1>1 DEF PortInv, Staged, Typed, PortTypeOK, Rank
<1>3. Typed'
  BY <1>1, <1>2, PortAssumption DEF PortInv, Typed, PortTypeOK, Stages
<1>4. Staged' /\ Held' /\ Rebased'
  BY <1>1, <1>2 DEF PortInv, Staged, Held, Rebased, Early, Rank, Ported
<1>5. Marked(tree, gen, 12) /\ first' = tree
  BY <1>1, <1>2 DEF PortInv, Progress
<1> QED
  BY <1>1, <1>2, <1>3, <1>4, <1>5 DEF PortInv, Progress

(***************************************************************************)
(* What is done by hand, by older versions of the script or by the scripts *)
(* for 6.8 before port_universal.py is run.                                *)
(***************************************************************************)
LEMMA BeforeKeeps ==
  ASSUME PortInv, NEW edited \in Text, tree' = edited, NEW next, pc' = next,
         pc \in {"patched", "manual"}, UNCHANGED <<recipe, port>>, recipe # "rebase",
         next \in {"patched", "manual", "translated"}, Hunk1(edited),
         next # "patched" => recipe = "manual",
         edited.late = tree.late, edited.create = tree.create,
         tree.depth # {} => edited.depth = tree.depth
  PROVE  PortInv'
<1>1. recipe' = recipe /\ gen' = gen /\ runs' = runs /\ first' = first /\ runs = 0
  BY DEF port, PortInv, Staged, Early
<1>2. Typed'
  BY <1>1 DEF PortInv, Typed, PortTypeOK, Stages
<1>3. Rank(next) = 0 /\ Rank(pc) = 0 /\ next \in Early /\ next # "stock"
  BY DEF Rank, Early
<1>4. Staged' /\ Progress'
  BY <1>1, <1>3 DEF PortInv, Staged, Progress, Ported, Marked, Early
<1>5. Held' /\ Rebased'
  BY <1>1, <1>3 DEF PortInv, Held, Rebased, Infra
<1> QED
  BY <1>2, <1>4, <1>5 DEF PortInv

\* Hunk 1 may come by hand after a run, which then counts no more.
LEMMA HandKeeps ==
  PortInv /\ apply_infra_by_hand => PortInv'
<1> SUFFICES ASSUME PortInv, apply_infra_by_hand PROVE PortInv'
  OBVIOUS
<1> DEFINE e == with_hunk_1(tree)
<1>1. /\ pc \in {"patched", "done"} /\ pc' = "patched" /\ tree' = e /\ runs' = 0
      /\ recipe = "universal" /\ recipe' = recipe /\ gen' = gen /\ first' = first
  BY DEF apply_infra_by_hand
<1>2. tree \in Text /\ e \in Text
  BY EditsTyped DEF PortInv, Typed, PortTypeOK, Generations
<1>3. e.late = tree.late /\ e.create = tree.create /\ e.depth = tree.depth
  BY <1>2, Fields DEF with_hunk_1
<1> HIDE DEF e
<1>4. Typed'
  BY <1>1, <1>2, PortAssumption DEF PortInv, Typed, PortTypeOK, Stages
<1>5. Staged' /\ Progress'
  BY <1>1 DEF PortInv, Staged, Progress, Marked, Early, Rank, Ported
<1>6. Held' /\ Rebased'
  BY <1>1, <1>3 DEF PortInv, Held, Rebased, Rank
<1> QED
  BY <1>4, <1>5, <1>6 DEF PortInv

LEMMA PortKeeps ==
  PortInv /\ PortNext => PortInv'
<1> SUFFICES ASSUME PortInv, PortNext PROVE PortInv'
  OBVIOUS
<1>t. tree \in Text
  BY DEF PortInv, Typed, PortTypeOK
<1> USE DEF Hunk1
<1>1. CASE apply_infra_by_hand
  BY <1>1, HandKeeps
<1>2. CASE older_port_universal
  <2>1. detect(tree) \in Generations
    BY DEF detect, Generations
  <2>2. trim_restriction(tree, detect(tree)) \in Text
    BY <1>t, <2>1, EditsTyped
  <2> DEFINE t == trim_restriction(tree, detect(tree))
  <2>3. /\ t.fn # "no" /\ t.late = tree.late /\ t.create = tree.create
        /\ t.depth = tree.depth
    BY <1>t, <1>2, Fields DEF trim_restriction, older_port_universal, Blanket
  <2> HIDE DEF t
  <2>4. [t EXCEPT !.unmap = "lbpu"] \in Text
    BY <2>2 DEF Text, t
  <2>5. tree' = [t EXCEPT !.unmap = "lbpu"]
    BY <1>2 DEF older_port_universal, t
  <2> QED
    BY <1>2, <2>2, <2>3, <2>4, <2>5, Fields, BeforeKeeps DEF older_port_universal, t
<1>3. CASE apply_manual_hunks
  <2> DEFINE t == with_hunk_1(tree)
             u == with_hunk_9(t)
             v == with_hunk_10(u)
  <2>1. t \in Text /\ u \in Text /\ v \in Text
    BY <1>t, EditsTyped DEF Generations
  <2>2. /\ t.fn # "no" /\ t.late = tree.late /\ t.create = tree.create
        /\ t.depth = tree.depth
    BY <1>t, Fields DEF with_hunk_1
  <2>3. /\ u.fn # "no" /\ u.late = tree.late /\ u.create = tree.create
        /\ tree.depth # {} => u.depth = tree.depth
    BY <2>1, <2>2, Fields DEF with_hunk_9
  <2>4. v = u
    BY <2>3 DEF with_hunk_10
  <2> QED
    BY <1>3, <2>1, <2>3, <2>4, BeforeKeeps DEF apply_manual_hunks
<1>4. CASE port_to_68
  <2> DEFINE cap == IF tree.cap = "no" /\ tree.kernel.gen = "none" THEN "none" ELSE tree.cap
             t == [tree EXCEPT !.fn = "plain", !.cap = cap]
  <2>1. cap \in Generations \cup {"no"}
    BY <1>t DEF Text, Generations
  <2> HIDE DEF cap
  <2>2. t \in Text
    BY <1>t, <2>1 DEF Text, Forms
  <2>3. tree' = t
    BY <1>4 DEF port_to_68, cap
  <2>4. recipe = "manual"
    BY <1>4 DEF port_to_68, PortInv, Staged
  <2>5. Hunk1(t) /\ t.late = tree.late /\ t.create = tree.create /\ t.depth = tree.depth
    BY <1>t, Fields
  <2> HIDE DEF t
  <2>6. pc = "manual" /\ pc' = "translated" /\ UNCHANGED <<recipe, port>>
    BY <1>4 DEF port_to_68
  <2> QED
    BY <2>2, <2>3, <2>4, <2>5, <2>6, BeforeKeeps
<1>5. CASE port_universal
  BY <1>5, StartKeeps, FinishKeeps, StepKeeps
<1> QED
  BY <1>1, <1>2, <1>3, <1>4, <1>5 DEF PortNext

LEMMA RebaseKeeps ==
  PortInv /\ rebase /\ UNCHANGED port => PortInv'
<1> SUFFICES ASSUME PortInv, rebase, UNCHANGED port PROVE PortInv'
  OBVIOUS
<1>1. /\ pc = "patched" /\ recipe = "rebase" /\ recipe' = recipe
      /\ gen' = gen /\ runs' = runs /\ first' = first /\ runs = 0
      /\ tree \in Text /\ tree.create # "inline"
  BY DEF rebase, port, PortInv, Staged, Early, Typed, PortTypeOK, Held, Rank
<1>2. CASE pc' = "died" /\ tree' = tree
  BY <1>1, <1>2 DEF PortInv, Typed, PortTypeOK, Stages, Staged, Progress, Held,
     Rebased, Early, Rank, Ported, Marked
<1>3. CASE pc' = "done" /\ tree' = rebased(tree)
  <2> DEFINE a == with_hunk_1(tree)
             b == insert_queue_depth_call(a)
             c == insert_before_regex(b)
             d == ensure_init_cleanup(c)
             e == exit_part(d)
  <2>1. a \in Text /\ a.create = tree.create /\ a.depth = tree.depth /\ a.late = tree.late
    BY <1>1, EditsTyped, Fields DEF with_hunk_1, Generations
  <2> HIDE DEF a
  <2>2. /\ b \in Text /\ b.create = a.create /\ b.late = a.late
        /\ b.depth # {} /\ (a.depth # {} => b.depth = a.depth)
        /\ (a.depth = {} => b.depth = {"revalidate"})
    BY <2>1, Fields DEF insert_queue_depth_call, Text
  <2> HIDE DEF b
  <2>3. /\ c \in Text /\ c.create # "no" /\ c.late = b.late /\ c.depth = b.depth
        /\ (b.create # "inline" => c.create # "inline")
    BY <2>2, Fields DEF insert_before_regex, Text
  <2> HIDE DEF c
  <2>4. d \in Text /\ d.create = c.create /\ d.late = c.late /\ d.depth = c.depth
    BY <2>3, Fields DEF ensure_init_cleanup, Text
  <2> HIDE DEF d
  <2>5. /\ e \in Text /\ e.create = d.create /\ e.late = d.late /\ e.depth = d.depth
        /\ "exit_sd" \in e.destroyed
    BY <2>4, Fields DEF exit_part, Text
  <2> HIDE DEF e
  <2>6. tree' = e
    BY <1>3 DEF rebased, a, b, c, d, e
  <2>7. e.create = "label" /\ e.late = {} /\ e.depth # {} /\ e.depth \subseteq {"revalidate"}
    BY <1>1, <2>1, <2>2, <2>3, <2>4, <2>5 DEF PortInv, Rebased, Text
  <2>8. Typed'
    BY <1>1, <1>3, <2>5, <2>6 DEF PortInv, Typed, PortTypeOK, Stages
  <2>9. Staged' /\ Progress'
    BY <1>1, <1>3 DEF PortInv, Staged, Progress, Early, Rank, Ported, Marked
  <2> QED
    BY <1>1, <1>3, <2>5, <2>6, <2>7, <2>8, <2>9 DEF PortInv, Held, Rebased, Rank, Infra, Hunk1
<1> QED
  BY <1>2, <1>3 DEF rebase

-----------------------------------------------------------------------------
(***************************************************************************)
(* The driver: what is live at each place, and what is known of the disk.  *)
(***************************************************************************)
Scanning == {"online", "capacity", "configured"}

Live(ps) == \A p \in Pools : pools[p] = IF p \in ps THEN "live" ELSE "null"

PoolsHeld ==
  /\ at = "built" => Live({})
  /\ at = "ctx" => Live({"sd_page"})
  /\ at = "page" => Live({"sd_page", "ctx"})
  /\ at \in {"register", "loaded"} \cup Scanning => Live(Pools)
  /\ at \in {"failed", "gone"} =>
       \A p \in Pools :
         /\ pools[p] # "freed_twice"
         /\ at = "failed" \/ "exit_sd" \in tree.destroyed => pools[p] # "live"

ScansHeld ==
  /\ at \in {"built", "ctx", "page", "register"} => scans = 0
  /\ at \in Scanning => scans < MaxScans
  /\ at \in {"capacity", "configured"} \/ scans > 0 => disk.flag

DiskHeld ==
  /\ at = "configured" => disk.lbpu = device.lbpu
  /\ recipe = "rebase" /\ at \in Scanning /\ scans > 0 => disk.capped

DriverInv ==
  /\ DriverTypeOK
  /\ at # "built" => Builds
  /\ PoolsHeld /\ ScansHeld /\ DiskHeld
  /\ DiscardRestricted /\ DepthCapped

(***************************************************************************)
(* No script runs on a tree whose driver is built, and nothing is left to  *)
(* do by hand.                                                             *)
(***************************************************************************)
LEMMA PortStops ==
  Builds => ~apply_patch /\ ~PortNext /\ ~rebase
BY PortAssumption DEF Builds, Declared, apply_patch, rebase, PortNext, apply_infra_by_hand, older_port_universal,
   apply_manual_hunks, port_to_68, port_universal, start_universal, Do, finish_universal

\* What the pieces are in the text of a driver that is built.
LEMMA Built ==
  ASSUME PortInv, Builds
  PROVE  /\ tree \in Text
         /\ tree.create = "label" /\ "labels" \in tree.destroyed
         /\ recipe = "rebase" => /\ "exit_sd" \in tree.destroyed
                                 /\ "revalidate" \in tree.depth /\ tree.late = {}
         /\ Ported => /\ tree.unmap = "lbpu_count" /\ tree.late # {}
                      /\ "late" \in tree.depth
         /\ recipe # "rebase" => Ported
<1>1. tree \in Text /\ pc = "done"
  BY DEF PortInv, Typed, PortTypeOK, Builds
<1>2. CASE recipe = "rebase"
  BY <1>1, <1>2 DEF PortInv, Rebased, Builds, Ported
<1>3. CASE recipe # "rebase"
  <2>1. Ported /\ runs > 0
    BY <1>1, <1>3 DEF Ported, PortInv, Staged
  <2>2. Marked(tree, gen, 12) /\ tree.create # "inline" /\ (tree.late # {} => "late" \in tree.depth)
    BY <1>1, <2>1 DEF PortInv, Progress, Held, Rank
  <2>3. tree.create # "no" /\ tree.unmap # "no" /\ tree.unmap # "lbpu" /\ tree.late # {}
    BY <2>2 DEF Marked, Builds, Declared
  <2> QED
    BY <1>1, <1>3, <2>1, <2>2, <2>3 DEF Builds, Text
<1> QED
  BY <1>2, <1>3

LEMMA DriverStarts ==
  Init => DriverInv
BY DriverAssumption DEF Init, DriverInit, DriverInv, DriverTypeOK, PoolsHeld, Live, ScansHeld,
   DiskHeld, DiscardRestricted, DepthCapped, Disk, Modes, Pointers, Scanning, Pools

(***************************************************************************)
(* A place of init_sd at which a pool is created or something fails.       *)
(***************************************************************************)
LEMMA StepHolds ==
  ASSUME PortInv, DriverInv, Builds, UNCHANGED <<tree, recipe, pc, port>>,
         NEW here \in {"built", "ctx", "page"}, NEW pool \in Pools, NEW next,
         step(here, pool, next),
         here = "built" => pool = "sd_page" /\ next = "ctx",
         here = "ctx" => pool = "ctx" /\ next = "page",
         here = "page" => pool = "page" /\ next = "register"
  PROVE  DriverInv'
<1>1. /\ at = here /\ at' = next /\ device' = device /\ disk' = disk /\ scans' = scans
      /\ pools' = [pools EXCEPT ![pool] = "live"]
      /\ tree' = tree /\ recipe' = recipe /\ pc' = pc /\ runs' = runs
  BY DEF step, port
<1>2. DriverTypeOK'
  BY <1>1 DEF DriverInv, DriverTypeOK, Pointers
<1>3. PoolsHeld'
  BY <1>1 DEF DriverInv, DriverTypeOK, PoolsHeld, Live, Pools, Scanning
<1>4. ScansHeld' /\ DiskHeld' /\ DiscardRestricted' /\ DepthCapped' /\ Builds'
  BY <1>1 DEF DriverInv, ScansHeld, DiskHeld, DiscardRestricted, DepthCapped, Scanning,
     Builds
<1> QED
  BY <1>2, <1>3, <1>4 DEF DriverInv

LEMMA FailHolds ==
  ASSUME PortInv, DriverInv, Builds, UNCHANGED <<tree, recipe, pc, port>>,
         NEW here, NEW label, fail(here, pools, label),
         \/ here = "built" /\ label = "err_out_class"
         \/ here = "ctx" /\ label = "err_out_528_ctx_pool"
         \/ here = "page" /\ label = "err_out_528_page_pool"
         \/ here = "register" /\ label = "err_out_driver"
  PROVE  DriverInv'
<1>1. /\ at = here /\ at' = "failed" /\ device' = device /\ disk' = disk /\ scans' = scans
      /\ pools' = destroy(Unwinds(label), pools)
      /\ tree' = tree /\ recipe' = recipe /\ pc' = pc /\ runs' = runs
  BY DEF fail, port
<1>2. \A p \in Pools : pools'[p] \in {"null", "freed"}
  <2>1. "labels" \in tree.destroyed
    BY Built
  <2> QED
    BY <1>1, <2>1 DEF destroy, Unwinds, Destroyed, Pools, DriverInv, PoolsHeld, Live
<1>3. pools' \in [Pools -> Pointers]
  BY <1>1, <1>2 DEF destroy, Pointers
<1>4. DriverTypeOK' /\ PoolsHeld'
  BY <1>1, <1>2, <1>3 DEF DriverInv, DriverTypeOK, PoolsHeld, Scanning
<1>5. ScansHeld' /\ DiskHeld' /\ DiscardRestricted' /\ DepthCapped' /\ Builds'
  BY <1>1 DEF DriverInv, ScansHeld, DiskHeld, DiscardRestricted, DepthCapped, Scanning,
     Builds
<1> QED
  BY <1>4, <1>5 DEF DriverInv

LEMMA InitHolds ==
  ASSUME PortInv, DriverInv, Builds, UNCHANGED <<tree, recipe, pc, port>>, init_sd
  PROVE  DriverInv'
<1>1. tree.create = "label"
  BY Built
<1> QED
  BY <1>1, StepHolds, FailHolds DEF init_sd, page_pool_fails, Pools

LEMMA LoadHolds ==
  ASSUME PortInv, DriverInv, Builds, UNCHANGED <<tree, recipe, pc, port>>,
         scsi_register_driver \/ exit_sd
  PROVE  DriverInv'
<1>1. /\ device' = device /\ disk' = disk /\ scans' = scans
      /\ tree' = tree /\ recipe' = recipe /\ pc' = pc /\ runs' = runs
  BY DEF scsi_register_driver, exit_sd, port
<1>2. CASE scsi_register_driver
  BY <1>1, <1>2 DEF scsi_register_driver, DriverInv, DriverTypeOK, PoolsHeld, Live, ScansHeld,
     DiskHeld, DiscardRestricted, DepthCapped, Scanning, Builds
<1>3. CASE exit_sd
  <2>1. at = "loaded" /\ at' = "gone" /\ Live(Pools)
    BY <1>3 DEF exit_sd, DriverInv, PoolsHeld
  <2>2. /\ \A p \in Pools : pools'[p] = "live" \/ pools'[p] = "freed"
        /\ "exit_sd" \in tree.destroyed => \A p \in Pools : pools'[p] = "freed"
    BY <1>3, <2>1 DEF exit_sd, destroy, Destroyed, Live, Pools
  <2> DEFINE ps == {"sd_page"} \cup (IF "exit_sd" \in tree.destroyed
                                      THEN {"page", "ctx"} ELSE {})
  <2> HIDE DEF ps
  <2>3. pools' = destroy(ps, pools)
    BY <1>3 DEF exit_sd, ps
  <2>4. \A p \in Pools : pools'[p] \in Pointers
    BY <2>2 DEF Pointers
  <2>5. pools' \in [Pools -> Pointers]
    BY <2>3, <2>4 DEF destroy
  <2>6. DriverTypeOK'
    BY <1>1, <2>1, <2>5 DEF DriverInv, DriverTypeOK
  <2>7. PoolsHeld'
    BY <1>1, <2>1, <2>2 DEF PoolsHeld, Scanning
  <2> QED
    BY <1>1, <2>1, <2>6, <2>7 DEF DriverInv, ScansHeld,
       DiskHeld, DiscardRestricted, DepthCapped, Scanning, Builds
<1> QED
  BY <1>2, <1>3

LEMMA ScanHolds ==
  ASSUME PortInv, DriverInv, Builds, UNCHANGED <<tree, recipe, pc, port>>,
         NEW here, NEW next, NEW d \in Disk, scan(here, next, d),
         scans' \in 0..MaxScans, scans' >= scans, scans' > 0 => scans' > scans \/ scans > 0,
         here \in {"loaded"} \cup Scanning, next \in {"loaded"} \cup Scanning,
         next \in Scanning => scans' = scans /\ scans < MaxScans,
         next = "configured" => d.lbpu = device.lbpu,
         next \in {"capacity", "configured"} \/ scans' > 0 => d.flag,
         recipe = "rebase" /\ next \in Scanning /\ scans > 0 => d.capped,
         next = "loaded" /\ scans' > (IF recipe = "rebase" THEN 1 ELSE 0) => d.capped,
         Ported /\ next = "loaded" /\ scans' > 0
           => d.mode = IF device.lbpu /\ device.count THEN "unmap" ELSE "disable"
  PROVE  DriverInv'
<1>1. /\ at' = next /\ device' = device /\ disk' = d /\ pools' = pools
      /\ tree' = tree /\ recipe' = recipe /\ pc' = pc /\ runs' = runs /\ at = here
  BY DEF scan, port
<1>2. at' \notin {"built", "ctx", "page", "register", "failed", "gone"}
  BY <1>1 DEF Scanning
<1>3. DriverTypeOK' /\ PoolsHeld'
  BY <1>1, <1>2 DEF DriverInv, DriverTypeOK, PoolsHeld, Scanning, Live
<1>4. ScansHeld' /\ DiskHeld'
  BY <1>1, <1>2 DEF DriverInv, ScansHeld, DiskHeld
<1>5. DiscardRestricted' /\ DepthCapped' /\ Builds'
  BY <1>1 DEF DiscardRestricted, DepthCapped, Builds, Ported
<1> QED
  BY <1>3, <1>4, <1>5 DEF DriverInv

LEMMA RevalidateHolds ==
  ASSUME PortInv, DriverInv, Builds, UNCHANGED <<tree, recipe, pc, port>>,
         \/ revalidate_online \/ sd_read_capacity \/ sd_read_block_provisioning
         \/ revalidated \/ sd_sync_cache
  PROVE  DriverInv'
<1>1. /\ disk \in Disk /\ device \in Device /\ scans \in 0..MaxScans /\ MaxScans \in Nat
  BY DriverAssumption DEF DriverInv, DriverTypeOK
<1> DEFINE depth_cap == sd_528_limit_queue_depth(disk)
<1>2. /\ depth_cap \in Disk /\ depth_cap.flag = disk.flag /\ depth_cap.lbpu = disk.lbpu
      /\ depth_cap.mode = disk.mode /\ (disk.flag \/ disk.capped => depth_cap.capped)
  BY <1>1 DEF sd_528_limit_queue_depth, Disk
<1>3. \A d \in Disk : /\ restricted(d) \in Disk /\ restricted(d).flag = d.flag
                     /\ restricted(d).capped = d.capped
  BY DEF restricted, sd_528_restrict_block_ops, sd_disable_advanced_block_ops, Disk, Modes
<1> HIDE DEF depth_cap
<1>4. CASE revalidate_online
  <2> DEFINE d == IF "revalidate" \in tree.depth THEN depth_cap ELSE disk
  <2>1. scan("loaded", "online", d) /\ scans' = scans /\ scans < MaxScans /\ at = "loaded"
    BY <1>4 DEF revalidate_online, scan, depth_cap
  <2>2. d \in Disk /\ d.flag = disk.flag /\ (disk.capped => d.capped)
    BY <1>1, <1>2
  <2>3. recipe = "rebase" /\ scans > 0 => disk.flag /\ d.capped
    BY <1>2, <2>1, Built DEF DriverInv, ScansHeld
  <2> HIDE DEF d
  <2> QED
    BY <1>1, <2>1, <2>2, <2>3, ScanHolds DEF Scanning, DriverInv, ScansHeld
<1>5. CASE sd_read_capacity
  <2> DEFINE adjusted == [disk EXCEPT !.flag = TRUE]
             d == IF tree.early THEN restricted(adjusted) ELSE adjusted
  <2>1. scan("online", "capacity", d) /\ scans' = scans /\ at = "online"
    BY <1>5 DEF sd_read_capacity, scan
  <2>2. adjusted \in Disk /\ adjusted.flag /\ adjusted.capped = disk.capped
    BY <1>1 DEF Disk
  <2>3. d \in Disk /\ d.flag /\ d.capped = disk.capped
    BY <1>3, <2>2
  <2>4. scans < MaxScans /\ (recipe = "rebase" /\ scans > 0 => disk.capped)
    BY <2>1 DEF DriverInv, ScansHeld, DiskHeld, Scanning
  <2> HIDE DEF d
  <2> QED
    BY <1>1, <2>1, <2>3, <2>4, ScanHolds DEF Scanning
<1>6. CASE sd_read_block_provisioning
  <2> DEFINE d == [disk EXCEPT !.lbpu = device.lbpu, !.mode = device.mode]
  <2>1. scan("capacity", "configured", d) /\ scans' = scans /\ at = "capacity"
    BY <1>6 DEF sd_read_block_provisioning, scan
  <2>2. /\ d \in Disk /\ d.flag = disk.flag /\ d.capped = disk.capped
        /\ d.lbpu = device.lbpu
    BY <1>1 DEF Disk, Device
  <2>3. /\ scans < MaxScans /\ (recipe = "rebase" /\ scans > 0 => disk.capped)
        /\ disk.flag
    BY <2>1 DEF DriverInv, ScansHeld, DiskHeld, Scanning
  <2>4. /\ d \in Disk /\ d.flag /\ d.lbpu = device.lbpu /\ scans < MaxScans
        /\ recipe = "rebase" /\ scans > 0 => d.capped
    BY <2>2, <2>3
  <2> HIDE DEF d
  <2> QED
    BY <1>1, <2>1, <2>4, ScanHolds DEF Scanning
<1>7. CASE revalidated
  <2> DEFINE late == late_block(disk)
             d == IF tree.late # {} THEN late ELSE disk
  <2>1. scan("configured", "loaded", d) /\ scans' = scans + 1 /\ at = "configured"
    BY <1>7 DEF revalidated, scan
  <2>2. /\ scans < MaxScans /\ disk.flag /\ disk.lbpu = device.lbpu
        /\ recipe = "rebase" /\ scans > 0 => disk.capped
    BY <2>1 DEF DriverInv, ScansHeld, DiskHeld, Scanning
  <2>3. CASE recipe = "rebase"
    <3>1. d = disk /\ ~Ported
      BY <2>3, Built DEF Ported
    <3> HIDE DEF d
    <3> QED
      BY <1>1, <2>1, <2>2, <2>3, <3>1, ScanHolds DEF Scanning
  <2>4. CASE recipe # "rebase"
    <3> DEFINE r == restricted(disk)
    <3>1. tree.unmap = "lbpu_count" /\ tree.late # {} /\ "late" \in tree.depth
      BY <2>4, Built
    <3>2. /\ r \in Disk /\ r.flag
          /\ r.mode = IF device.lbpu /\ device.count THEN "unmap" ELSE "disable"
      BY <1>1, <1>3, <2>2, <3>1 DEF restricted, sd_528_restrict_block_ops, Disk
    <3>3. d = sd_528_limit_queue_depth(r)
      BY <3>1 DEF late_block
    <3> HIDE DEF r
    <3>4. d \in Disk /\ d.flag /\ d.capped /\ d.mode = r.mode
      BY <3>2, <3>3 DEF sd_528_limit_queue_depth, Disk
    <3> HIDE DEF d
    <3> QED
      BY <1>1, <2>1, <2>2, <2>4, <3>2, <3>4, ScanHolds DEF Scanning
  <2> QED
    BY <2>3, <2>4
<1>8. CASE sd_sync_cache
  <2> DEFINE d == IF "sync_cache" \in tree.depth THEN depth_cap ELSE disk
  <2>1. scan("loaded", "loaded", d) /\ scans' = scans /\ at = "loaded"
    BY <1>8 DEF sd_sync_cache, scan, depth_cap
  <2>2. d \in Disk /\ d.flag = disk.flag /\ (disk.capped => d.capped) /\ d.mode = disk.mode
    BY <1>1, <1>2
  <2>3. /\ scans > 0 => disk.flag
        /\ scans > (IF recipe = "rebase" THEN 1 ELSE 0) => disk.capped
        /\ Ported /\ scans > 0
             => disk.mode = IF device.lbpu /\ device.count THEN "unmap" ELSE "disable"
    BY <2>1 DEF DriverInv, ScansHeld, DiscardRestricted, DepthCapped
  <2> HIDE DEF d
  <2> QED
    BY <1>1, <2>1, <2>2, <2>3, ScanHolds DEF Scanning
<1> QED
  BY <1>4, <1>5, <1>6, <1>7, <1>8

-----------------------------------------------------------------------------
(***************************************************************************)
(* The invariant of the ports and the drivers.                             *)
(***************************************************************************)
Inv == PortInv /\ DriverInv

LEMMA InvHolds ==
  Inv /\ [Next]_vars => Inv'
<1> SUFFICES ASSUME Inv, [Next]_vars PROVE Inv'
  OBVIOUS
<1>1. ASSUME ~Builds, UNCHANGED driver PROVE DriverInv'
  BY <1>1 DEF Inv, DriverInv, driver, DriverTypeOK, PoolsHeld, Live, ScansHeld, DiskHeld,
     DiscardRestricted, DepthCapped, Scanning
<1>2. ASSUME UNCHANGED <<tree, recipe, pc, port>> PROVE PortInv'
  BY <1>2 DEF Inv, port, PortInv, Typed, PortTypeOK, Staged, Progress, Marked, Held,
     Rebased, Ported
<1>3. CASE apply_patch /\ UNCHANGED <<port, driver>>
  BY <1>1, <1>3, PortStops, PatchKeeps DEF Inv
<1>4. CASE PortNext /\ UNCHANGED driver
  BY <1>1, <1>4, PortStops, PortKeeps DEF Inv
<1>5. CASE rebase /\ UNCHANGED <<port, driver>>
  BY <1>1, <1>5, PortStops, RebaseKeeps DEF Inv
<1>6. CASE Builds /\ DriverNext /\ UNCHANGED <<tree, recipe, pc, port>>
  BY <1>2, <1>6, InitHolds, LoadHolds, RevalidateHolds DEF Inv, DriverNext
<1>7. CASE UNCHANGED vars
  <2>1. UNCHANGED <<tree, recipe, pc, port>> /\ UNCHANGED driver
    BY <1>7 DEF vars
  <2> QED
    BY <1>2, <2>1 DEF Inv, DriverInv, driver, DriverTypeOK, PoolsHeld, Live, ScansHeld,
       DiskHeld, DiscardRestricted, DepthCapped, Scanning, Builds, Declared, Ported, port
<1> QED
  BY <1>3, <1>4, <1>5, <1>6, <1>7 DEF Next

(***************************************************************************)
(* The invariant of the ports and of the driver holds in every run.        *)
(***************************************************************************)
THEOREM Invariant == Spec => []Inv
<1>1. Init => Inv
  BY PortStarts, DriverStarts DEF Inv
<1> QED
  BY <1>1, InvHolds, PTL DEF Spec

-----------------------------------------------------------------------------
(***************************************************************************)
(* sd.c stays a text the scripts know, whatever landed and however often   *)
(* port_universal.py is run, and the driver stays in its states.           *)
(***************************************************************************)
THEOREM Types == Spec => []TypeOK
<1>1. Inv => TypeOK
  BY DEF Inv, PortInv, Typed, DriverInv, TypeOK
<1> QED
  BY <1>1, Invariant, PTL

(***************************************************************************)
(* A second run of port_universal.py, and every later one, changes nothing *)
(* unless hunk 1 is applied by hand in between: a run leaves what each of  *)
(* its steps looks for, also in a text that hunk 1 is not in.              *)
(***************************************************************************)
THEOREM RunsTwice == Spec => []Idempotent
<1>1. Inv => Idempotent
  BY DEF Inv, PortInv, Staged, Progress, Idempotent
<1> QED
  BY <1>1, Invariant, PTL

(***************************************************************************)
(* The pools of every driver that is built are destroyed at most once, and *)
(* none is left behind where init_sd fails or exit_sd destroys them.       *)
(***************************************************************************)
THEOREM Released == Spec => []PoolsReleased
<1>1. ASSUME Inv PROVE PoolsReleased
  <2>1. at # "built" => Builds
    BY <1>1 DEF Inv, DriverInv
  <2>2. at # "built" /\ recipe = "rebase" => "exit_sd" \in tree.destroyed
    BY <1>1, <2>1, Built DEF Inv
  <2>3. PoolsHeld /\ at \in {"built", "ctx", "page", "register", "loaded", "failed",
                           "gone"} \cup Scanning
    BY <1>1 DEF Inv, DriverInv, DriverTypeOK, Scanning
  <2> QED
    BY <2>2, <2>3 DEF PoolsReleased, PoolsHeld, Live, Scanning
<1> QED
  BY <1>1, Invariant, PTL

(***************************************************************************)
(* No ported driver discards with WRITE SAME after a revalidation, and     *)
(* none gives up UNMAP where the disk takes it.                            *)
(***************************************************************************)
THEOREM Restricts == Spec => []DiscardRestricted
<1>1. Inv => DiscardRestricted
  BY DEF Inv, DriverInv
<1> QED
  BY <1>1, Invariant, PTL

(***************************************************************************)
(* Every driver caps the queue depth of an emulated disk: a ported one in  *)
(* the first revalidation, a rebased one in the second.                    *)
(***************************************************************************)
THEOREM Caps == Spec => []DepthCapped
<1>1. Inv => DepthCapped
  BY DEF Inv, DriverInv
<1> QED
  BY <1>1, Invariant, PTL

-----------------------------------------------------------------------------
(***************************************************************************)
(* The trees that have their recipe: port_universal.py by itself for 7.0,  *)
(* the scripts for 6.8 before it.  The other recipes give no driver that   *)
(* fits its kernel.  (On 6.11 to 6.14, and on 6.8 without those scripts,   *)
(* detect takes the argument that hunk 1 brings for that of the kernel.)   *)
(***************************************************************************)
Recommended ==
  \A t \in Trees : /\ t[2] = "universal" => t[1].gen = "ptr"
                   /\ t[2] = "manual" => t[1].gen = "none"

\* The form that the kernel of a text passes limits in, and what is of it.
OneForm(t) == IF t.kernel.gen = "none" THEN "plain" ELSE "lim"

FitsButName(t) ==
  /\ t.cap \in {"no", t.kernel.gen}
  /\ t.proto \in {"no", OneForm(t)} /\ t.late \subseteq {OneForm(t)}

Fits(t) == FitsButName(t) /\ t.fn \in {"no", OneForm(t)}

\* Hunk 1 brings the form of 7.0, which port_to_68.py rewrites.
Fitting ==
  /\ recipe = "universal" => tree.kernel.gen = "ptr" /\ Fits(tree)
  /\ recipe = "manual" =>
       /\ tree.kernel.gen = "none" /\ FitsButName(tree)
       /\ pc \notin {"stock", "patched", "manual"} => Fits(tree)

\* A text of one form is detected as what it is, and an edit keeps it so.
LEMMA EditsFit ==
  ASSUME NEW t \in Text, Fits(t), t.kernel.gen \in {"none", "ptr"},
         NEW g, g = detect(t)
  PROVE  /\ g = t.kernel.gen
         /\ t.kernel.gen = "ptr" =>
              with_hunk_1(t).kernel = t.kernel /\ Fits(with_hunk_1(t))
         /\ \A e \in {queue_depth_call(t), max_dev_sectors_cap(t, g),
                      pool_create(t), pool_destroy(t), discard_prototype(t, g),
                      trim_restriction(t, g), unmap_condition(t),
                      late_call_block(t, g), double_free(t), pool_parameters(t),
                      pool_clamp(t)} :
              e.kernel = t.kernel /\ Fits(e)
<1> USE Fields DEF Fits, FitsButName, OneForm
<1>1. g = t.kernel.gen
  BY DEF detect, HasArrow, HasDot
<1>2. t.kernel.gen = "ptr" =>
        with_hunk_1(t).kernel = t.kernel /\ Fits(with_hunk_1(t))
  BY DEF with_hunk_1, Hunk1
<1>3. queue_depth_call(t).kernel = t.kernel /\ Fits(queue_depth_call(t))
  BY DEF queue_depth_call
<1>4. max_dev_sectors_cap(t, g).kernel = t.kernel /\ Fits(max_dev_sectors_cap(t, g))
  BY <1>1 DEF max_dev_sectors_cap
<1>5. pool_create(t).kernel = t.kernel /\ Fits(pool_create(t))
  BY DEF pool_create
<1>6. pool_destroy(t).kernel = t.kernel /\ Fits(pool_destroy(t))
  BY DEF pool_destroy
<1>7. discard_prototype(t, g).kernel = t.kernel /\ Fits(discard_prototype(t, g))
  BY <1>1 DEF discard_prototype
<1>8. trim_restriction(t, g).kernel = t.kernel /\ Fits(trim_restriction(t, g))
  BY <1>1 DEF trim_restriction
<1>9. unmap_condition(t).kernel = t.kernel /\ Fits(unmap_condition(t))
  BY DEF unmap_condition
<1>10. late_call_block(t, g).kernel = t.kernel /\ Fits(late_call_block(t, g))
  BY <1>1 DEF late_call_block
<1>11. double_free(t).kernel = t.kernel /\ Fits(double_free(t))
  BY DEF double_free
<1>12. pool_parameters(t).kernel = t.kernel /\ Fits(pool_parameters(t))
  BY DEF pool_parameters
<1>13. pool_clamp(t).kernel = t.kernel /\ Fits(pool_clamp(t))
  BY DEF pool_clamp
<1> HIDE Fields DEF Fits, FitsButName, OneForm
<1> QED
  BY <1>1, <1>2, <1>3, <1>4, <1>5, <1>6, <1>7, <1>8, <1>9, <1>10, <1>11, <1>12, <1>13

LEMMA FittingStarts ==
  ASSUME Recommended, Init
  PROVE  Fitting
<1>1. PICK t \in Trees : tree = Stock(t[1]) /\ recipe = t[2]
  BY DEF Init
<1>2. /\ recipe = "universal" => t[1].gen = "ptr"
      /\ recipe = "manual" => t[1].gen = "none"
  BY <1>1 DEF Recommended
<1>3. tree.kernel = t[1] /\ Fits(tree)
  BY <1>1 DEF Stock, Fits, FitsButName
<1> QED
  BY <1>2, <1>3 DEF Fitting, Fits

LEMMA LandedFits ==
  PortInv /\ Fitting /\ apply_patch => Fitting'
<1> SUFFICES ASSUME PortInv, Fitting, apply_patch PROVE Fitting'
  OBVIOUS
<1>1. /\ tree = Stock(tree.kernel) /\ recipe' = recipe /\ pc' = "patched"
      /\ tree \in Text
  BY DEF apply_patch, PortInv, Held, Typed, PortTypeOK
<1>2. PICK H \in SUBSET (Hunks \ Rejected(tree.kernel)) : tree' = Landed(tree, H)
  BY DEF apply_patch
<1>3. tree.kernel.gen = "none" => "cap" \notin H
  BY <1>2 DEF Rejected
<1>4. tree.proto = "no" /\ tree.late = {}
  BY <1>1 DEF Stock
<1>5. /\ tree'.kernel = tree.kernel /\ tree'.proto = "no" /\ tree'.late = {}
      /\ tree'.cap = (IF "cap" \in H THEN "ptr" ELSE "no")
      /\ tree'.fn \in {"no", "lim"}
  BY <1>1, <1>2, <1>4, Fields DEF Landed
<1> QED
  BY <1>1, <1>3, <1>5 DEF Fitting, Fits, FitsButName, OneForm

LEMMA PortFits ==
  PortInv /\ Fitting /\ PortNext => Fitting'
<1> SUFFICES ASSUME PortInv, Fitting, PortNext PROVE Fitting'
  OBVIOUS
<1>t. tree \in Text /\ recipe \in {"universal", "manual", "rebase"}
  BY DEF PortInv, Typed, PortTypeOK
<1>1. CASE apply_infra_by_hand
  <2>1. recipe = "universal" /\ recipe' = recipe /\ tree' = with_hunk_1(tree)
    BY <1>1 DEF apply_infra_by_hand
  <2>2. tree'.kernel = tree.kernel /\ Fits(tree')
    BY <1>t, <2>1, EditsFit DEF Fitting
  <2> QED
    BY <2>1, <2>2 DEF Fitting, Fits, FitsButName, OneForm
<1>2. CASE older_port_universal
  <2> DEFINE t == trim_restriction(tree, detect(tree))
  <2>1. /\ recipe = "universal" /\ recipe' = recipe
        /\ tree' = [t EXCEPT !.unmap = "lbpu"]
    BY <1>2 DEF older_port_universal
  <2>2. t.kernel = tree.kernel /\ Fits(t)
    BY <1>t, <2>1, EditsFit DEF Fitting
  <2>3. t \in Text
    <3>1. detect(tree) \in Generations
      BY DEF detect, Generations
    <3> QED
      BY <1>t, <3>1, EditsTyped
  <2> HIDE DEF t
  <2>4. /\ tree'.kernel = t.kernel /\ tree'.cap = t.cap /\ tree'.proto = t.proto
        /\ tree'.late = t.late /\ tree'.fn = t.fn
    BY <2>1, <2>3, Fields
  <2> QED
    BY <2>1, <2>2, <2>4 DEF Fitting, Fits, FitsButName, OneForm
<1>3. CASE apply_manual_hunks
  <2> DEFINE t == with_hunk_1(tree)
             u == with_hunk_9(t)
             v == with_hunk_10(u)
  <2>1. t \in Text /\ u \in Text
    BY <1>t, EditsTyped DEF Generations
  <2>2. /\ t.fn # "no" /\ t.kernel = tree.kernel /\ t.cap = tree.cap
        /\ t.proto = tree.proto /\ t.late = tree.late
    BY <1>t, Fields DEF with_hunk_1, Hunk1
  <2>3. /\ u.fn # "no" /\ u.kernel = tree.kernel /\ u.cap = tree.cap
        /\ u.proto = tree.proto /\ u.late = tree.late
    BY <2>1, <2>2, Fields DEF with_hunk_9
  <2>4. v = u
    BY <2>3 DEF with_hunk_10, Hunk1
  <2>5. tree' = u /\ recipe' = recipe /\ pc' = "manual" /\ recipe = "manual"
    BY <1>3, <2>4 DEF apply_manual_hunks
  <2> HIDE DEF u
  <2> QED
    BY <2>3, <2>5 DEF Fitting, FitsButName, OneForm
<1>4. CASE port_to_68
  <2>1. recipe = "manual" /\ recipe' = recipe /\ tree.kernel.gen = "none" /\ FitsButName(tree)
    BY <1>4 DEF port_to_68, PortInv, Staged, Fitting
  <2>2. tree' = [tree EXCEPT !.fn = "plain", !.cap = "none"]
    BY <1>4, <1>t, <2>1, Fields DEF port_to_68, FitsButName
  <2>3. /\ tree'.kernel = tree.kernel /\ tree'.cap = "none" /\ tree'.fn = "plain"
        /\ tree'.proto = tree.proto /\ tree'.late = tree.late
    BY <1>t, <2>2, Fields
  <2> QED
    BY <2>1, <2>3 DEF Fitting, Fits, FitsButName, OneForm
<1>5. CASE start_universal
  BY <1>5 DEF start_universal, Fitting, Fits, FitsButName, OneForm, PortInv, Staged, Ported
<1>6. CASE finish_universal
  BY <1>6 DEF finish_universal, Fitting, Fits, FitsButName, OneForm
<1>7. CASE port_universal /\ ~start_universal /\ ~finish_universal
  <2>1. Rank(pc) > 0 /\ pc \in Steps
    BY <1>7 DEF port_universal, Do, Rank, Steps
  <2>2. /\ recipe \in {"universal", "manual"} /\ gen = detect(tree)
        /\ pc \notin {"stock", "patched", "manual"}
    BY <1>t, <2>1 DEF PortInv, Staged, Held, Rank
  <2>3. Fits(tree) /\ tree.kernel.gen \in {"none", "ptr"}
    BY <2>2 DEF Fitting
  <2>4. /\ recipe' = recipe
        /\ tree' \in {queue_depth_call(tree), max_dev_sectors_cap(tree, gen),
                      pool_create(tree), pool_destroy(tree), discard_prototype(tree, gen),
                      trim_restriction(tree, gen), unmap_condition(tree),
                      late_call_block(tree, gen), double_free(tree),
                      pool_parameters(tree), pool_clamp(tree)}
    BY <1>7 DEF port_universal, Do
  <2>5. tree'.kernel = tree.kernel /\ Fits(tree')
    BY <1>t, <2>2, <2>3, <2>4, EditsFit
  <2> QED
    BY <2>2, <2>4, <2>5 DEF Fitting, Fits, FitsButName, OneForm
<1> QED
  BY <1>1, <1>2, <1>3, <1>4, <1>5, <1>6, <1>7 DEF PortNext, port_universal

(***************************************************************************)
(* A tree that was ported by its recipe, and whose text declares what it   *)
(* names, has the cap of its generation, and the restriction, its call and *)
(* the prototype in the one form that its kernel compiles, whichever hunks *)
(* landed, whatever was done by hand and however often port_universal.py   *)
(* is run.  (A text that does not, because the script was run without      *)
(* hunk 1, does not build.)                                                *)
(***************************************************************************)
THEOREM FitsItsKernel ==
  ASSUME Recommended
  PROVE  Spec => []GenerationFits
<1>1. Init => Fitting
  BY FittingStarts
<1>2. Inv /\ Fitting /\ [Next]_vars => Fitting'
  <2> SUFFICES ASSUME Inv, Fitting, [Next]_vars PROVE Fitting'
    OBVIOUS
  <2>1. CASE apply_patch \/ PortNext
    BY <2>1, LandedFits, PortFits DEF Inv
  <2>2. CASE rebase
    BY <2>2 DEF rebase, Fitting
  <2>3. CASE UNCHANGED <<tree, recipe, pc, port>>
    BY <2>3 DEF Fitting, Fits, FitsButName, OneForm
  <2> QED
    BY <2>1, <2>2, <2>3 DEF Next, vars
<1>3. Inv /\ Fitting => GenerationFits
  <2> SUFFICES ASSUME Inv, Fitting, Ported, Declared(tree)
               PROVE  /\ tree.cap = tree.kernel.gen
                      /\ tree.fn = OneForm(tree) /\ tree.proto = OneForm(tree)
                      /\ tree.late = {OneForm(tree)}
    BY DEF GenerationFits, OneForm
  <2>1. /\ runs > 0 /\ recipe \in {"universal", "manual"} /\ pc = "done" /\ tree \in Text
        /\ Marked(tree, gen, 12) /\ gen = detect(tree)
    BY DEF Inv, PortInv, Typed, PortTypeOK, Staged, Progress, Held, Ported
  <2>2. Fits(tree) /\ tree.kernel.gen \in {"none", "ptr"}
    BY <2>1 DEF Fitting
  <2>3. gen = tree.kernel.gen
    BY <2>1, <2>2, EditsFit
  <2>4. Form(gen) = OneForm(tree)
    BY <2>2, <2>3 DEF Form, OneForm
  <2>5. /\ tree.cap # "no" /\ tree.proto # "no" /\ Form(gen) \in tree.late /\ tree.fn # "no"
    BY <2>1, <2>3 DEF Marked, Declared, Hunk1
  <2> QED
    BY <2>2, <2>4, <2>5 DEF Fits, FitsButName
<1> QED
  BY <1>1, <1>2, <1>3, Invariant, PTL DEF Spec
=============================================================================
