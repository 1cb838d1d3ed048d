---------------------------- MODULE MCPatchPort ----------------------------
(***************************************************************************)
(* Instances of PortedDriver for TLC.                                      *)
(***************************************************************************)
EXTENDS PortedDriver

Kernel70 == [gen |-> "ptr", guard |-> "enodev", register |-> "plain"]
KernelPve == [gen |-> "ptr", guard |-> "goto", register |-> "gendrv"]
KernelPveNew == [gen |-> "ptr", guard |-> "return", register |-> "plain"]
Kernel68 == [gen |-> "none", guard |-> "goto", register |-> "gendrv"]

\* Every recipe, on the kernels it is for; the rebase of a kernel whose
\* sd_revalidate_disk leaves with -ENODEV stops.
PortedTrees ==
  ({Kernel70, KernelPve} \X {"universal"})
    \cup ({KernelPve, KernelPveNew, Kernel70} \X {"rebase"})
    \cup {<<Kernel68, "manual">>}

\* A 6.8 tree and the recipe of port_universal.py alone.
Only68 == {<<Kernel68, "universal">>}
=============================================================================
