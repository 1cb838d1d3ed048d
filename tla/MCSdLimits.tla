---------------------------- MODULE MCSdLimits ----------------------------
(***************************************************************************)
(* Instances of SdLimits for TLC: one 528-byte disk with a segment limit   *)
(* that binds, one without a segment limit, one 520-byte disk, and a       *)
(* geometry in which a chunk holds two sectors and a request of maximal    *)
(* size needs four chunks.                                                 *)
(***************************************************************************)
EXTENDS SdLimits, TLC

CONSTANTS d1, d2, d3

MCDisks == {d1, d2, d3}
MCSectorSize == (d1 :> 528) @@ (d2 :> 528) @@ (d3 :> 520)
MCMaxSegments == (d1 :> 3) @@ (d2 :> 0) @@ (d3 :> 0)
=============================================================================
