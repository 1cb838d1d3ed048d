----------------------------- MODULE MCNbdShim -----------------------------
(***************************************************************************)
(* Instances of NbdShim for TLC: three sectors of two bytes of payload,    *)
(* and commands of at most two sectors, so that a request of three sectors *)
(* takes two commands.                                                     *)
(***************************************************************************)
EXTENDS NbdShim, TLC

CONSTANTS r1, r2, r3

Shape(o, k, n) == [op |-> o, offset |-> k, count |-> n]

ThreeRequests == {r1, r2, r3}
Symmetry == Permutations(Requests)

\* Requests of whole sectors and at odd offsets, which overlap.
Mixed == {Shape("pwrite", 0, 6), Shape("pwrite", 1, 4), Shape("pwrite", 4, 2),
          Shape("pread", 1, 4), Shape("flush", 0, 0)}

AmpleOrNot == {12, 3}
TwoBlocks == {6}
Emulable == {3}
=============================================================================
