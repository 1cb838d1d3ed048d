--------------------------- MODULE MCSdEmulation ---------------------------
(***************************************************************************)
(* Instances of SdEmulation for TLC.  A host sector is two units long and  *)
(* a device sector three, so that a transfer one device sector short of    *)
(* three is as long as three host sectors; a chunk holds two device        *)
(* sectors and an unused rest, so that a request of three sectors needs a  *)
(* full chunk and a partial one.                                           *)
(***************************************************************************)
EXTENDS SdEmulation, TLC

CONSTANTS d1, d2, r1, r2, r3, c1, c2, c3

Shape(o, d, b, n) == [op |-> o, disk |-> d, lba |-> b, len |-> n]

MCBlocks == 0..3
OneDisk == {d1}
TwoDisks == {d1, d2}
OneRequest == {r1}
TwoRequests == {r1, r2}
ThreeRequests == {r1, r2, r3}
OneChunk == {c1}
ThreeChunks == {c1, c2, c3}
Symmetry == Permutations(Chunks) \cup Permutations(Requests)

\* Overlapping reads and writes of one disk, of one, two and three sectors,
\* and one that is longer than the emulation serves.
Overlapping == {Shape("read", d1, 0, 3), Shape("write", d1, 0, 3),
                Shape("write", d1, 1, 2), Shape("read", d1, 2, 1),
                Shape("write", d1, 0, 4)}

\* Two disks, and requests that need one chunk each.
SmallOnTwoDisks == {Shape("read", d1, 0, 1), Shape("write", d2, 0, 2)}

LongAndShort == {Shape("read", d1, 0, 3), Shape("write", d1, 1, 1)}

LongRead == {Shape("read", d1, 0, 3)}
LongWrite == {Shape("write", d1, 0, 3)}
=============================================================================
