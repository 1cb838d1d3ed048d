------------------------------- MODULE SgPack -------------------------------
(***************************************************************************)
(* The byte walks of wvg-sd-528.patch: sd_528_pack_sg_blocks lays the      *)
(* payload of a write out in the bounce chunks with a zeroed trailer after *)
(* each sector, and sd_528_unpack_sg_bytes takes the payload of a read out *)
(* of them.  Both walk two scatterlists that are cut at different places.  *)
(*                                                                         *)
(* A buffer is a function of its linear address; the host's scatterlist is *)
(* the set of addresses it is cut at, and the bounce list follows from the *)
(* length of the request.  A step is one memcpy, one memset, or one move   *)
(* to the next piece of either list.                                       *)
(***************************************************************************)
EXTENDS SdGeometry

CONSTANT HostBytes  \* bound: the longest scatterlist of a host

ASSUME PackAssumption == HostBytes \in Nat

VARIABLES
  dir,      \* "pack" or "unpack"
  blocks,   \* the sectors of the request
  hostLen,  \* host_len, how many bytes of payload are to move
  cuts,     \* where the pieces of the host's scatterlist end
  pc,
  pieceEnd, \* where the piece that miter stands on ends
  hostPos,  \* host_pos
  sg,       \* bounce_sg, Entries + 1 for NULL
  off,      \* bounce_off
  len,      \* the length of the current run of payload
  left,     \* remaining, or bytes in the helpers for the trailer
  host,     \* the bytes of the host's buffer
  bounce    \* the bytes of the bounce chunks

request == <<dir, blocks, hostLen, cuts>>
vars == <<dir, blocks, hostLen, cuts, pc, pieceEnd, hostPos, sg, off, len,
          left, host, bounce>>

HostAddresses == 0..(HostBytes - 1)
DevAddresses == 0..(MaxHostSectors * DevSectorSize - 1)

\* A byte is the address it came from, or one of these.
Zero == -1
Foreign == -2
Byte == Nat \cup {Zero, Foreign}

Used == BlocksPerChunk * DevSectorSize    \* SD_528_CHUNK_USED_BYTES
Trailer == DevSectorSize - HostSectorSize \* SD_528_TRAILER_BYTES
devLen == blocks * DevSectorSize

\* What sd_528_alloc_emulation_buffer made: full chunks and a shorter last.
Entries == blocks_to_chunks(blocks)
Length(s) == Lesser(Used, devLen - (s - 1) * Used)

\* The linear address that bounce_sg and bounce_off stand for.
Cursor == IF sg <= Entries THEN (sg - 1) * Used + off ELSE devLen

block_off == hostPos % HostSectorSize

\* Unpacking is asked for whole sectors, of which there may be fewer than the
\* request has; the scatterlist of the host may be shorter or longer.
Init ==
  /\ dir \in {"pack", "unpack"}
  /\ blocks \in 1..MaxHostSectors
  /\ \E n \in 0..blocks :
       /\ dir = "pack" => n = blocks
       /\ hostLen = n * HostSectorSize
  /\ cuts \in SUBSET (1..HostBytes)
  /\ pc = "piece"
  /\ pieceEnd = 0
  /\ hostPos = 0
  /\ sg = 1 /\ off = 0
  /\ len = 0 /\ left = 0
  /\ host = [k \in HostAddresses |-> IF dir = "pack" THEN k ELSE Foreign]
  /\ bounce = [a \in DevAddresses |-> IF dir = "unpack" THEN a ELSE Foreign]

-----------------------------------------------------------------------------
\* Bug: a piece that is used up is offered again.
next_piece_again ==
  /\ pc = "piece" /\ hostPos < hostLen
  /\ \E e \in cuts :
       /\ e >= hostPos /\ \A f \in cuts : f >= hostPos => e <= f
       /\ pieceEnd' = e
  /\ pc' = "span"
  /\ UNCHANGED <<request, hostPos, sg, off, len, left, host, bounce>>

\* sg_miter_next.
next_piece ==
  /\ pc = "piece" /\ hostPos < hostLen
  /\ \E e \in cuts :
       /\ e > hostPos /\ \A f \in cuts : f > hostPos => e <= f
       /\ pieceEnd' = e
  /\ pc' = "span"
  /\ UNCHANGED <<request, hostPos, sg, off, len, left, host, bounce>>

\* Bug: a host buffer that is too short is not noticed.
walk_ends_ok ==
  /\ pc = "piece"
  /\ hostPos >= hostLen \/ \A e \in cuts : e <= hostPos
  /\ pc' = "ok"
  /\ UNCHANGED <<request, pieceEnd, hostPos, sg, off, len, left, host, bounce>>

walk_ends ==
  /\ pc = "piece"
  /\ hostPos >= hostLen \/ \A e \in cuts : e <= hostPos
  /\ pc' = IF hostPos = hostLen THEN "ok" ELSE "eio"
  /\ UNCHANGED <<request, pieceEnd, hostPos, sg, off, len, left, host, bounce>>

\* Bug: a run may go on into the next sector.
span_length_across_sectors == Lesser(hostLen - hostPos, pieceEnd - hostPos)

\* Up to the end of the payload, of the piece and of the sector.
span_length ==
  Lesser(hostLen - hostPos,
         Lesser(pieceEnd - hostPos, HostSectorSize - block_off))

next_span ==
  /\ pc = "span"
  /\ hostPos < pieceEnd /\ hostPos < hostLen
  /\ len' = span_length
  /\ left' = span_length
  /\ pc' = "copy"
  /\ UNCHANGED <<request, pieceEnd, hostPos, sg, off, host, bounce>>

piece_over ==
  /\ pc = "span"
  /\ hostPos >= pieceEnd \/ hostPos >= hostLen
  /\ pc' = "piece"
  /\ UNCHANGED <<request, pieceEnd, hostPos, sg, off, len, left, host, bounce>>

-----------------------------------------------------------------------------
(***************************************************************************)
(* Moving bytes, and skipping trailers, one entry of the bounce list at a  *)
(* time.  The three loops of the code begin in the same way.               *)
(***************************************************************************)
Moving == pc \in {"copy", "trailer"} /\ left > 0

InEntry == sg <= Entries /\ off # Length(sg)

\* There is no further entry, -EIO, or it is the next.
next_entry ==
  /\ Moving /\ ~InEntry
  /\ IF sg > Entries
       THEN pc' = "eio" /\ UNCHANGED <<sg, off>>
       ELSE sg' = sg + 1 /\ off' = 0 /\ UNCHANGED pc
  /\ UNCHANGED <<request, pieceEnd, hostPos, len, left, host, bounce>>

Chunk == Lesser(left, Length(sg) - off)
Here == hostPos + len - left             \* buf

memcpy ==
  /\ pc = "copy" /\ left > 0 /\ InEntry
  /\ IF dir = "pack"
       THEN /\ bounce' = [a \in DevAddresses |->
                 IF a \in Cursor..(Cursor + Chunk - 1)
                   THEN host[Here + (a - Cursor)] ELSE bounce[a]]
            /\ UNCHANGED host
       ELSE /\ host' = [k \in HostAddresses |->
                 IF k \in Here..(Here + Chunk - 1)
                   THEN bounce[Cursor + (k - Here)] ELSE host[k]]
            /\ UNCHANGED bounce
  /\ left' = left - Chunk
  /\ off' = off + Chunk
  /\ UNCHANGED <<request, pc, pieceEnd, hostPos, sg, len>>

\* A trailer follows the run that ends a sector.
span_over ==
  /\ pc = "copy" /\ left = 0
  /\ hostPos' = hostPos + len
  /\ IF block_off + len = HostSectorSize
       THEN pc' = "trailer" /\ left' = Trailer
       ELSE pc' = "span" /\ UNCHANGED left
  /\ UNCHANGED <<request, pieceEnd, sg, off, len, host, bounce>>

\* Bug: the trailers are skipped only.
zero_sg_bytes_skips ==
  /\ pc = "trailer" /\ left > 0 /\ InEntry
  /\ dir = "pack"
  /\ left' = left - Chunk
  /\ off' = off + Chunk
  /\ UNCHANGED <<request, pc, pieceEnd, hostPos, sg, len, host, bounce>>

zero_sg_bytes ==
  /\ pc = "trailer" /\ left > 0 /\ InEntry
  /\ dir = "pack"
  /\ bounce' = [a \in DevAddresses |->
       IF a \in Cursor..(Cursor + Chunk - 1) THEN Zero ELSE bounce[a]]
  /\ left' = left - Chunk
  /\ off' = off + Chunk
  /\ UNCHANGED <<request, pc, pieceEnd, hostPos, sg, len, host>>

\* Bug: an entry that ends with the trailer is left with its offset kept.
advance_sg_keeps_offset ==
  /\ pc = "trailer" /\ left > 0 /\ InEntry
  /\ dir = "unpack"
  /\ left' = left - Chunk
  /\ IF left < Length(sg) - off
       THEN off' = off + left /\ UNCHANGED sg
       ELSE sg' = sg + 1 /\ UNCHANGED off
  /\ UNCHANGED <<request, pc, pieceEnd, hostPos, len, host, bounce>>

\* An entry that ends with the trailer is left at once.
advance_sg ==
  /\ pc = "trailer" /\ left > 0 /\ InEntry
  /\ dir = "unpack"
  /\ left' = left - Chunk
  /\ IF left < Length(sg) - off
       THEN off' = off + left /\ UNCHANGED sg
       ELSE sg' = sg + 1 /\ off' = 0
  /\ UNCHANGED <<request, pc, pieceEnd, hostPos, len, host, bounce>>

trailer_over ==
  /\ pc = "trailer" /\ left = 0
  /\ pc' = "span"
  /\ UNCHANGED <<request, pieceEnd, hostPos, sg, off, len, left, host, bounce>>

returned == pc \in {"ok", "eio"} /\ UNCHANGED vars

Next ==
  \/ next_piece \/ walk_ends \/ next_span \/ piece_over
  \/ next_entry \/ memcpy \/ span_over
  \/ zero_sg_bytes \/ advance_sg \/ trailer_over
  \/ returned

Spec == Init /\ [][Next]_vars

\* A function runs until it returns.
FairSpec == Spec /\ WF_vars(Next)
-----------------------------------------------------------------------------
\* No unsigned difference of the code is negative: a run is within its piece
\* and its sector, and bounce_off within its entry.
TypeOK ==
  /\ dir \in {"pack", "unpack"}
  /\ blocks \in 1..MaxHostSectors
  /\ hostLen \in 0..(blocks * HostSectorSize)
  /\ cuts \subseteq 1..HostBytes
  /\ pc \in {"piece", "span", "copy", "trailer", "ok", "eio"}
  /\ hostPos \in 0..hostLen
  /\ pieceEnd \in cuts \cup {0}
  /\ sg \in 1..(Entries + 1)
  /\ off \in 0..(IF sg <= Entries THEN Length(sg) ELSE 0)
  /\ len \in 0..HostSectorSize
  /\ left \in 0..Greater(len, Trailer)
  /\ pc = "copy" => /\ left <= len /\ hostPos + len <= Lesser(pieceEnd, hostLen)
  /\ host \in [HostAddresses -> Byte]
  /\ bounce \in [DevAddresses -> Byte]

\* Where a byte of payload is among the device sectors.
Place(k) == (k \div HostSectorSize) * DevSectorSize + (k % HostSectorSize)

(***************************************************************************)
(* A write that was packed has each byte of payload at its place in its    *)
(* device sector, a zero at every byte of every trailer, and nothing       *)
(* beyond the sectors of the request, however the two lists are cut.       *)
(***************************************************************************)
PackedInPlace ==
  (dir = "pack" /\ pc = "ok") =>
    /\ \A k \in 0..(hostLen - 1) : bounce[Place(k)] = k
    /\ \A a \in DevAddresses :
         /\ a < devLen /\ a % DevSectorSize >= HostSectorSize => bounce[a] = Zero
         /\ a >= devLen => bounce[a] = Foreign

(***************************************************************************)
(* A read that was unpacked has each byte from its place in its device     *)
(* sector, and no byte of the host beyond what the device delivered, or    *)
(* beyond the host's scatterlist, is ever overwritten.                     *)
(***************************************************************************)
UnpackedInPlace ==
  dir = "unpack" =>
    /\ pc = "ok" => \A k \in 0..(hostLen - 1) : host[k] = Place(k)
    /\ \A k \in HostAddresses :
         host[k] # Foreign => k < hostLen /\ \E e \in cuts : k < e

(***************************************************************************)
(* "return host_pos == host_len ? 0 : -EIO": a walk fails exactly when the *)
(* host's scatterlist is shorter than the payload; the bounce list that    *)
(* was made for the request never runs out, also after the last trailer.   *)
(***************************************************************************)
FailsOnlyWhenShort ==
  LET Enough == hostLen = 0 \/ \E e \in cuts : e >= hostLen
  IN  /\ pc = "ok" => Enough
      /\ pc = "eio" => ~Enough

(***************************************************************************)
(* The nested loops, two of which go round without moving a byte, end.     *)
(***************************************************************************)
Returns == <>(pc \in {"ok", "eio"})
=============================================================================
