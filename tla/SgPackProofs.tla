---------------------------- MODULE SgPackProofs ----------------------------
(***************************************************************************)
(* The byte walks for every geometry, every request and every way to cut   *)
(* the host's scatterlist.                                                 *)
(***************************************************************************)
EXTENDS SgPack, CommonFacts

-----------------------------------------------------------------------------
(***************************************************************************)
(* The chunks of a request.                                                *)
(***************************************************************************)
LEMMA BlocksPerChunkPositive == BlocksPerChunk \in Nat \ {0}
<1>1. ChunkBytes \in Nat /\ DevSectorSize \in Nat \ {0}
      /\ DevSectorSize <= ChunkBytes
  BY GeometryAssumption
<1>2. /\ ChunkBytes \div DevSectorSize \in Nat
      /\ ChunkBytes < DevSectorSize * (ChunkBytes \div DevSectorSize)
                      + DevSectorSize
  BY <1>1, DivFacts
<1>3. ChunkBytes \div DevSectorSize # 0
  BY <1>1, <1>2
<1> QED
  BY <1>2, <1>3 DEF BlocksPerChunk

\* sd_528_blocks_to_chunks: enough chunks, and no more than enough.
LEMMA ChunksCoverBlocks ==
  ASSUME NEW n \in Nat
  PROVE  /\ blocks_to_chunks(n) \in Nat
         /\ n <= BlocksPerChunk * blocks_to_chunks(n)
         /\ \A k \in Nat : n <= BlocksPerChunk * k
                             => blocks_to_chunks(n) <= k
  BY BlocksPerChunkPositive, RoundUpFacts DEF blocks_to_chunks, DivRoundUp

\* A request of at least one sector needs at least one chunk.
LEMMA ChunksPositive ==
  ASSUME NEW n \in Nat \ {0}
  PROVE  blocks_to_chunks(n) \in Nat \ {0}
<1>1. /\ blocks_to_chunks(n) \in Nat
      /\ n <= BlocksPerChunk * blocks_to_chunks(n)
  BY ChunksCoverBlocks
<1>2. blocks_to_chunks(n) # 0
  BY <1>1, BlocksPerChunkPositive
<1> QED
  BY <1>1, <1>2

-----------------------------------------------------------------------------
(***************************************************************************)
(* Places: where the payload of a request is among its device sectors.     *)
(***************************************************************************)
LEMMA Sizes ==
  /\ HostSectorSize \in Nat \ {0} /\ DevSectorSize \in Nat \ {0}
  /\ Trailer \in Nat \ {0} /\ DevSectorSize = HostSectorSize + Trailer
  /\ MaxHostSectors \in Nat \ {0} /\ HostBytes \in Nat
  BY GeometryAssumption, PackAssumption DEF Trailer

LEMMA PlaceOf ==
  ASSUME NEW n \in Nat, NEW q \in Nat, NEW c \in 0..(HostSectorSize - 1),
         n = HostSectorSize * q + c
  PROVE  Place(n) = DevSectorSize * q + c /\ n % HostSectorSize = c
<1>1. n \div HostSectorSize = q /\ n % HostSectorSize = c
  BY Sizes, QuotientUnique
<1> QED
  BY <1>1, Sizes DEF Place

LEMMA Split ==
  ASSUME NEW n \in Nat
  PROVE  \E q \in Nat : \E c \in 0..(HostSectorSize - 1) :
           /\ n = HostSectorSize * q + c
           /\ Place(n) = DevSectorSize * q + c
           /\ n % HostSectorSize = c
<1>1. /\ n \div HostSectorSize \in Nat
      /\ n % HostSectorSize \in 0..(HostSectorSize - 1)
      /\ n = HostSectorSize * (n \div HostSectorSize) + (n % HostSectorSize)
  BY Sizes, Quotient
<1> QED
  BY <1>1, PlaceOf

LEMMA PlaceIsNat ==
  ASSUME NEW n \in Nat
  PROVE  Place(n) \in Nat
<1>1. PICK q \in Nat, c \in 0..(HostSectorSize - 1) :
        Place(n) = DevSectorSize * q + c
  BY Split
<1>2. DevSectorSize * q \in Nat
  BY Sizes
<1> QED
  BY <1>1, <1>2, Sizes

LEMMA PlaceWithinSector ==
  ASSUME NEW n \in Nat, NEW m \in Nat,
         (n % HostSectorSize) + m < HostSectorSize
  PROVE  Place(n + m) = Place(n) + m
<1>1. PICK q \in Nat, c \in 0..(HostSectorSize - 1) :
        /\ n = HostSectorSize * q + c
        /\ Place(n) = DevSectorSize * q + c
        /\ n % HostSectorSize = c
  BY Split
<1>2. /\ c + m \in 0..(HostSectorSize - 1) /\ n + m \in Nat
      /\ n + m = HostSectorSize * q + (c + m)
  BY <1>1, Sizes
<1>3. Place(n + m) = DevSectorSize * q + (c + m)
  BY <1>2, PlaceOf
<1> QED
  BY <1>1, <1>3, Sizes

\* The place after the last byte of a sector is beyond its trailer.
LEMMA PlaceAfterSector ==
  ASSUME NEW n \in Nat, NEW m \in Nat,
         (n % HostSectorSize) + m = HostSectorSize
  PROVE  /\ Place(n + m) = Place(n) + m + Trailer
         /\ (n + m) % HostSectorSize = 0
<1>1. PICK q \in Nat, c \in 0..(HostSectorSize - 1) :
        /\ n = HostSectorSize * q + c
        /\ Place(n) = DevSectorSize * q + c
        /\ n % HostSectorSize = c
  BY Split
<1>2. /\ n + m \in Nat /\ q + 1 \in Nat /\ 0 \in 0..(HostSectorSize - 1)
      /\ n + m = HostSectorSize * (q + 1) + 0
  BY <1>1, Sizes
<1>3. /\ Place(n + m) = DevSectorSize * (q + 1) + 0
      /\ (n + m) % HostSectorSize = 0
  BY <1>2, PlaceOf
<1>4. DevSectorSize * (q + 1) = DevSectorSize * q + DevSectorSize
  BY Sizes
<1> QED
  BY <1>1, <1>3, <1>4, Sizes

\* The sector of a byte of payload ends within the device sectors.
LEMMA PlaceBound ==
  ASSUME NEW n \in Nat, NEW b \in Nat, n < b * HostSectorSize
  PROVE  Place(n) + (HostSectorSize - (n % HostSectorSize)) + Trailer
           <= b * DevSectorSize
<1>1. PICK q \in Nat, c \in 0..(HostSectorSize - 1) :
        /\ n = HostSectorSize * q + c
        /\ Place(n) = DevSectorSize * q + c
        /\ n % HostSectorSize = c
  BY Split
<1>2. q < b
  <2> SUFFICES ASSUME b <= q PROVE FALSE
    OBVIOUS
  <2>1. HostSectorSize * b <= HostSectorSize * q
    <3>1. CASE b = q
      BY <3>1, Sizes
    <3>2. CASE b < q
      <4>1. HostSectorSize * b + HostSectorSize <= HostSectorSize * q
        BY <3>2, Sizes, MultiplesApart
      <4> QED
        BY <4>1, Sizes
    <3> QED
      BY <3>1, <3>2
  <2> QED
    BY <2>1, <1>1, Sizes
<1>3. DevSectorSize * q + DevSectorSize <= DevSectorSize * b
  BY <1>2, Sizes, MultiplesApart
<1> QED
  BY <1>1, <1>3, Sizes

LEMMA PlaceWhole ==
  ASSUME NEW b \in Nat
  PROVE  Place(b * HostSectorSize) = b * DevSectorSize
<1>1. /\ 0 \in 0..(HostSectorSize - 1)
      /\ b * HostSectorSize \in Nat
      /\ b * HostSectorSize = HostSectorSize * b + 0
  BY Sizes
<1> QED
  BY <1>1, Sizes, PlaceOf

\* What a packed write holds at device address a.
Expected(a) ==
  IF a % DevSectorSize < HostSectorSize
    THEN (a \div DevSectorSize) * HostSectorSize + (a % DevSectorSize)
    ELSE Zero

LEMMA ExpectedAt ==
  ASSUME NEW a \in Nat, NEW q \in Nat, NEW c \in 0..(DevSectorSize - 1),
         a = DevSectorSize * q + c
  PROVE  Expected(a) = IF c < HostSectorSize THEN q * HostSectorSize + c ELSE Zero
<1>1. a \div DevSectorSize = q /\ a % DevSectorSize = c
  BY Sizes, QuotientUnique
<1> QED
  BY <1>1 DEF Expected

LEMMA ExpectedPayload ==
  ASSUME NEW n \in Nat, NEW j \in Nat,
         (n % HostSectorSize) + j < HostSectorSize
  PROVE  Expected(Place(n) + j) = n + j
<1>1. PICK q \in Nat, c \in 0..(HostSectorSize - 1) :
        /\ n = HostSectorSize * q + c
        /\ Place(n) = DevSectorSize * q + c
        /\ n % HostSectorSize = c
  BY Split
<1>2. /\ Place(n) + j \in Nat /\ c + j \in 0..(DevSectorSize - 1)
      /\ Place(n) + j = DevSectorSize * q + (c + j)
      /\ c + j < HostSectorSize
  BY <1>1, Sizes, PlaceIsNat
<1>3. Expected(Place(n) + j) = q * HostSectorSize + (c + j)
  BY <1>2, ExpectedAt
<1> QED
  BY <1>1, <1>3, Sizes

LEMMA ExpectedTrailer ==
  ASSUME NEW n \in Nat \ {0}, n % HostSectorSize = 0, NEW i \in 1..Trailer
  PROVE  Place(n) - i \in Nat /\ Expected(Place(n) - i) = Zero
<1>1. PICK q \in Nat :
        /\ n = HostSectorSize * q + 0
        /\ Place(n) = DevSectorSize * q + 0
  BY Split
<1>2. PICK p \in Nat : q = p + 1
  <2>1. q # 0
    BY <1>1, Sizes
  <2>2. q - 1 \in Nat /\ q = (q - 1) + 1
    BY <2>1
  <2> QED
    BY <2>2
<1>3. DevSectorSize * q = DevSectorSize * p + DevSectorSize
  BY <1>2, Sizes
<1>4. DevSectorSize * p \in Nat
  BY Sizes
<1>5. i \in Nat /\ i >= 1 /\ i <= Trailer
  BY Sizes
<1>6. /\ Place(n) - i \in Nat /\ DevSectorSize - i \in 0..(DevSectorSize - 1)
      /\ Place(n) - i = DevSectorSize * p + (DevSectorSize - i)
      /\ ~(DevSectorSize - i < HostSectorSize)
  BY <1>1, <1>3, <1>4, <1>5, Sizes
<1> QED
  BY <1>6, ExpectedAt

-----------------------------------------------------------------------------
(***************************************************************************)
(* The bounce list: its entries cover the device sectors without a gap.    *)
(***************************************************************************)
LEMMA Monotone ==
  ASSUME NEW d \in Nat \ {0}, NEW a \in Nat, NEW b \in Nat, a <= b
  PROVE  a * d <= b * d
<1>1. CASE a = b
  BY <1>1
<1>2. CASE a < b
  <2>1. d * a + d <= d * b
    BY <1>2, MultiplesApart
  <2> QED
    BY <2>1
<1> QED
  BY <1>1, <1>2

LEMMA EntriesCover ==
  ASSUME blocks \in 1..MaxHostSectors
  PROVE  /\ Used \in Nat \ {0} /\ Entries \in Nat \ {0} /\ devLen \in Nat \ {0}
         /\ devLen <= Entries * Used
         /\ (Entries - 1) * Used < devLen
         /\ devLen <= MaxHostSectors * DevSectorSize
<1>1. blocks \in Nat \ {0} /\ blocks <= MaxHostSectors
  BY Sizes
<1>2. PICK b \in Nat \ {0} : b = BlocksPerChunk
  BY BlocksPerChunkPositive
<1>3. PICK n \in Nat \ {0} : n = Entries
  BY <1>1, ChunksPositive DEF Entries
<1>4. blocks <= b * n /\ \A k \in Nat : blocks <= b * k => n <= k
  BY <1>1, <1>2, <1>3, ChunksCoverBlocks DEF Entries
<1>5. PICK m \in Nat : n = m + 1
  <2>1. n - 1 \in Nat /\ n = (n - 1) + 1
    OBVIOUS
  <2> QED
    BY <2>1
<1>6. b * m \in Nat /\ b * n \in Nat /\ b * m + 1 <= blocks
  <2>1. b * m \in Nat /\ b * n \in Nat
    OBVIOUS
  <2>2. ~(blocks <= b * m)
    BY <1>4, <1>5
  <2> QED
    BY <2>1, <2>2, <1>1
<1>7. PICK d \in Nat \ {0} : d = DevSectorSize
  BY Sizes
<1>8. PICK u \in Nat \ {0} : u = b * d
  <2>1. b * d \in Nat /\ b * d # 0
    OBVIOUS
  <2> QED
    BY <2>1
<1>9. blocks * d <= (b * n) * d /\ (b * m + 1) * d <= blocks * d
      /\ blocks * d <= MaxHostSectors * d /\ 1 * d <= blocks * d
  BY <1>1, <1>4, <1>6, Monotone, Sizes
<1>10. (b * n) * d = n * u /\ (b * m + 1) * d = m * u + d
  BY <1>8
<1>11. n * u \in Nat /\ m * u \in Nat /\ blocks * d \in Nat
  BY <1>1
<1>12. Used = u /\ devLen = blocks * d /\ Entries - 1 = m
  BY <1>2, <1>3, <1>5, <1>7, <1>8 DEF Used, devLen
<1> QED
  BY <1>3, <1>7, <1>9, <1>10, <1>11, <1>12

LEMMA EntryFacts ==
  ASSUME blocks \in 1..MaxHostSectors, NEW s \in 1..Entries
  PROVE  /\ Length(s) \in 1..Used
         /\ (s - 1) * Used \in Nat
         /\ (s - 1) * Used + Length(s) <= devLen
         /\ s < Entries => (s - 1) * Used + Length(s) = s * Used
         /\ s = Entries => (s - 1) * Used + Length(s) = devLen
<1>1. PICK u \in Nat \ {0}, n \in Nat \ {0}, l \in Nat \ {0} :
        u = Used /\ n = Entries /\ l = devLen
  BY EntriesCover
<1>2. l <= n * u /\ (n - 1) * u < l
  BY <1>1, EntriesCover
<1>3. s \in Nat \ {0} /\ s <= n /\ s - 1 \in Nat /\ n - 1 \in Nat
  BY <1>1
<1>4. (s - 1) * u \in Nat /\ s * u = (s - 1) * u + u /\ (n - 1) * u \in Nat
      /\ n * u = (n - 1) * u + u /\ s * u \in Nat
  BY <1>3
<1>5. s < n => s * u <= (n - 1) * u
  BY <1>3, Monotone
<1>6. Length(s) = IF u <= l - (s - 1) * u THEN u ELSE l - (s - 1) * u
  BY <1>1 DEF Length, Lesser
<1>7. CASE s < n
  BY <1>1, <1>2, <1>3, <1>4, <1>5, <1>6, <1>7
<1>8. CASE s = n
  BY <1>1, <1>2, <1>3, <1>4, <1>6, <1>8
<1> QED
  BY <1>3, <1>7, <1>8

\* Cursor, as a function of bounce_sg and bounce_off.
CursorAt(s, o) == IF s <= Entries THEN (s - 1) * Used + o ELSE devLen

LEMMA CursorFacts ==
  ASSUME blocks \in 1..MaxHostSectors, NEW s \in 1..Entries,
         NEW o \in 0..Length(s)
  PROVE  /\ CursorAt(s, o) \in Nat
         /\ CursorAt(s, o) + (Length(s) - o) <= devLen
         /\ CursorAt(s + 1, 0) = CursorAt(s, o) + (Length(s) - o)
         /\ \A n \in 0..(Length(s) - o) : CursorAt(s, o + n) = CursorAt(s, o) + n
<1>1. PICK u \in Nat \ {0}, m \in Nat \ {0}, l \in Nat \ {0}, k \in Nat \ {0} :
        u = Used /\ m = Entries /\ l = devLen /\ k = Length(s)
  BY EntriesCover, EntryFacts
<1>2. /\ (s - 1) * u \in Nat /\ (s - 1) * u + k <= l
      /\ s < m => (s - 1) * u + k = s * u
      /\ s = m => (s - 1) * u + k = l
  BY <1>1, EntryFacts
<1>3. s \in Nat \ {0} /\ s <= m /\ o \in 0..k
  BY <1>1
<1>4. (s + 1) - 1 = s
  BY <1>3
<1> QED
  BY <1>1, <1>2, <1>3, <1>4 DEF CursorAt

-----------------------------------------------------------------------------
(***************************************************************************)
(* The inductive invariant: the place in the bounce list follows the place *)
(* in the host's list, and what is behind both is done.                    *)
(***************************************************************************)
RequestOK ==
  /\ dir \in {"pack", "unpack"}
  /\ blocks \in 1..MaxHostSectors
  /\ hostLen \in 0..(blocks * HostSectorSize)
  /\ dir = "pack" => hostLen = blocks * HostSectorSize
  /\ cuts \subseteq 1..HostBytes

PositionOK ==
  /\ pc \in {"piece", "span", "copy", "trailer", "ok", "eio"}
  /\ hostPos \in 0..hostLen /\ hostPos <= pieceEnd
  /\ pieceEnd \in cuts \cup {0}
  /\ sg \in 1..(Entries + 1)
  /\ off \in 0..(IF sg <= Entries THEN Length(sg) ELSE 0)
  /\ len \in 0..HostSectorSize /\ left \in Nat
  /\ pc \in {"piece", "span", "ok", "eio"} =>
       left = 0 /\ Cursor = Place(hostPos)
  /\ pc = "copy" =>
       /\ left <= len /\ hostPos + len <= pieceEnd /\ hostPos + len <= hostLen
       /\ len > 0 /\ block_off + len <= HostSectorSize
       /\ Cursor = Place(hostPos) + (len - left)
  /\ pc = "trailer" =>
       /\ left <= Trailer /\ hostPos > 0 /\ block_off = 0
       /\ Cursor = Place(hostPos) - left
  /\ pc = "ok" => hostPos = hostLen
  /\ pc = "eio" => hostPos < hostLen /\ \A e \in cuts : e <= hostPos

\* How many bytes of the host are done.
Moved == hostPos + (IF pc = "copy" THEN len - left ELSE 0)

PackOK ==
  dir = "pack" =>
    /\ host = [k \in HostAddresses |-> k]
    /\ bounce = [a \in DevAddresses |->
                   IF a < Cursor THEN Expected(a) ELSE Foreign]

UnpackOK ==
  dir = "unpack" =>
    /\ bounce = [a \in DevAddresses |-> a]
    /\ host = [k \in HostAddresses |-> IF k < Moved THEN Place(k) ELSE Foreign]

Inv == RequestOK /\ PositionOK /\ PackOK /\ UnpackOK

LEMMA InvInit == Init => Inv
<1> SUFFICES ASSUME Init PROVE Inv
  OBVIOUS
<1>1. blocks \in 1..MaxHostSectors /\ blocks \in Nat
  BY Sizes DEF Init
<1>2. RequestOK
  <2>1. PICK n \in 0..blocks : /\ dir = "pack" => n = blocks
                              /\ hostLen = n * HostSectorSize
    BY DEF Init
  <2>2. hostLen \in Nat /\ hostLen <= blocks * HostSectorSize
    BY <1>1, <2>1, Sizes, Monotone
  <2> QED
    BY <1>1, <2>1, <2>2, Sizes DEF Init, RequestOK
<1>3. Entries \in Nat \ {0}
  BY <1>1, EntriesCover
<1>4. Length(1) \in Nat
  BY <1>1, <1>3, EntryFacts, EntriesCover
<1>5. Place(0) = 0
  BY Sizes, PlaceOf
<1>6. Cursor = 0
  BY <1>1, <1>3, EntriesCover DEF Init, Cursor
<1>7. PositionOK
  BY <1>2, <1>3, <1>4, <1>5, <1>6, Sizes DEF Init, PositionOK, RequestOK
<1>8. PackOK
  <2> SUFFICES ASSUME dir = "pack" PROVE PackOK
    BY DEF PackOK
  <2>1. \A a \in DevAddresses : ~(a < 0)
    BY Sizes DEF DevAddresses
  <2> QED
    BY <2>1, <1>6 DEF Init, PackOK
<1>9. UnpackOK
  <2> SUFFICES ASSUME dir = "unpack" PROVE UnpackOK
    BY DEF UnpackOK
  <2>1. \A k \in HostAddresses : ~(k < 0)
    BY Sizes DEF HostAddresses
  <2>2. Moved = 0
    BY DEF Init, Moved
  <2> QED
    BY <2>1, <2>2 DEF Init, UnpackOK
<1> QED
  BY <1>2, <1>7, <1>8, <1>9 DEF Inv

\* While bytes are to be moved, the bounce list has not run out.
LEMMA Room ==
  ASSUME Inv, Moving
  PROVE  /\ blocks \in 1..MaxHostSectors /\ hostPos \in Nat /\ left \in Nat \ {0}
         /\ Cursor \in Nat /\ Cursor + left <= devLen
         /\ sg \in 1..Entries /\ off \in 0..Length(sg)
         /\ Cursor = CursorAt(sg, off)
<1> USE DEF Inv, RequestOK, PositionOK
<1>1. /\ blocks \in 1..MaxHostSectors /\ blocks \in Nat
      /\ hostPos \in Nat /\ left \in Nat \ {0}
      /\ hostPos <= hostLen /\ hostLen <= blocks * HostSectorSize
      /\ blocks * HostSectorSize \in Nat /\ hostLen \in Nat
  BY Sizes DEF Moving
<1>2. /\ Entries \in Nat \ {0} /\ devLen \in Nat \ {0}
      /\ devLen = blocks * DevSectorSize
  BY <1>1, EntriesCover DEF devLen
<1>3. Place(hostPos) \in Nat /\ hostPos % HostSectorSize \in 0..(HostSectorSize - 1)
  BY <1>1, PlaceIsNat, Sizes, Quotient
<1>4. Cursor \in Nat /\ Cursor + left <= devLen
  <2>1. CASE pc = "copy"
    <3>1. /\ left <= len /\ len \in Nat /\ hostPos + len <= hostLen
          /\ block_off + len <= HostSectorSize
          /\ Cursor = Place(hostPos) + (len - left)
      BY <2>1, Sizes
    <3>2. hostPos < blocks * HostSectorSize
      BY <1>1, <3>1
    <3>3. Place(hostPos) + (HostSectorSize - (hostPos % HostSectorSize)) + Trailer
            <= blocks * DevSectorSize
      BY <1>1, <3>2, PlaceBound
    <3> QED
      BY <1>1, <1>2, <1>3, <3>1, <3>3, Sizes DEF block_off
  <2>2. CASE pc = "trailer"
    <3>1. left <= Trailer /\ hostPos > 0 /\ block_off = 0
          /\ Cursor = Place(hostPos) - left
      BY <2>2
    <3>2. Place(hostPos) <= blocks * DevSectorSize
      <4>1. CASE hostPos = blocks * HostSectorSize
        BY <4>1, <1>1, <1>2, PlaceWhole
      <4>2. CASE hostPos < blocks * HostSectorSize
        <5>1. Place(hostPos) + (HostSectorSize - (hostPos % HostSectorSize))
                + Trailer <= blocks * DevSectorSize
          BY <1>1, <4>2, PlaceBound
        <5> QED
          BY <1>1, <1>2, <1>3, <5>1, Sizes
      <4> QED
        BY <1>1, <4>1, <4>2
    <3>3. Place(hostPos) - left \in Nat
      BY <1>1, <3>1, ExpectedTrailer DEF block_off
    <3> QED
      BY <1>1, <1>2, <1>3, <3>1, <3>2, <3>3
  <2> QED
    BY <2>1, <2>2 DEF Moving
<1>5. Cursor # devLen
  BY <1>1, <1>2, <1>4
<1>6. sg \in 1..Entries
  BY <1>2, <1>5 DEF Cursor
<1> QED
  BY <1>1, <1>2, <1>4, <1>6 DEF Cursor, CursorAt

-----------------------------------------------------------------------------
\* A step that moves no byte leaves what the data says alone.
LEMMA Quiet ==
  ASSUME Inv, UNCHANGED <<request, host, bounce>>,
         dir = "pack" => Cursor' = Cursor, dir = "unpack" => Moved' = Moved
  PROVE  RequestOK' /\ PackOK' /\ UnpackOK'
<1>1. RequestOK'
  BY DEF Inv, RequestOK, request
<1>2. PackOK'
  <2> SUFFICES ASSUME dir = "pack" PROVE PackOK'
    BY DEF PackOK, request
  <2>1. Cursor' = Cursor /\ host' = host /\ bounce' = bounce
    OBVIOUS
  <2>2. /\ host = [k \in HostAddresses |-> k]
        /\ bounce = [a \in DevAddresses |->
                      IF a < Cursor THEN Expected(a) ELSE Foreign]
    BY DEF Inv, PackOK
  <2> QED
    BY <2>1, <2>2 DEF PackOK
<1>3. UnpackOK'
  <2> SUFFICES ASSUME dir = "unpack" PROVE UnpackOK'
    BY DEF UnpackOK, request
  <2>1. Moved' = Moved /\ host' = host /\ bounce' = bounce
    OBVIOUS
  <2>2. /\ bounce = [a \in DevAddresses |-> a]
        /\ host = [k \in HostAddresses |->
                    IF k < Moved THEN Place(k) ELSE Foreign]
    BY DEF Inv, UnpackOK
  <2> QED
    BY <2>1, <2>2 DEF UnpackOK
<1> QED
  BY <1>1, <1>2, <1>3

LEMMA Kinds ==
  ASSUME Inv
  PROVE  /\ blocks \in Nat /\ hostLen \in Nat /\ hostPos \in Nat /\ hostPos <= hostLen
         /\ pieceEnd \in Nat /\ pieceEnd <= HostBytes /\ \A e \in cuts : e \in Nat
         /\ len \in Nat /\ left \in Nat
         /\ block_off \in 0..(HostSectorSize - 1) /\ Place(hostPos) \in Nat
         /\ blocks * HostSectorSize \in Nat
<1>1. /\ blocks \in Nat /\ hostPos \in Nat /\ blocks * HostSectorSize \in Nat
      /\ \A e \in cuts : e \in Nat /\ e <= HostBytes
  BY Sizes DEF Inv, RequestOK, PositionOK
<1>2. block_off \in 0..(HostSectorSize - 1)
  BY <1>1, Sizes, Quotient DEF block_off
<1> QED
  BY <1>1, <1>2, Sizes, PlaceIsNat DEF Inv, RequestOK, PositionOK

LEMMA PieceSteps ==
  ASSUME Inv, next_piece \/ walk_ends \/ piece_over \/ trailer_over
  PROVE  Inv'
<1> USE DEF Inv
<1>1. /\ UNCHANGED <<request, host, bounce>> /\ Cursor' = Cursor
      /\ UNCHANGED <<hostPos, sg, off, len, left>>
      /\ Entries' = Entries /\ block_off' = block_off
      /\ (IF sg <= Entries THEN Length(sg) ELSE 0)'
           = (IF sg <= Entries THEN Length(sg) ELSE 0)
      /\ Place(hostPos)' = Place(hostPos)
  BY DEF next_piece, walk_ends, piece_over, trailer_over, request, Cursor,
         Entries, Length, devLen, block_off, Place
<1>2. /\ pc \in {"piece", "span", "trailer"} /\ left = 0
      /\ pc' \in {"piece", "span", "ok", "eio"}
      /\ Moved' = Moved
      /\ Cursor = Place(hostPos)
  BY <1>1, Kinds DEF next_piece, walk_ends, piece_over, trailer_over, Moved,
                     PositionOK
<1>3. RequestOK' /\ PackOK' /\ UnpackOK'
  BY <1>1, <1>2, Quiet
<1>4. /\ pieceEnd' \in cuts \cup {0} /\ hostPos <= pieceEnd'
      /\ pc' = "ok" => hostPos = hostLen
      /\ pc' = "eio" => hostPos < hostLen /\ \A e \in cuts : e <= hostPos
  BY Kinds DEF next_piece, walk_ends, piece_over, trailer_over, PositionOK
<1>5. PositionOK'
  BY <1>1, <1>2, <1>4 DEF PositionOK, request
<1> QED
  BY <1>3, <1>5

LEMMA SpanStep ==
  ASSUME Inv, next_span
  PROVE  Inv'
<1> USE DEF Inv
<1>1. /\ UNCHANGED <<request, host, bounce>> /\ Cursor' = Cursor
      /\ UNCHANGED <<hostPos, pieceEnd, sg, off>>
      /\ Entries' = Entries /\ block_off' = block_off
      /\ (IF sg <= Entries THEN Length(sg) ELSE 0)'
           = (IF sg <= Entries THEN Length(sg) ELSE 0)
      /\ Place(hostPos)' = Place(hostPos)
      /\ pc = "span" /\ pc' = "copy" /\ hostPos < pieceEnd /\ hostPos < hostLen
      /\ len' = span_length /\ left' = span_length
  BY DEF next_span, request, Cursor, Entries, Length, devLen, block_off, Place
<1>2. /\ span_length \in Nat \ {0}
      /\ hostPos + span_length <= pieceEnd /\ hostPos + span_length <= hostLen
      /\ block_off + span_length <= HostSectorSize
  BY <1>1, Kinds, Sizes DEF span_length, Lesser
<1>3. Cursor = Place(hostPos)
  BY <1>1 DEF PositionOK
<1>4. Moved' = Moved
  BY <1>1, <1>2, Kinds DEF Moved
<1>5. RequestOK' /\ PackOK' /\ UnpackOK'
  BY <1>1, <1>4, Quiet
<1>6. PICK m \in Nat \ {0} : m = span_length
  BY <1>2
<1>7. /\ len' = m /\ left' = m /\ m <= HostSectorSize
      /\ Cursor' = Place(hostPos)' + (len' - left')
  BY <1>1, <1>2, <1>3, <1>6, Kinds, Sizes
<1>8. PositionOK'
  BY <1>1, <1>2, <1>6, <1>7, Kinds, Sizes DEF PositionOK, request
<1> QED
  BY <1>5, <1>8

\* The entry that the cursor is in when bytes are to be moved.
LEMMA Step ==
  ASSUME Inv, Moving, InEntry, UNCHANGED request
  PROVE  /\ Chunk \in Nat \ {0} /\ Chunk <= left /\ off + Chunk <= Length(sg)
         /\ Cursor \in Nat /\ Cursor + Chunk <= devLen
         /\ (sg' = sg /\ off' = off + Chunk) => Cursor' = Cursor + Chunk
         /\ (sg' = sg + 1 /\ off' = 0 /\ Chunk = Length(sg) - off)
              => Cursor' = Cursor + Chunk
<1>1. /\ blocks \in 1..MaxHostSectors /\ left \in Nat \ {0}
      /\ Cursor \in Nat /\ Cursor + left <= devLen
      /\ sg \in 1..Entries /\ off \in 0..Length(sg)
      /\ Cursor = CursorAt(sg, off)
  BY Room
<1>2. Length(sg) \in Nat /\ Entries \in Nat /\ devLen \in Nat
  BY <1>1, EntryFacts, EntriesCover
<1>3. /\ CursorAt(sg + 1, 0) = CursorAt(sg, off) + (Length(sg) - off)
      /\ \A n \in 0..(Length(sg) - off) :
           CursorAt(sg, off + n) = CursorAt(sg, off) + n
  BY <1>1, CursorFacts
<1>4. /\ Chunk \in Nat \ {0} /\ Chunk <= left /\ Chunk <= Length(sg) - off
  BY <1>1, <1>2 DEF Chunk, Lesser, InEntry
<1>5. Cursor' = CursorAt(sg', off')
  BY DEF Cursor, CursorAt, request, Entries, devLen
<1>6. CursorAt(sg, off + Chunk) = CursorAt(sg, off) + Chunk
  BY <1>2, <1>3, <1>4, <1>1
<1> QED
  BY <1>1, <1>2, <1>3, <1>4, <1>5, <1>6

LEMMA NextEntryStep ==
  ASSUME Inv, next_entry
  PROVE  Inv'
<1> USE DEF Inv
<1>1. /\ blocks \in 1..MaxHostSectors
      /\ sg \in 1..Entries /\ off \in 0..Length(sg) /\ Cursor = CursorAt(sg, off)
  BY Room DEF next_entry
<1>2. Entries \in Nat \ {0} /\ Length(sg) \in Nat
  BY <1>1, EntriesCover, EntryFacts
<1>3. off = Length(sg) /\ sg' = sg + 1 /\ off' = 0 /\ pc' = pc
      /\ UNCHANGED <<request, pieceEnd, hostPos, len, left, host, bounce>>
  BY <1>1, <1>2 DEF next_entry, InEntry
<1>4. Cursor' = CursorAt(sg + 1, 0)
  BY <1>3 DEF Cursor, CursorAt, request, Entries, devLen
<1>5. /\ CursorAt(sg, off) \in Nat
      /\ CursorAt(sg + 1, 0) = CursorAt(sg, off) + (Length(sg) - off)
  BY <1>1, CursorFacts
<1>6. Cursor' = Cursor
  BY <1>1, <1>2, <1>3, <1>4, <1>5
<1>7. Moved' = Moved
  BY <1>3 DEF Moved
<1>8. RequestOK' /\ PackOK' /\ UnpackOK'
  BY <1>3, <1>6, <1>7, Quiet
<1>9. off' \in 0..(IF sg <= Entries THEN Length(sg) ELSE 0)'
  <2>1. Entries' = Entries /\ \A s \in 1..Entries : Length(s) \in Nat
    BY <1>1, <1>3, EntriesCover, EntryFacts DEF Entries, request
  <2>2. Length(sg)' = Length(sg + 1)
    BY <1>3 DEF Length, devLen, request
  <2> QED
    BY <1>2, <1>1, <1>3, <2>1, <2>2
<1>10. /\ Entries' = Entries /\ block_off' = block_off
       /\ Place(hostPos)' = Place(hostPos)
  BY <1>3 DEF Entries, block_off, Place, request
<1>11. PositionOK'
  BY <1>1, <1>2, <1>3, <1>6, <1>9, <1>10 DEF PositionOK, request, next_entry, Moving
<1> QED
  BY <1>8, <1>11

LEMMA SpanOverStep ==
  ASSUME Inv, span_over
  PROVE  Inv'
<1> USE DEF Inv
<1>1. /\ pc = "copy" /\ left = 0 /\ hostPos' = hostPos + len
      /\ UNCHANGED <<request, pieceEnd, sg, off, len, host, bounce>>
      /\ Cursor' = Cursor /\ Entries' = Entries
      /\ (IF sg <= Entries THEN Length(sg) ELSE 0)'
           = (IF sg <= Entries THEN Length(sg) ELSE 0)
  BY DEF span_over, Cursor, Entries, Length, devLen, request
<1>2. /\ len > 0 /\ hostPos + len <= hostLen /\ hostPos + len <= pieceEnd
      /\ block_off + len <= HostSectorSize
      /\ Cursor = Place(hostPos) + len
  BY <1>1, Kinds DEF PositionOK
<1>3. pc' # "copy" /\ Moved' = Moved
  BY <1>1, Kinds DEF span_over, Moved
<1>4. RequestOK' /\ PackOK' /\ UnpackOK'
  BY <1>1, <1>3, Quiet
<1>5. Place(hostPos)' = Place(hostPos + len)
      /\ block_off' = (hostPos + len) % HostSectorSize
  BY <1>1 DEF Place, block_off
<1>6. CASE block_off + len = HostSectorSize
  <2>1. /\ Place(hostPos + len) = Place(hostPos) + len + Trailer
        /\ (hostPos + len) % HostSectorSize = 0
    BY <1>6, Kinds, PlaceAfterSector DEF block_off
  <2>2. pc' = "trailer" /\ left' = Trailer
    BY <1>6 DEF span_over
  <2>3. PositionOK'
    BY <1>1, <1>2, <1>5, <2>1, <2>2, Kinds, Sizes DEF PositionOK, request
  <2> QED
    BY <1>4, <2>3
<1>7. CASE block_off + len # HostSectorSize
  <2>1. Place(hostPos + len) = Place(hostPos) + len
    <3>1. block_off \in Int /\ len \in Int /\ HostSectorSize \in Int
      BY Kinds, Sizes
    <3>2. block_off + len < HostSectorSize
      BY <1>2, <1>7, <3>1
    <3> QED
      BY <3>2, Kinds, PlaceWithinSector DEF block_off
  <2>2. pc' = "span" /\ left' = left
    BY <1>7 DEF span_over
  <2>3. PositionOK'
    BY <1>1, <1>2, <1>5, <2>1, <2>2, Kinds, Sizes DEF PositionOK, request
  <2> QED
    BY <1>4, <2>3
<1> QED
  BY <1>6, <1>7

\* The position after bytes were moved within an entry.
LEMMA MovedWithinEntry ==
  ASSUME Inv, Moving, InEntry, UNCHANGED <<request, pc, pieceEnd, hostPos, len>>,
         sg' = sg, off' = off + Chunk, left' = left - Chunk
  PROVE  RequestOK' /\ PositionOK' /\ Cursor' = Cursor + Chunk
<1> USE DEF Inv
<1>1. /\ Chunk \in Nat \ {0} /\ Chunk <= left /\ off + Chunk <= Length(sg)
      /\ Cursor \in Nat /\ Cursor' = Cursor + Chunk
  BY Step
<1>2. sg \in 1..Entries /\ off \in Nat /\ Entries \in Nat /\ Length(sg) \in Nat
  BY Room, EntryFacts, EntriesCover
<1>3. /\ Entries' = Entries /\ block_off' = block_off
      /\ Length(sg)' = Length(sg)
      /\ Place(hostPos)' = Place(hostPos)
  BY DEF Entries, Length, devLen, block_off, Place, request
<1>4. RequestOK'
  BY DEF RequestOK, request
<1>5. PICK n \in Nat \ {0} : n = Chunk
  BY <1>1
<1>6. off' \in 0..(IF sg <= Entries THEN Length(sg) ELSE 0)'
  BY <1>1, <1>2, <1>3, <1>5
<1>7. left' \in Nat /\ left' <= left
  BY <1>1, <1>5, Kinds
<1>8. CASE pc = "copy"
  <2>1. Cursor' = Place(hostPos)' + (len' - left')
    BY <1>1, <1>3, <1>5, <1>8, Kinds DEF PositionOK
  <2> QED
    BY <1>1, <1>2, <1>3, <1>4, <1>6, <1>7, <1>8, <2>1, Kinds
       DEF PositionOK, request
<1>9. CASE pc = "trailer"
  <2>1. Cursor' = Place(hostPos)' - left'
    BY <1>1, <1>3, <1>5, <1>9, Kinds DEF PositionOK
  <2> QED
    BY <1>1, <1>2, <1>3, <1>4, <1>6, <1>7, <1>9, <2>1, Kinds, Sizes
       DEF PositionOK, request
<1> QED
  BY <1>8, <1>9 DEF Moving

LEMMA MemcpyStep ==
  ASSUME Inv, memcpy
  PROVE  Inv'
<1> USE DEF Inv
<1>1. /\ pc = "copy" /\ Moving /\ InEntry
      /\ UNCHANGED <<request, pc, pieceEnd, hostPos, len>>
      /\ sg' = sg /\ off' = off + Chunk /\ left' = left - Chunk
  BY DEF memcpy, Moving
<1>2. RequestOK' /\ PositionOK' /\ Cursor' = Cursor + Chunk
  BY <1>1, MovedWithinEntry
<1>3. PICK n \in Nat \ {0} : n = Chunk /\ n <= left
  BY <1>1, Step
<1>4. PICK c \in Nat : c = Cursor /\ c + n <= MaxHostSectors * DevSectorSize
  <2>1. /\ Cursor \in Nat /\ Cursor + left <= devLen /\ left \in Nat
        /\ devLen \in Nat /\ devLen <= MaxHostSectors * DevSectorSize
    BY <1>1, Room, EntriesCover
  <2>2. MaxHostSectors * DevSectorSize \in Nat
    BY Sizes
  <2> QED
    BY <2>1, <2>2, <1>3
<1>5. PICK h \in Nat : h = Here
  BY <1>1, Kinds DEF Here, PositionOK
<1>6. /\ h = hostPos + (len - left) /\ c = Place(hostPos) + (len - left)
      /\ left <= len /\ block_off + len <= HostSectorSize
      /\ hostPos + len <= pieceEnd
  BY <1>1, <1>4, <1>5, Kinds DEF Here, PositionOK
\* The j-th byte of this step, in both buffers.
<1>7. ASSUME NEW j \in 0..(n - 1)
      PROVE  /\ h + j \in HostAddresses /\ c + j \in DevAddresses
             /\ Expected(c + j) = h + j /\ Place(h + j) = c + j
  <2>1. PICK i \in Nat : i = (len - left) + j
    BY <1>6, Kinds
  <2>2. i < len /\ h + j = hostPos + i /\ c + j = Place(hostPos) + i
    BY <1>3, <1>6, <2>1, Kinds
  <2>3. (hostPos % HostSectorSize) + i < HostSectorSize
    <3>1. block_off \in Int /\ len \in Int /\ HostSectorSize \in Int
      BY Kinds, Sizes
    <3>2. block_off + i < HostSectorSize
      BY <2>2, <1>6, <3>1
    <3> QED
      BY <3>2 DEF block_off
  <2>4. Expected(Place(hostPos) + i) = hostPos + i
        /\ Place(hostPos + i) = Place(hostPos) + i
    BY <2>3, Kinds, ExpectedPayload, PlaceWithinSector
  <2>5. h + j \in HostAddresses
    BY <2>2, <1>6, Kinds, Sizes DEF HostAddresses
  <2>6. c + j \in DevAddresses
    <3>1. PICK e \in Nat : e = MaxHostSectors * DevSectorSize
      BY Sizes
    <3> QED
      BY <3>1, <1>4, <2>2 DEF DevAddresses
  <2> QED
    BY <2>2, <2>4, <2>5, <2>6
<1>8. /\ \A a \in DevAddresses : a \in Nat
      /\ \A k \in HostAddresses : k \in Nat
  BY DEF DevAddresses, HostAddresses
<1>9. CASE dir = "pack"
  <2>1. /\ bounce' = [a \in DevAddresses |->
               IF a \in c..(c + n - 1) THEN host[h + (a - c)] ELSE bounce[a]]
        /\ host' = host /\ dir' = dir
    BY <1>1, <1>3, <1>4, <1>5, <1>9 DEF memcpy, request
  <2>2. /\ host = [k \in HostAddresses |-> k]
        /\ bounce = [a \in DevAddresses |->
                     IF a < c THEN Expected(a) ELSE Foreign]
    BY <1>4, <1>9 DEF PackOK
  <2>3. ASSUME NEW a \in DevAddresses
        PROVE  (IF a \in c..(c + n - 1) THEN host[h + (a - c)] ELSE bounce[a])
                 = (IF a < c + n THEN Expected(a) ELSE Foreign)
    <3>1. CASE a \in c..(c + n - 1)
      <4>1. PICK j \in 0..(n - 1) : a = c + j /\ a - c = j
        <5>1. a - c \in 0..(n - 1) /\ a = c + (a - c)
          BY <1>8, <3>1
        <5> QED
          BY <5>1
      <4>2. host[h + j] = h + j /\ Expected(a) = h + j
        BY <4>1, <1>7, <2>2
      <4> QED
        BY <3>1, <4>1, <4>2
    <3>2. CASE a \notin c..(c + n - 1)
      <4>1. (a < c + n) <=> (a < c)
        BY <1>8, <3>2
      <4> QED
        BY <2>2, <3>2, <4>1
    <3> QED
      BY <3>1, <3>2
  <2>4. bounce' = [a \in DevAddresses |->
                    IF a < c + n THEN Expected(a) ELSE Foreign]
    BY <2>1, <2>3
  <2>5. Cursor' = c + n
    BY <1>2, <1>3, <1>4
  <2>6. PackOK'
    BY <2>1, <2>2, <2>4, <2>5 DEF PackOK
  <2>7. UnpackOK'
    BY <1>9, <2>1 DEF UnpackOK
  <2> QED
    BY <1>2, <2>6, <2>7
<1>10. CASE dir = "unpack"
  <2>1. /\ host' = [k \in HostAddresses |->
               IF k \in h..(h + n - 1) THEN bounce[c + (k - h)] ELSE host[k]]
        /\ bounce' = bounce /\ dir' = dir
    BY <1>1, <1>3, <1>4, <1>5, <1>10 DEF memcpy, request
  <2>2. Moved = h /\ Moved' = h + n
    BY <1>1, <1>3, <1>6, Kinds DEF Moved
  <2>3. /\ bounce = [a \in DevAddresses |-> a]
        /\ host = [k \in HostAddresses |-> IF k < h THEN Place(k) ELSE Foreign]
    BY <1>10, <2>2 DEF UnpackOK
  <2>4. ASSUME NEW k \in HostAddresses
        PROVE  (IF k \in h..(h + n - 1) THEN bounce[c + (k - h)] ELSE host[k])
                 = (IF k < h + n THEN Place(k) ELSE Foreign)
    <3>1. CASE k \in h..(h + n - 1)
      <4>1. PICK j \in 0..(n - 1) : k = h + j /\ k - h = j
        <5>1. k - h \in 0..(n - 1) /\ k = h + (k - h)
          BY <1>8, <3>1
        <5> QED
          BY <5>1
      <4>2. bounce[c + j] = c + j /\ Place(k) = c + j
        BY <4>1, <1>7, <2>3
      <4> QED
        BY <3>1, <4>1, <4>2
    <3>2. CASE k \notin h..(h + n - 1)
      <4>1. (k < h + n) <=> (k < h)
        BY <1>8, <3>2
      <4> QED
        BY <2>3, <3>2, <4>1
    <3> QED
      BY <3>1, <3>2
  <2>5. host' = [k \in HostAddresses |->
                  IF k < h + n THEN Place(k) ELSE Foreign]
    BY <2>1, <2>4
  <2> QED
    BY <1>2, <1>10, <2>1, <2>2, <2>3, <2>5 DEF PackOK, UnpackOK
<1> QED
  BY <1>9, <1>10 DEF RequestOK

LEMMA ZeroStep ==
  ASSUME Inv, zero_sg_bytes
  PROVE  Inv'
<1> USE DEF Inv
<1>1. /\ pc = "trailer" /\ Moving /\ InEntry /\ dir = "pack" /\ dir' = dir
      /\ UNCHANGED <<request, pc, pieceEnd, hostPos, len, host>>
      /\ sg' = sg /\ off' = off + Chunk /\ left' = left - Chunk
  BY DEF zero_sg_bytes, Moving, request
<1>2. RequestOK' /\ PositionOK' /\ Cursor' = Cursor + Chunk
  BY <1>1, MovedWithinEntry
<1>3. PICK n \in Nat \ {0} : n = Chunk /\ n <= left
  BY <1>1, Step
<1>4. PICK c \in Nat : c = Cursor
  BY <1>1, Room
<1>5. /\ c = Place(hostPos) - left /\ left <= Trailer /\ hostPos > 0
      /\ hostPos % HostSectorSize = 0
  BY <1>1, <1>4 DEF PositionOK, block_off
<1>6. bounce = [a \in DevAddresses |-> IF a < c THEN Expected(a) ELSE Foreign]
      /\ host = [k \in HostAddresses |-> k]
  BY <1>1, <1>4 DEF PackOK
<1>7. bounce' = [a \in DevAddresses |->
                  IF a \in c..(c + n - 1) THEN Zero ELSE bounce[a]]
  BY <1>3, <1>4 DEF zero_sg_bytes
<1>8. ASSUME NEW a \in DevAddresses
      PROVE  (IF a \in c..(c + n - 1) THEN Zero ELSE bounce[a])
               = (IF a < c + n THEN Expected(a) ELSE Foreign)
  <2>1. a \in Nat
    BY DEF DevAddresses
  <2>2. CASE a \in c..(c + n - 1)
    <3>1. PICK i \in 1..Trailer : a = Place(hostPos) - i
      <4>1. /\ Place(hostPos) - a \in 1..Trailer
            /\ a = Place(hostPos) - (Place(hostPos) - a)
        BY <1>3, <1>5, <2>1, <2>2, Kinds, Sizes
      <4> QED
        BY <4>1
    <3>2. Expected(a) = Zero
      BY <1>5, <3>1, Kinds, ExpectedTrailer
    <3> QED
      BY <2>1, <2>2, <3>2
  <2>3. CASE a \notin c..(c + n - 1)
    <3>1. (a < c + n) <=> (a < c)
      BY <2>1, <2>3
    <3> QED
      BY <1>6, <2>3, <3>1
  <2> QED
    BY <2>2, <2>3
<1>9. bounce' = [a \in DevAddresses |->
                  IF a < c + n THEN Expected(a) ELSE Foreign]
  BY <1>7, <1>8
<1>10. Cursor' = c + n
  BY <1>2, <1>3, <1>4
<1>11. PackOK'
  BY <1>1, <1>6, <1>9, <1>10 DEF PackOK
<1>12. UnpackOK'
  BY <1>1 DEF UnpackOK
<1> QED
  BY <1>2, <1>11, <1>12

LEMMA AdvanceStep ==
  ASSUME Inv, advance_sg
  PROVE  Inv'
<1> USE DEF Inv
<1>1. /\ pc = "trailer" /\ Moving /\ InEntry /\ dir = "unpack"
      /\ UNCHANGED <<request, pc, pieceEnd, hostPos, len, host, bounce>>
      /\ left' = left - Chunk
  BY DEF advance_sg, Moving
<1>2. Moved' = Moved
  BY <1>1 DEF Moved
<1>3. RequestOK' /\ PackOK' /\ UnpackOK'
  BY <1>1, <1>2, Quiet
<1>4. /\ sg \in 1..Entries /\ off \in 0..Length(sg) /\ Length(sg) \in Nat
      /\ Entries \in Nat /\ \A s \in 1..Entries : Length(s) \in Nat
      /\ left \in Nat
  BY <1>1, Room, EntryFacts, EntriesCover
<1>5. CASE left < Length(sg) - off
  <2>1. sg' = sg /\ off' = off + Chunk
    BY <1>4, <1>5 DEF advance_sg, Chunk, Lesser
  <2> QED
    BY <1>1, <1>3, <2>1, MovedWithinEntry
<1>6. CASE ~(left < Length(sg) - off)
  <2>1. sg' = sg + 1 /\ off' = 0 /\ Chunk = Length(sg) - off
    BY <1>4, <1>6 DEF advance_sg, Chunk, Lesser
  <2>2. /\ Cursor' = Cursor + Chunk /\ Chunk \in Nat /\ Chunk <= left
        /\ Cursor \in Nat
    BY <1>1, <2>1, Step
  <2>3. Cursor = Place(hostPos) - left
    BY <1>1 DEF PositionOK
  <2>4. PICK n \in Nat : n = Chunk
    BY <2>2
  <2>5. left' \in Nat /\ left' <= left /\ Cursor' = Place(hostPos) - left'
    BY <1>1, <2>2, <2>3, <2>4, Kinds
  <2>6. /\ Entries' = Entries /\ block_off' = block_off
        /\ Length(sg)' = Length(sg + 1)
        /\ Place(hostPos)' = Place(hostPos)
    BY <1>1, <2>1 DEF Entries, Length, devLen, block_off, Place, request
  <2>7. off' \in 0..(IF sg <= Entries THEN Length(sg) ELSE 0)'
    BY <1>4, <2>1, <2>6
  <2>8. PositionOK'
    BY <1>1, <1>4, <2>1, <2>5, <2>6, <2>7, Kinds, Sizes DEF PositionOK, request
  <2> QED
    BY <1>3, <2>8
<1> QED
  BY <1>5, <1>6

LEMMA InvNext == Inv /\ [Next]_vars => Inv'
<1> SUFFICES ASSUME Inv, [Next]_vars PROVE Inv'
  OBVIOUS
<1>1. CASE next_piece \/ walk_ends \/ piece_over \/ trailer_over
  BY <1>1, PieceSteps
<1>2. CASE next_span
  BY <1>2, SpanStep
<1>3. CASE next_entry
  BY <1>3, NextEntryStep
<1>4. CASE memcpy
  BY <1>4, MemcpyStep
<1>5. CASE span_over
  BY <1>5, SpanOverStep
<1>6. CASE zero_sg_bytes
  BY <1>6, ZeroStep
<1>7. CASE advance_sg
  BY <1>7, AdvanceStep
<1>8. CASE returned \/ UNCHANGED vars
  BY <1>8 DEF returned, vars, Inv, RequestOK, PositionOK, PackOK, UnpackOK,
              Cursor, Moved, Entries, Length, devLen, block_off, Place
<1> QED
  BY <1>1, <1>2, <1>3, <1>4, <1>5, <1>6, <1>7, <1>8 DEF Next

(***************************************************************************)
(* The invariant of the two walks holds in every state of every walk.      *)
(***************************************************************************)
THEOREM Walked == Spec => []Inv
  BY InvInit, InvNext, PTL DEF Spec

-----------------------------------------------------------------------------
LEMMA InvType == Inv => TypeOK
<1> SUFFICES ASSUME Inv PROVE TypeOK
  OBVIOUS
<1>1. /\ host \in [HostAddresses -> Byte]
      /\ bounce \in [DevAddresses -> Byte]
  <2>1. \A k \in HostAddresses : k \in Nat /\ Place(k) \in Nat
    BY PlaceIsNat DEF HostAddresses
  <2>2. ASSUME NEW a \in DevAddresses
        PROVE  a \in Nat /\ Expected(a) \in Byte
    <3>1. a \in Nat
      BY DEF DevAddresses
    <3>2. /\ a \div DevSectorSize \in Nat /\ a % DevSectorSize \in Nat
      BY <3>1, Sizes, Quotient
    <3>3. (a \div DevSectorSize) * HostSectorSize + (a % DevSectorSize) \in Nat
      BY <3>2, Sizes
    <3> QED
      BY <3>1, <3>3 DEF Expected, Byte
  <2>3. CASE dir = "pack"
    BY <2>1, <2>2, <2>3 DEF Inv, PackOK, Byte
  <2>4. CASE dir = "unpack"
    BY <2>1, <2>2, <2>4 DEF Inv, UnpackOK, Byte
  <2> QED
    BY <2>3, <2>4 DEF Inv, RequestOK
<1>2. left \in 0..Greater(len, Trailer)
  BY Kinds, Sizes DEF Inv, PositionOK, Greater
<1>3. pc = "copy" => /\ left <= len
                     /\ hostPos + len <= Lesser(pieceEnd, hostLen)
  BY DEF Inv, PositionOK, Lesser
<1> QED
  BY <1>1, <1>2, <1>3 DEF Inv, RequestOK, PositionOK, TypeOK

(***************************************************************************)
(* No difference of unsigned numbers in the walks is negative, and no      *)
(* offset is beyond the entry or the run it belongs to.                    *)
(***************************************************************************)
THEOREM PackTypes == Spec => []TypeOK
  BY Walked, InvType, PTL

(***************************************************************************)
(* Packing puts every byte of payload in its place, zeroes every trailer   *)
(* and writes nothing else, for every way to cut the host's buffer.        *)
(***************************************************************************)
THEOREM Packed == Spec => []PackedInPlace
<1>1. Inv => PackedInPlace
  <2> SUFFICES ASSUME Inv, dir = "pack", pc = "ok" PROVE PackedInPlace
    BY DEF PackedInPlace
  <2>1. hostLen = blocks * HostSectorSize /\ hostPos = hostLen
        /\ Cursor = Place(hostPos) /\ blocks \in 1..MaxHostSectors
    BY DEF Inv, RequestOK, PositionOK
  <2>2. PICK e \in Nat : /\ e = devLen /\ e = blocks * DevSectorSize
                         /\ e <= MaxHostSectors * DevSectorSize
    BY <2>1, EntriesCover DEF devLen
  <2>3. Cursor = e
    BY <2>1, <2>2, Kinds, PlaceWhole
  <2>4. bounce = [a \in DevAddresses |-> IF a < e THEN Expected(a) ELSE Foreign]
    BY <2>3 DEF Inv, PackOK
  <2>5. ASSUME NEW k \in 0..(hostLen - 1)
        PROVE  bounce[Place(k)] = k
    <3>1. k \in Nat /\ k < blocks * HostSectorSize
      BY <2>1, Kinds
    <3>2. Place(k) + (HostSectorSize - (k % HostSectorSize)) + Trailer
            <= blocks * DevSectorSize
      BY <3>1, Kinds, PlaceBound
    <3>3. PICK p \in Nat : p = Place(k)
      BY <3>1, PlaceIsNat
    <3>4. PICK c \in 0..(HostSectorSize - 1) : c = k % HostSectorSize
      BY <3>1, Sizes, Quotient
    <3>5. p < e
      BY <2>2, <3>2, <3>3, <3>4, Sizes
    <3>6. Expected(p + 0) = k + 0
      BY <3>1, <3>3, <3>4, Sizes, ExpectedPayload
    <3>7. p \in DevAddresses
      <4>1. MaxHostSectors * DevSectorSize \in Nat
        BY Sizes
      <4> QED
        BY <2>2, <3>5, <4>1 DEF DevAddresses
    <3> QED
      BY <2>4, <3>1, <3>3, <3>5, <3>6, <3>7
  <2>6. ASSUME NEW a \in DevAddresses
        PROVE  /\ a < devLen /\ a % DevSectorSize >= HostSectorSize
                    => bounce[a] = Zero
               /\ a >= devLen => bounce[a] = Foreign
    <3>1. a \in Nat
      BY DEF DevAddresses
    <3>2. PICK m \in 0..(DevSectorSize - 1) : m = a % DevSectorSize
      BY <3>1, Sizes, Quotient
    <3>3. m >= HostSectorSize => Expected(a) = Zero
      BY <3>2, Sizes DEF Expected
    <3> QED
      BY <2>2, <2>4, <3>1, <3>2, <3>3
  <2> QED
    BY <2>5, <2>6 DEF PackedInPlace
<1> QED
  BY <1>1, Walked, PTL

(***************************************************************************)
(* Unpacking gives the host every byte from its place, and overwrites no   *)
(* byte that was not asked for or that the host's list does not hold.      *)
(***************************************************************************)
THEOREM Unpacked == Spec => []UnpackedInPlace
<1>1. Inv => UnpackedInPlace
  <2> SUFFICES ASSUME Inv, dir = "unpack" PROVE UnpackedInPlace
    BY DEF UnpackedInPlace
  <2>1. host = [k \in HostAddresses |-> IF k < Moved THEN Place(k) ELSE Foreign]
    BY DEF Inv, UnpackOK
  <2>2. Moved \in Nat /\ Moved <= hostLen /\ Moved <= pieceEnd
    BY Kinds DEF Moved, Inv, PositionOK
  <2>3. pieceEnd \in cuts \cup {0}
    BY DEF Inv, PositionOK
  <2>4. ASSUME NEW k \in HostAddresses, host[k] # Foreign
        PROVE  k < hostLen /\ \E e \in cuts : k < e
    <3>1. k \in Nat /\ k < Moved
      BY <2>1, <2>4 DEF HostAddresses
    <3> QED
      BY <2>2, <2>3, <3>1, Kinds
  <2>5. ASSUME pc = "ok", NEW k \in 0..(hostLen - 1)
        PROVE  host[k] = Place(k)
    <3>1. Moved = hostLen
      BY <2>5 DEF Moved, Inv, PositionOK
    <3>2. k \in HostAddresses /\ k < Moved
      BY <2>2, <3>1, Kinds, Sizes DEF HostAddresses
    <3> QED
      BY <2>1, <3>2
  <2> QED
    BY <2>4, <2>5 DEF UnpackedInPlace
<1> QED
  BY <1>1, Walked, PTL

(***************************************************************************)
(* -EIO means that the host's list is shorter than the payload and nothing *)
(* else: the bounce list that was made for a request never runs out.       *)
(***************************************************************************)
THEOREM FailsShort == Spec => []FailsOnlyWhenShort
<1>1. Inv => FailsOnlyWhenShort
  BY Kinds DEF Inv, PositionOK, FailsOnlyWhenShort
<1> QED
  BY <1>1, Walked, PTL
=============================================================================
