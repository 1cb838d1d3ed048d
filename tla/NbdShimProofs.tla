--------------------------- MODULE NbdShimProofs ---------------------------
(***************************************************************************)
(* The shim for every sector size, disk, command limit and set of          *)
(* requests: what it stores is in its place, no write is lost while        *)
(* partial writes are apart, reads and flushes cover what was answered     *)
(* before, and the loops of pread and pwrite advance.                      *)
(***************************************************************************)
EXTENDS NbdShim, CommonFacts

-----------------------------------------------------------------------------
(***************************************************************************)
(* The inductive invariant.                                                *)
(***************************************************************************)
\* The byte of the disk, and of the command of request r, at sector and offset.
Place(s, j) == LogicalBS * s + j
RawPlace(r, i, j) == Place(Lba(r) + i - 1, j)

\* The bytes that the command of request r reads or writes.
InPayload(r, k) ==
  /\ req[r].offset + pos[r] <= k
  /\ k < req[r].offset + pos[r] + Take(r)

(***************************************************************************)
(* What is known of a request by where its thread is.  A request that was  *)
(* cut at MAX_BLOCKS goes on at the start of a sector.                     *)
(***************************************************************************)
ControlOf(r) ==
  /\ server # "up" => pc[r] = "idle"
  /\ pc[r] = "idle" => pos[r] = 0 /\ raw[r] = <<>> /\ out[r] = <<>>
  /\ pc[r] \in {"reading", "writing"} => Left(r) > 0 /\ Len(raw[r]) = Span(r)
  /\ pc[r] = "reading" => req[r].op = "pread" \/ ~WholeSectors(r)
  /\ pc[r] = "writing" => req[r].op = "pwrite"
  /\ pc[r] = "flushing" => req[r].op = "flush"
  /\ pc[r] = "ok" => Left(r) = 0
  /\ req[r].op = "pread" => Len(out[r]) = pos[r]
  /\ pos[r] = 0 \/ Left(r) = 0 \/ Skew(r) = 0
  /\ \A s \in seen[r] : Answered(s)

Control == \A r \in Requests : ControlOf(r)

\* Byte b is the original of place k or was written there by a started write.
Genuine(b, k) ==
  /\ b.at = k
  /\ b.by # NoRequest => Writes(b.by, k) /\ pc[b.by] # "idle"

\* A sector of the buffer of request r that its command or pwrite has filled.
Filled(r, i) ==
  /\ i \in 1..Len(raw[r])
  /\ pc[r] = "writing" \/ (pc[r] = "reading" /\ i <= moved[r])

DiskGenuine ==
  \A s \in Sectors, j \in InSector : Genuine(disk[s].data[j], Place(s, j))

BufferGenuine(r) ==
  /\ \A i \in 1..Len(raw[r]), j \in InSector :
       Filled(r, i) => Genuine(raw[r][i].data[j], RawPlace(r, i, j))
  /\ req[r].op = "pread" =>
       \A i \in 1..Len(out[r]) : Genuine(out[r][i], req[r].offset + i - 1)

GenuineBytes == DiskGenuine /\ \A r \in Requests : BufferGenuine(r)

\* A buffer that is being written holds the payload of its request.
MergedOf(r) ==
  pc[r] = "writing" =>
    \A i \in 1..Len(raw[r]), j \in InSector :
      InPayload(r, RawPlace(r, i, j))
        => raw[r][i].data[j] = Payload(r, RawPlace(r, i, j))

Merged == \A r \in Requests : MergedOf(r)

AllWhole == \A r \in Requests : req[r].op = "pwrite" => Whole(r)

\* While clients keep to the block size, only zeroed trailers are written.
ZeroTrailers ==
  AllWhole =>
    /\ \A s \in Sectors :
         (\E j \in InSector : disk[s].data[j].by # NoRequest) => disk[s].meta = "zero"
    /\ \A r \in Requests : pc[r] = "writing" =>
         \A i \in 1..Len(raw[r]) : raw[r][i].meta = "zero"

\* Write w has put its byte at sector s, offset j, on the disk.
Put(w, s, j) ==
  /\ Writes(w, Place(s, j))
  /\ \/ Place(s, j) < req[w].offset + pos[w]
     \/ pc[w] = "writing" /\ s < Lba(w) + moved[w]

\* A byte that was put is not replaced by that of an older write, ...
DiskKept ==
  \A w \in Requests, s \in Sectors, j \in InSector :
    Put(w, s, j) => NotOlder(disk[s].data[j], w)

\* ... and byte b at place k is not older than what request r must see.
Recent(r, b, k) ==
  \A w \in seen[r] : (pc[w] = "ok" /\ Writes(w, k)) => NotOlder(b, w)

BufferFresh(r) ==
  req[r].op = "pread" =>
    /\ \A i \in 1..Len(raw[r]), j \in InSector :
         pc[r] = "reading" /\ Filled(r, i)
           => Recent(r, raw[r][i].data[j], RawPlace(r, i, j))
    /\ \A i \in 1..Len(out[r]) : Recent(r, out[r][i], req[r].offset + i - 1)

StableKept ==
  \A f \in Requests : (req[f].op = "flush" /\ pc[f] = "ok") =>
    \A s \in Sectors, j \in InSector : Recent(f, stable[s].data[j], Place(s, j))

Kept == Apart => DiskKept /\ StableKept /\ \A r \in Requests : BufferFresh(r)

Inv == TypeOK /\ Control /\ GenuineBytes /\ Merged /\ ZeroTrailers /\ Kept

-----------------------------------------------------------------------------
(***************************************************************************)
(* Sectors, offsets and commands.                                          *)
(***************************************************************************)
LEMMA Sizes ==
  /\ LogicalBS \in Nat \ {0} /\ NSectors \in Nat \ {0} /\ MinBlocks \in Nat \ {0}
  /\ 0 \in InSector /\ LogicalBS * NSectors \in Nat
  BY ShimAssumption DEF InSector

\* A byte of the disk is at one offset of one sector.
LEMMA PlaceFacts ==
  ASSUME NEW s \in Nat, NEW j \in InSector
  PROVE  /\ Place(s, j) \in Nat
         /\ Place(s, j) \div LogicalBS = s /\ Place(s, j) % LogicalBS = j
         /\ \A n \in Nat : Place(s, j) < LogicalBS * n <=> s < n
         /\ s \in Sectors <=> Place(s, j) \in Bytes
<1>1. LogicalBS \in Nat \ {0} /\ NSectors \in Nat /\ j \in 0..(LogicalBS - 1)
  BY Sizes DEF InSector
<1>2. LogicalBS * s \in Nat
  BY <1>1
<1>3. Place(s, j) \in Nat
  BY <1>1, <1>2 DEF Place
<1>4. Place(s, j) \div LogicalBS = s /\ Place(s, j) % LogicalBS = j
  BY <1>1, <1>3, QuotientUnique DEF Place
<1>5. \A n \in Nat : Place(s, j) < LogicalBS * n <=> s < n
  BY <1>1, BelowMultiple DEF Place
<1>6. s \in Sectors <=> Place(s, j) \in Bytes
  <2>1. Place(s, j) < NSectors * LogicalBS <=> s < NSectors
    BY <1>1, <1>5
  <2> QED
    BY <1>1, <1>3, <2>1 DEF Sectors, Bytes
<1> QED
  BY <1>3, <1>4, <1>5, <1>6

LEMMA ByteFacts ==
  ASSUME NEW k \in Nat
  PROVE  /\ k \div LogicalBS \in Nat /\ k % LogicalBS \in InSector
         /\ k = Place(k \div LogicalBS, k % LogicalBS)
         /\ k \in Bytes => k \div LogicalBS \in Sectors
<1>1. /\ k \div LogicalBS \in Nat /\ k % LogicalBS \in InSector
      /\ k = Place(k \div LogicalBS, k % LogicalBS)
  BY Sizes, Quotient DEF InSector, Place
<1> QED
  BY <1>1, PlaceFacts

LEMMA ShapeFacts ==
  ASSUME TypeOK, NEW r \in Requests
  PROVE  /\ req[r].op \in {"pread", "pwrite", "flush"}
         /\ req[r].offset \in Nat /\ req[r].count \in Nat
         /\ req[r].offset + req[r].count <= LogicalBS * NSectors
         /\ req[r].count = 0 <=> req[r].op = "flush"
         /\ pos[r] \in Nat /\ pos[r] <= req[r].count
         /\ Left(r) \in Nat /\ Left(r) = req[r].count - pos[r]
         /\ req[r].offset + pos[r] \in Nat
<1>1. req[r] \in Shapes /\ pos[r] \in Nat /\ pos[r] <= req[r].count
  BY DEF TypeOK
<1>2. req[r] \in [op : {"pread", "pwrite", "flush"}, offset : Nat, count : Nat]
  BY <1>1, ShimAssumption
<1>3. /\ req[r].offset + req[r].count <= NSectors * LogicalBS
      /\ (req[r].count = 0) = (req[r].op = "flush")
  BY <1>1, ShimAssumption
<1>4. NSectors * LogicalBS = LogicalBS * NSectors
  BY Sizes
<1> QED
  BY <1>1, <1>2, <1>3, <1>4 DEF Left

(***************************************************************************)
(* The next command of a request that is not done: it has at least one     *)
(* sector and one byte of payload, ends on the disk, is cut at the end of  *)
(* a sector unless it is the last, and starts no sector behind the end of  *)
(* the request.                                                            *)
(***************************************************************************)
LEMMA CommandFacts ==
  ASSUME TypeOK, NEW r \in Requests, Left(r) > 0
  PROVE  /\ Lba(r) \in Nat /\ Skew(r) \in InSector
         /\ req[r].offset + pos[r] = LogicalBS * Lba(r) + Skew(r)
         /\ Span(r) \in Nat \ {0} /\ Span(r) <= MAX_BLOCKS
         /\ Lba(r) + Span(r) <= NSectors
         /\ Take(r) \in Nat \ {0} /\ Take(r) <= Left(r)
         /\ req[r].offset + pos[r] + Take(r) <= LogicalBS * (Lba(r) + Span(r))
         /\ \/ Take(r) = Left(r)
            \/ req[r].offset + pos[r] + Take(r) = LogicalBS * (Lba(r) + Span(r))
         /\ LogicalBS * (Lba(r) + Span(r))
              < req[r].offset + req[r].count + LogicalBS
<1> DEFINE B == LogicalBS
           o == req[r].offset + pos[r]
           n == Left(r) + Skew(r) + B - 1
           q == n \div B
<1>1. /\ B \in Nat \ {0} /\ NSectors \in Nat /\ MAX_BLOCKS \in Nat \ {0}
      /\ o \in Nat /\ Left(r) \in Nat \ {0} /\ o + Left(r) <= B * NSectors
  <2>1. MAX_BLOCKS \in Nat \ {0}
    BY DEF TypeOK
  <2>2. /\ o \in Nat /\ Left(r) \in Nat
        /\ o + Left(r) = req[r].offset + req[r].count
        /\ req[r].offset + req[r].count <= B * NSectors
    BY ShapeFacts
  <2> QED
    BY <2>1, <2>2, Sizes
<1>2. Lba(r) \in Nat /\ Skew(r) \in 0..(B - 1) /\ o = B * Lba(r) + Skew(r)
  BY <1>1, Quotient DEF Lba, Skew
<1>3. n \in Nat /\ n >= B
  BY <1>1, <1>2
<1>4. q \in Nat /\ B * q <= n /\ n < B * q + B
  BY <1>1, <1>3, DivFacts
<1>5. q # 0
  BY <1>1, <1>3, <1>4
<1>6. Span(r) = Smaller(MAX_BLOCKS, q)
  BY DEF Span
<1>7. Span(r) \in Nat \ {0} /\ Span(r) <= MAX_BLOCKS /\ Span(r) <= q
  BY <1>1, <1>4, <1>5, <1>6 DEF Smaller
<1> HIDE DEF q
<1>8. B * Span(r) <= B * q /\ B * Span(r) \in Nat /\ B * q \in Nat
      /\ B * Lba(r) \in Nat /\ B * Span(r) >= B
  <2>1. B * Span(r) <= B * q /\ B * Span(r) \in Nat /\ B * q \in Nat
    BY <1>1, <1>4, <1>7, MultiplesOrdered
  <2>2. B <= B * Span(r)
    BY <1>1, <1>7, PositiveMultiple
  <2>3. B * Lba(r) \in Nat
    BY <1>1, <1>2
  <2> QED
    BY <1>1, <2>1, <2>2, <2>3
<1>9. B * (Lba(r) + Span(r)) = B * Lba(r) + B * Span(r)
  BY <1>1, <1>2, <1>7
<1>10. Lba(r) + Span(r) <= NSectors
  <2>1. B * (Lba(r) + Span(r)) < B * NSectors + B
    BY <1>1, <1>2, <1>4, <1>8, <1>9
  <2>2. B * NSectors + B = B * (NSectors + 1)
    BY <1>1
  <2>3. 0 \in 0..(B - 1) /\ NSectors + 1 \in Nat /\ Lba(r) + Span(r) \in Nat
    BY <1>1, <1>2, <1>7
  <2>4. Lba(r) + Span(r) < NSectors + 1
    BY <1>1, <1>2, <1>7, <2>1, <2>2, <2>3, BelowMultiple
  <2> QED
    BY <1>1, <1>2, <1>7, <2>4
<1>11. Take(r) = Smaller(Left(r), B * Span(r) - Skew(r))
  BY <1>1, <1>7 DEF Take
<1>12. /\ Take(r) \in Nat \ {0} /\ Take(r) <= Left(r)
       /\ Take(r) <= B * Span(r) - Skew(r)
       /\ Take(r) = Left(r) \/ Take(r) = B * Span(r) - Skew(r)
  BY <1>1, <1>2, <1>8, <1>11 DEF Smaller
<1>13. B * (Lba(r) + Span(r)) < req[r].offset + req[r].count + B
  <2>1. o + Left(r) = req[r].offset + req[r].count /\ o + Left(r) \in Nat
    BY ShapeFacts
  <2>2. B * (Lba(r) + Span(r)) < o + Left(r) + B
    BY <1>1, <1>2, <1>4, <1>8, <1>9
  <2> QED
    BY <2>1, <2>2
<1> QED
  BY <1>1, <1>2, <1>7, <1>8, <1>9, <1>10, <1>12, <1>13 DEF InSector

\* The sectors of a command are on the disk.
LEMMA CommandSectors ==
  ASSUME TypeOK, NEW r \in Requests, Left(r) > 0, NEW i \in 1..Span(r)
  PROVE  Lba(r) + i - 1 \in Sectors
<1>1. /\ Lba(r) \in Nat /\ Span(r) \in Nat /\ Lba(r) + Span(r) <= NSectors
      /\ NSectors \in Nat
  BY CommandFacts, Sizes
<1> QED
  BY <1>1 DEF Sectors

(***************************************************************************)
(* The bytes of a sector of a command that are not payload belong to no    *)
(* byte of the request: the ones before were skipped by its offset, or     *)
(* there are none; the ones after lie behind its end.                      *)
(***************************************************************************)
LEMMA PayloadOrForeign ==
  ASSUME TypeOK, NEW r \in Requests, ControlOf(r), Left(r) > 0,
         NEW i \in 1..Span(r), NEW j \in InSector
  PROVE  Covers(r, RawPlace(r, i, j)) <=> InPayload(r, RawPlace(r, i, j))
<1> DEFINE s == Lba(r) + i - 1
           k == Place(s, j)
           B == LogicalBS
           o == req[r].offset + pos[r]
<1>1. /\ Lba(r) \in Nat /\ Skew(r) \in InSector /\ Span(r) \in Nat
      /\ o = B * Lba(r) + Skew(r) /\ Take(r) \in Nat
      /\ o + Take(r) <= B * (Lba(r) + Span(r))
      /\ \/ Take(r) = Left(r)
         \/ o + Take(r) = B * (Lba(r) + Span(r))
  BY CommandFacts
<1>2. /\ req[r].offset \in Nat /\ req[r].count \in Nat /\ pos[r] \in Nat
      /\ Left(r) = req[r].count - pos[r] /\ o \in Nat
  BY ShapeFacts
<1>3. s \in Nat /\ s < Lba(r) + Span(r) /\ Lba(r) + Span(r) \in Nat /\ Lba(r) <= s
  BY <1>1
<1>4. k \in Nat /\ k < B * (Lba(r) + Span(r))
  BY <1>3, PlaceFacts
<1>5. pos[r] = 0 \/ Skew(r) = 0
  BY <1>2 DEF ControlOf
<1>6. Skew(r) = 0 => o <= k
  <2>1. B * Lba(r) \in Nat /\ B * s \in Nat /\ B * Lba(r) <= B * s
    BY <1>1, <1>3, Sizes, MultiplesOrdered
  <2>2. j \in Nat /\ k = B * s + j
    BY Sizes DEF InSector, Place
  <2> QED
    BY <1>1, <2>1, <2>2
<1>7. ASSUME InPayload(r, k) PROVE Covers(r, k)
  <2>1. o <= k /\ k < o + Take(r) /\ Take(r) <= Left(r)
    BY <1>7, CommandFacts DEF InPayload
  <2> QED
    BY <1>1, <1>2, <1>4, <2>1 DEF Covers
<1>8. ASSUME Covers(r, k) PROVE InPayload(r, k)
  <2>1. req[r].offset <= k /\ k < req[r].offset + req[r].count
    BY <1>2, <1>4, <1>8 DEF Covers
  <2>2. o <= k
    BY <1>2, <1>5, <1>6, <2>1
  <2>3. k < o + Take(r)
    BY <1>1, <1>2, <1>4, <2>1
  <2> QED
    BY <2>2, <2>3 DEF InPayload
<1> QED
  BY <1>7, <1>8 DEF RawPlace

\* A sector that a byte of the request is in, and one of its commands moves.
LEMMA SectorOfRequest ==
  ASSUME TypeOK, NEW r \in Requests, NEW s \in Nat,
         req[r].offset < LogicalBS * s + LogicalBS,
         LogicalBS * s < req[r].offset + req[r].count
  PROVE  s \in SectorsOf(r)
<1> DEFINE last == req[r].offset + req[r].count - 1
<1>1. req[r].offset \in Nat /\ req[r].count \in Nat /\ LogicalBS \in Nat \ {0}
  BY ShapeFacts, Sizes
<1>2. LogicalBS * s \in Nat
  BY <1>1
<1>3. last \in Nat /\ LogicalBS * s <= last
  BY <1>1, <1>2
<1>4. req[r].offset \div LogicalBS <= s
  BY <1>1, DivBound
<1>5. s <= last \div LogicalBS
  BY <1>1, <1>3, QuotientReaches
<1>6. req[r].offset \div LogicalBS \in Nat /\ last \div LogicalBS \in Nat
  BY <1>1, <1>3, DivFacts
<1> QED
  BY <1>4, <1>5, <1>6 DEF SectorsOf

LEMMA CoveredSector ==
  ASSUME TypeOK, NEW r \in Requests, NEW s \in Nat, NEW j \in InSector,
         Covers(r, Place(s, j))
  PROVE  s \in SectorsOf(r)
<1>1. /\ req[r].offset \in Nat /\ req[r].count \in Nat
      /\ LogicalBS \in Nat \ {0} /\ LogicalBS * s \in Nat
      /\ j \in Nat /\ j < LogicalBS /\ Place(s, j) \in Nat
  BY ShapeFacts, PlaceFacts, Sizes DEF InSector
<1>2. req[r].offset <= Place(s, j) /\ Place(s, j) < req[r].offset + req[r].count
  BY <1>1 DEF Covers
<1>3. Place(s, j) = LogicalBS * s + j
  BY DEF Place
<1> QED
  BY <1>1, <1>2, <1>3, SectorOfRequest

LEMMA CommandSector ==
  ASSUME TypeOK, NEW r \in Requests, Left(r) > 0, NEW i \in 1..Span(r)
  PROVE  Lba(r) + i - 1 \in SectorsOf(r)
<1> DEFINE B == LogicalBS
           s == Lba(r) + i - 1
<1>1. /\ Lba(r) \in Nat /\ Span(r) \in Nat /\ Skew(r) \in Nat /\ Skew(r) < B
      /\ req[r].offset + pos[r] = B * Lba(r) + Skew(r)
      /\ B * (Lba(r) + Span(r)) < req[r].offset + req[r].count + B
      /\ B \in Nat \ {0}
      /\ req[r].offset \in Nat /\ req[r].count \in Nat /\ pos[r] \in Nat
  BY CommandFacts, ShapeFacts, Sizes DEF InSector
<1>2. s \in Nat /\ Lba(r) <= s /\ s < Lba(r) + Span(r) /\ Lba(r) + Span(r) \in Nat
  BY <1>1
<1> HIDE DEF s
<1>3. /\ B * Lba(r) <= B * s /\ B * s \in Nat /\ B * Lba(r) \in Nat
      /\ B * s + B <= B * (Lba(r) + Span(r)) /\ B * (Lba(r) + Span(r)) \in Nat
  BY <1>1, <1>2, MultiplesOrdered, MultiplesApart
<1>4. req[r].offset < B * s + B /\ B * s < req[r].offset + req[r].count
  BY <1>1, <1>3
<1>5. s \in SectorsOf(r)
  BY <1>2, <1>4, SectorOfRequest
<1> QED
  BY <1>5 DEF s

\* Each byte of payload is in a sector of its command.
LEMMA PayloadPlace ==
  ASSUME TypeOK, NEW r \in Requests, Left(r) > 0, NEW s \in Sectors, NEW j \in InSector,
         InPayload(r, Place(s, j))
  PROVE  /\ s < Lba(r) + Span(r)
         /\ s - Lba(r) + 1 \in 1..Span(r)
         /\ RawPlace(r, s - Lba(r) + 1, j) = Place(s, j)
<1> DEFINE k == Place(s, j)
           B == LogicalBS
           o == req[r].offset + pos[r]
<1>1. /\ Lba(r) \in Nat /\ Skew(r) \in InSector /\ Span(r) \in Nat /\ o \in Nat
      /\ o = B * Lba(r) + Skew(r) /\ Take(r) \in Nat
      /\ o + Take(r) <= B * (Lba(r) + Span(r))
  BY CommandFacts, ShapeFacts
<1>2. s \in Nat /\ k \in Nat /\ Lba(r) + Span(r) \in Nat
      /\ B * (Lba(r) + Span(r)) \in Nat /\ B * Lba(r) \in Nat
  <2>1. s \in Nat /\ k \in Nat
    BY PlaceFacts, Sizes DEF Sectors
  <2>2. Lba(r) + Span(r) \in Nat /\ Lba(r) <= Lba(r) + Span(r)
    BY <1>1
  <2> QED
    BY <1>1, <2>1, <2>2, Sizes, MultiplesOrdered
<1>3. o <= k /\ k < o + Take(r)
  BY DEF InPayload
<1>4. s < Lba(r) + Span(r)
  <2>1. k < B * (Lba(r) + Span(r))
    BY <1>1, <1>2, <1>3
  <2> QED
    BY <1>2, <2>1, PlaceFacts
<1>5. ~(s < Lba(r))
  <2>1. ~(k < B * Lba(r))
    BY <1>1, <1>2, <1>3 DEF InSector
  <2> QED
    BY <1>1, <1>2, <2>1, PlaceFacts
<1>6. Lba(r) + (s - Lba(r) + 1) - 1 = s
  BY <1>1, <1>2
<1> QED
  BY <1>1, <1>2, <1>4, <1>5, <1>6 DEF RawPlace

-----------------------------------------------------------------------------
(***************************************************************************)
(* What pwrite lays over sectors and what pread takes out of them.         *)
(***************************************************************************)
LEMMA SectorParts ==
  ASSUME NEW t \in Sector, NEW j \in InSector
  PROVE  t.data \in [InSector -> Byte] /\ t.data[j] \in Byte /\ t.meta \in {"device", "zero"}
<1>1. t.data \in [InSector -> Byte] /\ t.meta \in {"device", "zero"}
  BY DEF Sector
<1> QED
  BY <1>1

LEMMA BlankSector == Zeroes \in Sector /\ Zeroes.meta = "zero"
  BY DEF Zeroes, Sector, Blank, Payload, Byte

LEMMA MergedFacts ==
  ASSUME TypeOK, NEW r \in Requests, Left(r) > 0,
         NEW sectors \in Seq(Sector), Len(sectors) = Span(r)
  PROVE  /\ merged(r, sectors) \in Seq(Sector) /\ Len(merged(r, sectors)) = Span(r)
         /\ \A i \in 1..Span(r) :
              /\ merged(r, sectors)[i].meta = sectors[i].meta
              /\ \A j \in InSector :
                   merged(r, sectors)[i].data[j] =
                     IF InPayload(r, RawPlace(r, i, j))
                       THEN Payload(r, RawPlace(r, i, j)) ELSE sectors[i].data[j]
<1> DEFINE B == LogicalBS
           o == req[r].offset + pos[r]
           new(i, j) == LET k == (i - 1) * B + j - Skew(r)
                        IN  IF k \in 0..(Take(r) - 1)
                              THEN Payload(r, o + k) ELSE sectors[i].data[j]
           m(i) == [sectors[i] EXCEPT !.data = [j \in InSector |-> new(i, j)]]
<1>1. /\ Lba(r) \in Nat /\ Skew(r) \in Nat /\ Span(r) \in Nat /\ Take(r) \in Nat
      /\ o = B * Lba(r) + Skew(r) /\ o \in Nat /\ B \in Nat
  BY CommandFacts, ShapeFacts, Sizes DEF InSector
<1>2. ASSUME NEW i \in 1..Span(r), NEW j \in InSector
      PROVE  new(i, j) = IF InPayload(r, RawPlace(r, i, j))
                           THEN Payload(r, RawPlace(r, i, j)) ELSE sectors[i].data[j]
  <2>1. j \in Nat /\ i \in Int
    BY <1>1, Sizes DEF InSector
  <2> DEFINE x == B * (i - 1)
             p == B * Lba(r)
  <2>2. RawPlace(r, i, j) = p + x + j /\ (i - 1) * B = x /\ x \in Int /\ p \in Int
    BY <1>1, <2>1 DEF RawPlace, Place
  <2> HIDE DEF x, p
  <2>3. o + (x + j - Skew(r)) = RawPlace(r, i, j)
    BY <1>1, <2>1, <2>2 DEF p
  <2>4. x + j - Skew(r) \in 0..(Take(r) - 1) <=> InPayload(r, RawPlace(r, i, j))
    <3> DEFINE k == x + j - Skew(r)
    <3>1. k \in Int /\ RawPlace(r, i, j) = o + k
      BY <1>1, <2>1, <2>2, <2>3
    <3>2. InPayload(r, o + k) <=> o <= o + k /\ o + k < o + Take(r)
      BY DEF InPayload
    <3> HIDE DEF k, o
    <3>3. k \in 0..(Take(r) - 1) <=> o <= o + k /\ o + k < o + Take(r)
      BY <1>1, <3>1
    <3> QED
      BY <3>1, <3>2, <3>3 DEF k
  <2> QED
    BY <2>2, <2>3, <2>4
<1>3. ASSUME NEW i \in 1..Span(r), NEW j \in InSector PROVE new(i, j) \in Byte
  <2>1. sectors[i] \in Sector
    OBVIOUS
  <2>2. sectors[i].data[j] \in Byte
    BY <2>1, SectorParts
  <2>3. Lba(r) + i - 1 \in Sectors
    BY CommandSectors
  <2>4. RawPlace(r, i, j) \in Bytes
    BY <2>3, PlaceFacts DEF RawPlace, Sectors
  <2>5. Payload(r, RawPlace(r, i, j)) \in Byte
    BY <2>4 DEF Payload, Byte
  <2> HIDE DEF new
  <2> QED
    BY <1>2, <2>2, <2>5
<1> HIDE DEF new
<1>4. ASSUME NEW i \in 1..Span(r)
      PROVE  /\ m(i) \in Sector /\ m(i).meta = sectors[i].meta
             /\ \A j \in InSector : m(i).data[j] = new(i, j)
  <2>1. sectors[i] \in Sector
    OBVIOUS
  <2>2. [j \in InSector |-> new(i, j)] \in [InSector -> Byte]
    BY <1>3
  <2> QED
    BY <2>1, <2>2 DEF Sector
<1>5. merged(r, sectors) = [i \in 1..Span(r) |-> m(i)]
  BY DEF merged, new
<1> HIDE DEF m
<1>6. merged(r, sectors) \in [1..Span(r) -> Sector]
  BY <1>4, <1>5
<1>7. merged(r, sectors) \in Seq(Sector) /\ Len(merged(r, sectors)) = Span(r)
  BY <1>1, <1>6
<1> QED
  BY <1>2, <1>4, <1>5, <1>7

\* What pread takes out of the sectors it has read is its payload, in order.
LEMMA StrippedFacts ==
  ASSUME TypeOK, NEW r \in Requests, Left(r) > 0, Len(raw[r]) = Span(r)
  PROVE  /\ stripped(r) \in Seq(Byte) /\ Len(stripped(r)) = Take(r)
         /\ \A n \in 1..Take(r) : \E i \in 1..Span(r), j \in InSector :
              /\ stripped(r)[n] = raw[r][i].data[j]
              /\ RawPlace(r, i, j) = req[r].offset + pos[r] + n - 1
<1> DEFINE B == LogicalBS
           o == req[r].offset + pos[r]
           b(n) == n - 1 + Skew(r)
           byte(n) == raw[r][(b(n) \div B) + 1].data[b(n) % B]
<1>1. /\ Lba(r) \in Nat /\ Skew(r) \in Nat /\ Span(r) \in Nat /\ Take(r) \in Nat
      /\ o = B * Lba(r) + Skew(r) /\ o \in Nat /\ B \in Nat \ {0}
      /\ o + Take(r) <= B * (Lba(r) + Span(r))
      /\ raw[r] \in Seq(Sector)
  <2>1. raw[r] \in Seq(Sector)
    BY DEF TypeOK
  <2> QED
    BY <2>1, CommandFacts, ShapeFacts, Sizes DEF InSector
<1>2. ASSUME NEW n \in 1..Take(r)
      PROVE  \E i \in 1..Span(r), j \in InSector :
               /\ byte(n) = raw[r][i].data[j]
               /\ RawPlace(r, i, j) = o + n - 1
               /\ raw[r][i].data[j] \in Byte
  <2> DEFINE q == b(n) \div B
             j == b(n) % B
  <2>1. b(n) \in Nat
    BY <1>1
  <2>2. q \in Nat /\ j \in InSector /\ b(n) = B * q + j
    BY <1>1, <2>1, Quotient DEF InSector
  <2> HIDE DEF q, j
  <2> DEFINE x == B * Span(r)
             p == B * Lba(r)
             t == o + Take(r)
  <2>3. t <= p + x /\ o = p + Skew(r) /\ x \in Nat /\ p \in Nat
    <3>1. B * (Lba(r) + Span(r)) = p + x /\ x \in Nat /\ p \in Nat
      BY <1>1
    <3> QED
      BY <1>1, <3>1
  <2>4. Skew(r) \in Nat /\ Take(r) \in Nat /\ n <= Take(r) /\ n \in Nat
    BY <1>1
  <2> HIDE DEF x, p
  <2>5. b(n) < x
    BY <2>3, <2>4
  <2>6. q + 1 \in 1..Span(r)
    <3>1. q < Span(r)
      BY <1>1, <2>2, <2>5, BelowMultiple DEF InSector, x
    <3> QED
      BY <1>1, <2>2, <3>1
  <2>7. RawPlace(r, q + 1, j) = o + n - 1
    <3>1. Lba(r) + (q + 1) - 1 = Lba(r) + q
      BY <1>1, <2>2
    <3> DEFINE y == B * q
    <3>2. B * (Lba(r) + q) = p + y /\ y \in Nat
      BY <1>1, <2>2 DEF p
    <3>3. j \in Nat /\ b(n) = y + j
      BY <1>1, <2>2 DEF InSector
    <3> HIDE DEF y
    <3>4. p + y + j = o + n - 1
      BY <2>3, <2>4, <3>2, <3>3
    <3> QED
      BY <3>1, <3>2, <3>4 DEF RawPlace, Place
  <2>8. raw[r][q + 1] \in Sector
    BY <1>1, <2>6
  <2>9. raw[r][q + 1].data[j] \in Byte
    BY <2>2, <2>8, SectorParts
  <2> QED
    BY <2>2, <2>6, <2>7, <2>9 DEF q, j
<1>3. stripped(r) = [n \in 1..Take(r) |-> byte(n)]
  BY DEF stripped
<1> HIDE DEF byte
<1>4. stripped(r) \in [1..Take(r) -> Byte]
  BY <1>2, <1>3
<1>5. stripped(r) \in Seq(Byte) /\ Len(stripped(r)) = Take(r)
  BY <1>1, <1>4, SMTT(30)
<1> QED
  BY <1>2, <1>3, <1>5

(***************************************************************************)
(* Clients that keep to the block size: whole commands only.               *)
(***************************************************************************)
LEMMA WholeCommands ==
  ASSUME TypeOK, NEW r \in Requests, ControlOf(r), Left(r) > 0, Whole(r)
  PROVE  WholeSectors(r)
<1> DEFINE B == LogicalBS
           o == req[r].offset + pos[r]
           n == Left(r)
<1>1. /\ Lba(r) \in Nat /\ Skew(r) \in 0..(B - 1) /\ Span(r) \in Nat \ {0}
      /\ o = B * Lba(r) + Skew(r) /\ B \in Nat \ {0}
      /\ MAX_BLOCKS \in Nat \ {0} /\ n \in Nat \ {0}
      /\ req[r].offset \in Nat /\ req[r].count \in Nat /\ pos[r] \in Nat
      /\ o + n = req[r].offset + req[r].count
  <2>1. MAX_BLOCKS \in Nat \ {0}
    BY DEF TypeOK
  <2> QED
    BY <2>1, CommandFacts, ShapeFacts, Sizes DEF InSector
<1>2. Skew(r) = 0
  <2>1. pos[r] = 0 => Skew(r) = 0
    BY <1>1 DEF Skew, Whole
  <2> QED
    BY <1>1, <2>1 DEF ControlOf
<1>3. PICK a \in Nat : req[r].offset = B * a
  BY <1>1, ExactMultiple DEF Whole
<1>4. PICK c \in Nat : req[r].count = B * c
  BY <1>1, ExactMultiple DEF Whole
<1>5. B * (a + c) = B * a + B * c /\ B * (a + c) \in Nat /\ B * Lba(r) \in Nat
      /\ a + c \in Nat
  BY <1>1
<1>6. n = B * (a + c) - B * Lba(r) /\ B * Lba(r) < B * (a + c)
  BY <1>1, <1>2, <1>3, <1>4, <1>5
<1>7. ~(a + c <= Lba(r))
  <2>1. a + c <= Lba(r) => B * (a + c) <= B * Lba(r)
    BY <1>1, <1>5, MultiplesOrdered
  <2> QED
    BY <1>5, <1>6, <2>1
<1>8. PICK m \in Nat : a + c = Lba(r) + m
  <2>1. a + c - Lba(r) \in Nat /\ a + c = Lba(r) + (a + c - Lba(r))
    BY <1>1, <1>5, <1>7
  <2> QED
    BY <2>1
<1>9. n = B * m /\ B * m \in Nat
  <2>1. B * (Lba(r) + m) = B * Lba(r) + B * m /\ B * m \in Nat
    BY <1>1
  <2> QED
    BY <1>5, <1>6, <1>8, <2>1
<1>10. (n + Skew(r) + B - 1) \div B = m
  <2>1. n + Skew(r) + B - 1 = B * m + (B - 1) /\ n + Skew(r) + B - 1 \in Nat
        /\ B - 1 \in 0..(B - 1)
    BY <1>1, <1>2, <1>9
  <2> QED
    BY <1>1, <2>1, QuotientUnique
<1>11. Span(r) <= m /\ Span(r) = Smaller(MAX_BLOCKS, m)
  BY <1>1, <1>10 DEF Span, Smaller
<1>12. B * Span(r) <= B * m /\ B * Span(r) \in Nat /\ Span(r) * B = B * Span(r)
  BY <1>1, <1>11, MultiplesOrdered
<1>13. Take(r) = Smaller(n, Span(r) * B - Skew(r))
  BY DEF Take
<1>14. Take(r) = Span(r) * B
  BY <1>1, <1>2, <1>9, <1>12, <1>13 DEF Smaller
<1> QED
  BY <1>2, <1>14 DEF WholeSectors

\* Every byte of the sectors of a whole command is payload.
LEMMA WholePayload ==
  ASSUME TypeOK, NEW r \in Requests, Left(r) > 0, WholeSectors(r),
         NEW i \in 1..Span(r), NEW j \in InSector
  PROVE  InPayload(r, RawPlace(r, i, j))
<1> DEFINE B == LogicalBS
           o == req[r].offset + pos[r]
           s == Lba(r) + i - 1
<1>1. /\ Lba(r) \in Nat /\ Span(r) \in Nat /\ Skew(r) = 0 /\ Take(r) = Span(r) * B
      /\ o = B * Lba(r) + Skew(r) /\ B \in Nat \ {0}
  BY CommandFacts, Sizes DEF WholeSectors
<1>2. s \in Nat /\ Lba(r) <= s /\ s < Lba(r) + Span(r) /\ Lba(r) + Span(r) \in Nat
  BY <1>1
<1>3. Place(s, j) \in Nat /\ Place(s, j) < B * (Lba(r) + Span(r))
  BY <1>2, PlaceFacts
<1>4. o <= Place(s, j)
  <2>1. B * Lba(r) <= B * s /\ B * s \in Nat /\ B * Lba(r) \in Nat
    BY <1>1, <1>2, MultiplesOrdered
  <2>2. j \in Nat
    BY Sizes DEF InSector
  <2> QED
    BY <1>1, <2>1, <2>2 DEF Place
<1>5. o + Take(r) = B * (Lba(r) + Span(r))
  BY <1>1
<1> QED
  BY <1>3, <1>4, <1>5 DEF InPayload, RawPlace

LEMMA ReplacedSector ==
  ASSUME NEW q \in Seq(Sector), NEW n \in 1..Len(q), NEW t \in Sector
  PROVE  /\ [q EXCEPT ![n] = t] \in Seq(Sector)
         /\ Len([q EXCEPT ![n] = t]) = Len(q)
         /\ [q EXCEPT ![n] = t][n] = t
         /\ \A i \in 1..Len(q) : i # n => [q EXCEPT ![n] = t][i] = q[i]
OBVIOUS

LEMMA Concatenated ==
  ASSUME NEW p \in Seq(Byte), NEW q \in Seq(Byte)
  PROVE  /\ Len(p \o q) = Len(p) + Len(q)
         /\ \A n \in 1..Len(p) : (p \o q)[n] = p[n]
         /\ \A n \in 1..(Len(p) + Len(q)) : n > Len(p) => (p \o q)[n] = q[n - Len(p)]
OBVIOUS

-----------------------------------------------------------------------------
(***************************************************************************)
(* The steps.                                                              *)
(***************************************************************************)
\* A step of one request leaves the others as they are.
Untouched(s) ==
  /\ pc'[s] = pc[s] /\ pos'[s] = pos[s] /\ raw'[s] = raw[s]
  /\ moved'[s] = moved[s] /\ out'[s] = out[s] /\ seen'[s] = seen[s]

LEMMA OwnStep ==
  ASSUME TypeOK, NEW r \in Requests, start(r) \/ Advance(r)
  PROVE  /\ server' = server /\ MAX_BLOCKS' = MAX_BLOCKS /\ req' = req
         /\ \A s \in Requests \ {r} : Untouched(s)
         /\ pc[r] # "idle" => pc'[r] # "idle" /\ seen'[r] = seen[r]
         /\ ~Answered(r)
<1> USE DEF TypeOK, Untouched, plugin, Answered
<1>1. CASE start(r)
  BY <1>1 DEF start
<1>2. CASE issue_read(r) \/ issue_whole_write(r) \/ issue_flush(r)
  BY <1>2 DEF issue_read, issue_whole_write, issue_flush
<1>3. CASE read_sector(r) \/ write_sector(r)
  BY <1>3 DEF read_sector, write_sector
<1>4. CASE pread_next(r) \/ pwrite_modify(r) \/ pwrite_next(r)
  BY <1>4 DEF pread_next, pwrite_modify, pwrite_next
<1>5. CASE synchronize(r) \/ scsi_error(r) \/ finish(r)
  BY <1>5 DEF synchronize, scsi_error, finish
<1> QED
  BY <1>1, <1>2, <1>3, <1>4, <1>5 DEF Advance

LEMMA InitialByte ==
  ASSUME NEW s \in Sectors, NEW j \in InSector
  PROVE  /\ s * LogicalBS + j = Place(s, j) /\ Place(s, j) \in Bytes
         /\ Payload(NoRequest, Place(s, j)) \in Byte
<1>1. s \in Nat /\ s * LogicalBS = LogicalBS * s
  BY Sizes DEF Sectors
<1>2. Place(s, j) \in Bytes
  BY <1>1, PlaceFacts
<1> QED
  BY <1>1, <1>2 DEF Place, Payload, Byte

LEMMA TypeInit == Init => TypeOK
<1> SUFFICES ASSUME Init PROVE TypeOK
  OBVIOUS
<1>1. disk \in [Sectors -> Sector]
  <2> SUFFICES ASSUME NEW s \in Sectors
               PROVE  [data |-> [j \in InSector |-> Payload(NoRequest, s * LogicalBS + j)],
                       meta |-> "device"] \in Sector
    BY DEF Init
  <2>1. \A j \in InSector : Payload(NoRequest, s * LogicalBS + j) \in Byte
    BY InitialByte
  <2> QED
    BY <2>1 DEF Sector
<1>2. stable = disk /\ req \in [Requests -> Shapes]
  BY DEF Init
<1>3. \A r \in Requests : req[r].count \in Nat
  BY <1>2, ShimAssumption
<1>4. <<>> \in Seq(Sector) /\ <<>> \in Seq(Byte) /\ Len(<<>>) = 0
  OBVIOUS
<1>5. MAX_BLOCKS \in Nat \ {0} /\ faults \in 0..MaxFaults /\ server = "starting"
  BY ShimAssumption DEF Init
<1>6. /\ pos \in [Requests -> Nat] /\ moved \in [Requests -> Nat]
      /\ raw \in [Requests -> Seq(Sector)] /\ out \in [Requests -> Seq(Byte)]
      /\ \A r \in Requests : pos[r] = 0 /\ moved[r] = 0 /\ Len(raw[r]) = 0
  BY <1>4 DEF Init
<1>7. /\ pc \in [Requests -> Locations] /\ seen \in [Requests -> SUBSET Requests]
      /\ reserve \in [Requests -> ThreadReserves \cup {NoDescriptor}]
  BY DEF Init, Locations
<1> QED
  BY <1>1, <1>2, <1>3, <1>5, <1>6, <1>7 DEF TypeOK

LEMMA TypeStep ==
  ASSUME TypeOK, NEW r \in Requests, start(r) \/ Advance(r),
         disk' \in [Sectors -> Sector], stable' \in [Sectors -> Sector],
         pc' \in [Requests -> Locations], pos' \in [Requests -> Nat],
         moved' \in [Requests -> Nat], raw' \in [Requests -> Seq(Sector)],
         out' \in [Requests -> Seq(Byte)],
         reserve' \in [Requests -> ThreadReserves \cup {NoDescriptor}],
         faults' \in 0..MaxFaults, seen' \in [Requests -> SUBSET Requests],
         pos'[r] <= req[r].count, moved'[r] <= Len(raw'[r]), Len(raw'[r]) <= MAX_BLOCKS
  PROVE  TypeOK'
<1>1. /\ server' = server /\ MAX_BLOCKS' = MAX_BLOCKS /\ req' = req
      /\ \A s \in Requests \ {r} : Untouched(s)
  BY OwnStep
<1>2. \A s \in Requests :
        pos'[s] <= req[s].count /\ moved'[s] <= Len(raw'[s]) /\ Len(raw'[s]) <= MAX_BLOCKS
  BY <1>1 DEF TypeOK, Untouched
<1> QED
  BY <1>1, <1>2 DEF TypeOK

LEMMA TypeNext == TypeOK /\ Control /\ [Next]_vars => TypeOK'
<1> SUFFICES ASSUME TypeOK, Control, [Next]_vars PROVE TypeOK'
  OBVIOUS
<1> USE DEF Locations, plugin
<1>1. CASE config_complete
  <2>1. \A r \in Requests : Len(raw[r]) = 0
    BY <1>1 DEF config_complete, Control, ControlOf
  <2>2. MAX_BLOCKS' \in Nat \ {0}
    <3>1. \A rsv \in ConfigReserves : rsv \div PhysBS \in Nat
      BY ShimAssumption, DivFacts
    <3> QED
      BY <1>1, <3>1, ShimAssumption DEF config_complete, Larger, TypeOK
  <2> QED
    BY <1>1, <2>1, <2>2 DEF config_complete, TypeOK
<1>2. ASSUME NEW r \in Requests, start(r) PROVE TypeOK'
  <2>1. /\ pc' \in [Requests -> Locations] /\ seen' \in [Requests -> SUBSET Requests]
        /\ UNCHANGED <<disk, stable, pos, raw, moved, out, reserve, faults>>
    BY <1>2 DEF start, TypeOK
  <2> QED
    BY <1>2, <2>1, TypeStep DEF TypeOK
<1>3. ASSUME NEW r \in Requests, issue_read(r) \/ issue_whole_write(r) PROVE TypeOK'
  <2>1. Left(r) > 0 /\ Span(r) \in Nat /\ Span(r) <= MAX_BLOCKS
    BY <1>3, CommandFacts DEF issue_read, issue_whole_write
  <2> DEFINE blank == [i \in 1..Span(r) |-> Zeroes]
  <2>2. blank \in Seq(Sector) /\ Len(blank) = Span(r)
    BY <2>1, BlankSector
  <2>3. \E q \in Seq(Sector) : Len(q) = Span(r) /\ raw' = [raw EXCEPT ![r] = q]
    <3>1. CASE issue_read(r)
      BY <2>2, <3>1 DEF issue_read
    <3>2. CASE issue_whole_write(r)
      BY <2>1, <2>2, <3>2, MergedFacts DEF issue_whole_write
    <3> QED
      BY <1>3, <3>1, <3>2
  <2>4. raw' \in [Requests -> Seq(Sector)] /\ Len(raw'[r]) = Span(r)
    BY <2>3 DEF TypeOK
  <2>5. /\ moved' = [moved EXCEPT ![r] = 0]
        /\ \E l \in {"reading", "writing"} : pc' = [pc EXCEPT ![r] = l]
        /\ UNCHANGED <<disk, stable, pos, out, faults, seen>>
    BY <1>3, Zenon DEF issue_read, issue_whole_write
  <2>6. reserve' \in [Requests -> ThreadReserves \cup {NoDescriptor}]
    <3>1. get_fd(r)
      BY <1>3, Zenon DEF issue_read, issue_whole_write
    <3>2. \/ reserve' = reserve
          \/ \E n \in ThreadReserves : reserve' = [reserve EXCEPT ![r] = n]
      BY <3>1 DEF get_fd
    <3>3. reserve \in [Requests -> ThreadReserves \cup {NoDescriptor}]
      BY DEF TypeOK
    <3> QED
      BY <3>2, <3>3
  <2>7. pc' \in [Requests -> Locations] /\ moved' \in [Requests -> Nat]
        /\ moved'[r] = 0 /\ pos'[r] <= req[r].count
    BY <2>5 DEF TypeOK
  <2>8. moved'[r] <= Len(raw'[r]) /\ Len(raw'[r]) <= MAX_BLOCKS
    BY <2>1, <2>4, <2>7
  <2>9. Advance(r)
    BY <1>3 DEF Advance
  <2> QED
    BY <2>4, <2>5, <2>6, <2>7, <2>8, <2>9, TypeStep DEF TypeOK
<1>4. ASSUME NEW r \in Requests, read_sector(r) PROVE TypeOK'
  <2>1. /\ Left(r) > 0 /\ moved[r] < Span(r) /\ Span(r) \in Nat
        /\ Len(raw[r]) = Span(r) /\ moved[r] \in Nat
    BY <1>4, CommandFacts DEF read_sector, Control, ControlOf, TypeOK
  <2>2. moved[r] + 1 \in 1..Span(r) /\ Lba(r) + (moved[r] + 1) - 1 = Lba(r) + moved[r]
    BY <2>1, CommandFacts
  <2>3. disk[Lba(r) + moved[r]] \in Sector
    <3>1. Lba(r) + moved[r] \in Sectors
      BY <2>1, <2>2, CommandSectors
    <3> QED
      BY <3>1 DEF TypeOK
  <2>4. raw' = [raw EXCEPT ![r] = [raw[r] EXCEPT ![moved[r] + 1] = disk[Lba(r) + moved[r]]]]
    BY <1>4 DEF read_sector
  <2>5. raw[r] \in Seq(Sector)
    BY DEF TypeOK
  <2>6. raw' \in [Requests -> Seq(Sector)] /\ Len(raw'[r]) = Span(r)
    BY <2>1, <2>2, <2>3, <2>4, <2>5, ReplacedSector DEF TypeOK
  <2>7. /\ moved' = [moved EXCEPT ![r] = moved[r] + 1]
        /\ UNCHANGED <<disk, stable, pc, pos, out, reserve, faults, seen>>
    BY <1>4 DEF read_sector
  <2>8. moved' \in [Requests -> Nat] /\ moved'[r] = moved[r] + 1
        /\ pos'[r] <= req[r].count
    BY <2>7 DEF TypeOK
  <2>9. moved'[r] <= Len(raw'[r]) /\ Len(raw'[r]) <= MAX_BLOCKS
    BY <2>1, <2>6, <2>8 DEF TypeOK
  <2>10. Advance(r)
    BY <1>4 DEF Advance
  <2> QED
    BY <2>6, <2>7, <2>8, <2>9, <2>10, TypeStep DEF TypeOK
<1>5. ASSUME NEW r \in Requests, pread_next(r) \/ pwrite_next(r) PROVE TypeOK'
  <2>1. Left(r) > 0 /\ Len(raw[r]) = Span(r)
    BY <1>5 DEF pread_next, pwrite_next, Control, ControlOf
  <2>2. /\ Take(r) \in Nat /\ pos[r] \in Nat
        /\ pos[r] + Take(r) <= req[r].count
    BY <2>1, CommandFacts, ShapeFacts
  <2>3. out' \in [Requests -> Seq(Byte)]
    <3>1. stripped(r) \in Seq(Byte) /\ out[r] \in Seq(Byte)
      BY <2>1, StrippedFacts DEF TypeOK
    <3>2. out[r] \o stripped(r) \in Seq(Byte)
      BY <3>1
    <3>3. out' = out \/ out' = [out EXCEPT ![r] = out[r] \o stripped(r)]
      BY <1>5 DEF pread_next, pwrite_next
    <3> QED
      BY <3>2, <3>3 DEF TypeOK
  <2>4. /\ pc' \in [Requests -> Locations] /\ pos' = [pos EXCEPT ![r] = pos[r] + Take(r)]
        /\ UNCHANGED <<disk, stable, raw, moved, reserve, faults, seen>>
    <3>1. /\ pc' = [pc EXCEPT ![r] = "next"] /\ pos' = [pos EXCEPT ![r] = pos[r] + Take(r)]
          /\ UNCHANGED <<disk, stable, raw, moved, reserve, faults, seen>>
      BY <1>5, Zenon DEF pread_next, pwrite_next
    <3>2. pc' \in [Requests -> Locations]
      BY <3>1 DEF TypeOK, Locations
    <3> QED
      BY <3>1, <3>2
  <2>5. pos' \in [Requests -> Nat] /\ pos'[r] <= req[r].count
    BY <2>2, <2>4 DEF TypeOK
  <2> QED
    BY <1>5, <2>3, <2>4, <2>5, TypeStep DEF TypeOK, Advance
<1>6. ASSUME NEW r \in Requests, pwrite_modify(r) PROVE TypeOK'
  <2>1. Left(r) > 0 /\ Len(raw[r]) = Span(r)
    BY <1>6 DEF pwrite_modify, Control, ControlOf
  <2>2. raw[r] \in Seq(Sector) /\ Span(r) \in Nat /\ Span(r) <= MAX_BLOCKS
    BY <2>1, CommandFacts DEF TypeOK
  <2>3. merged(r, raw[r]) \in Seq(Sector) /\ Len(merged(r, raw[r])) = Span(r)
    BY <2>1, <2>2, MergedFacts
  <2>4. /\ pc' \in [Requests -> Locations] /\ moved' = [moved EXCEPT ![r] = 0]
        /\ raw' = [raw EXCEPT ![r] = merged(r, raw[r])]
        /\ UNCHANGED <<disk, stable, pos, out, reserve, faults, seen>>
    BY <1>6 DEF pwrite_modify, TypeOK
  <2>5. raw' \in [Requests -> Seq(Sector)] /\ Len(raw'[r]) = Span(r)
    BY <2>3, <2>4 DEF TypeOK
  <2>6. moved' \in [Requests -> Nat] /\ moved'[r] = 0 /\ pos'[r] <= req[r].count
    BY <2>4 DEF TypeOK
  <2>7. moved'[r] <= Len(raw'[r]) /\ Len(raw'[r]) <= MAX_BLOCKS
    BY <2>2, <2>5, <2>6
  <2>8. Advance(r)
    BY <1>6 DEF Advance
  <2> QED
    BY <2>4, <2>5, <2>6, <2>7, <2>8, TypeStep DEF TypeOK
<1>7. ASSUME NEW r \in Requests, write_sector(r) PROVE TypeOK'
  <2>1. /\ Left(r) > 0 /\ moved[r] < Span(r) /\ Span(r) \in Nat
        /\ Len(raw[r]) = Span(r) /\ moved[r] \in Nat
    BY <1>7, CommandFacts DEF write_sector, Control, ControlOf, TypeOK
  <2>2. raw[r][moved[r] + 1] \in Sector
    <3>1. raw[r] \in Seq(Sector) /\ moved[r] + 1 \in 1..Len(raw[r])
      BY <2>1 DEF TypeOK
    <3> QED
      BY <3>1
  <2>3. disk' \in [Sectors -> Sector]
    BY <1>7, <2>2 DEF write_sector, TypeOK
  <2>4. /\ moved' = [moved EXCEPT ![r] = moved[r] + 1]
        /\ UNCHANGED <<stable, pc, pos, raw, out, reserve, faults, seen>>
    BY <1>7 DEF write_sector
  <2>5. moved' \in [Requests -> Nat] /\ moved'[r] = moved[r] + 1
        /\ pos'[r] <= req[r].count
    BY <2>4 DEF TypeOK
  <2>6. moved'[r] <= Len(raw'[r]) /\ Len(raw'[r]) <= MAX_BLOCKS
    BY <2>1, <2>4, <2>5 DEF TypeOK
  <2>7. Advance(r)
    BY <1>7 DEF Advance
  <2> QED
    BY <2>3, <2>4, <2>5, <2>6, <2>7, TypeStep DEF TypeOK
<1>8. ASSUME NEW r \in Requests,
             issue_flush(r) \/ synchronize(r) \/ scsi_error(r) \/ finish(r)
      PROVE  TypeOK'
  <2>1. /\ pc' \in [Requests -> Locations] /\ stable' \in [Sectors -> Sector]
        /\ UNCHANGED <<disk, pos, raw, moved, out, seen>>
    BY <1>8 DEF issue_flush, synchronize, scsi_error, finish, TypeOK
  <2>2. reserve' \in [Requests -> ThreadReserves \cup {NoDescriptor}]
    <3>1. \/ reserve' = reserve
          \/ \E n \in ThreadReserves : reserve' = [reserve EXCEPT ![r] = n]
      BY <1>8 DEF issue_flush, synchronize, scsi_error, finish, get_fd
    <3> QED
      BY <3>1 DEF TypeOK
  <2>3. faults' \in 0..MaxFaults
    <3>1. faults' = faults \/ (faults < MaxFaults /\ faults' = faults + 1)
      <4>1. issue_flush(r) \/ synchronize(r) \/ finish(r) => faults' = faults
        BY DEF issue_flush, synchronize, finish
      <4>2. scsi_error(r) => faults' = faults \/ (faults < MaxFaults /\ faults' = faults + 1)
        BY DEF scsi_error
      <4> QED
        BY <1>8, <4>1, <4>2
    <3> QED
      BY <3>1, ShimAssumption DEF TypeOK
  <2> QED
    BY <1>8, <2>1, <2>2, <2>3, TypeStep DEF TypeOK, Advance
<1>9. CASE UNCHANGED vars
  BY <1>9 DEF vars, TypeOK
<1> QED
  BY <1>1, <1>2, <1>3, <1>4, <1>5, <1>6, <1>7, <1>8, <1>9 DEF Next, Advance, Over

-----------------------------------------------------------------------------
(***************************************************************************)
(* The control of the requests.                                            *)
(***************************************************************************)
\* The command of a request depends on where the request is only.
LEMMA SameCommand ==
  ASSUME NEW s, req' = req, MAX_BLOCKS' = MAX_BLOCKS, pos'[s] = pos[s]
  PROVE  /\ Left(s)' = Left(s) /\ Lba(s)' = Lba(s) /\ Skew(s)' = Skew(s)
         /\ Span(s)' = Span(s) /\ Take(s)' = Take(s)
         /\ WholeSectors(s)' = WholeSectors(s)
         /\ \A k : InPayload(s, k)' = InPayload(s, k)
         /\ \A i, j : RawPlace(s, i, j)' = RawPlace(s, i, j)
BY DEF Left, Lba, Skew, Span, Take, WholeSectors, InPayload, RawPlace, Place

LEMMA AnsweredStays ==
  ASSUME TypeOK, [Next]_vars, NEW s \in Requests, Answered(s)
  PROVE  pc'[s] = pc[s] /\ seen'[s] = seen[s]
<1>1. ASSUME NEW r \in Requests, start(r) \/ Advance(r)
      PROVE  pc'[s] = pc[s] /\ seen'[s] = seen[s]
  BY <1>1, OwnStep DEF Untouched
<1>2. CASE config_complete \/ UNCHANGED vars
  BY <1>2 DEF config_complete, vars
<1> QED
  BY <1>1, <1>2 DEF Next, Over

LEMMA ControlInit == Init => Control
<1> SUFFICES ASSUME Init, NEW r \in Requests PROVE ControlOf(r)
  BY DEF Control
<1>1. /\ pc[r] = "idle" /\ pos[r] = 0 /\ raw[r] = <<>> /\ out[r] = <<>>
      /\ seen[r] = {} /\ Len(<<>>) = 0
  BY DEF Init
<1> QED
  BY <1>1 DEF ControlOf

LEMMA ControlNext == TypeOK /\ Control /\ [Next]_vars => Control'
<1> SUFFICES ASSUME TypeOK, Control, [Next]_vars, NEW s \in Requests
             PROVE  ControlOf(s)'
  BY DEF Control
<1>1. ControlOf(s)
  BY DEF Control
<1>2. ASSUME server' = server, MAX_BLOCKS' = MAX_BLOCKS, req' = req, Untouched(s)
      PROVE  ControlOf(s)'
  <2>1. \A t \in seen[s] : t \in Requests /\ Answered(t)
    BY <1>1 DEF ControlOf, TypeOK
  <2>2. \A t \in seen'[s] : Answered(t)'
    BY <1>2, <2>1, AnsweredStays DEF Untouched, Answered
  <2> QED
    BY <1>1, <1>2, <2>2, SameCommand DEF ControlOf, Untouched
<1>3. CASE config_complete
  <2>1. /\ pc'[s] = "idle" /\ pos'[s] = 0 /\ raw'[s] = <<>> /\ out'[s] = <<>>
        /\ UNCHANGED <<req, seen, pc>> /\ Len(<<>>) = 0
    BY <1>1, <1>3 DEF config_complete, ControlOf
  <2>2. \A t \in seen'[s] : Answered(t)'
    BY <1>1, <2>1 DEF ControlOf, Answered
  <2> QED
    BY <2>1, <2>2 DEF ControlOf
<1>4. ASSUME NEW r \in Requests, start(r) \/ Advance(r) PROVE ControlOf(s)'
  <2>1. server' = server /\ MAX_BLOCKS' = MAX_BLOCKS /\ req' = req
    BY <1>4, OwnStep
  <2>2. CASE s # r
    BY <1>2, <1>4, <2>1, <2>2, OwnStep
  <2>3. CASE s = r
    <3>1. server = "up"
      BY <1>1, <1>4, <2>3 DEF ControlOf, start, Advance, issue_read,
         issue_whole_write, read_sector, pread_next, pwrite_modify, write_sector,
         pwrite_next, issue_flush, synchronize, scsi_error, finish
    <3>2. seen'[s] = seen[s] \/ seen'[s] = {t \in Requests : Answered(t)}
      BY <1>4, <2>3, OwnStep DEF start, TypeOK, Advance, issue_read,
         issue_whole_write, read_sector, pread_next, pwrite_modify, write_sector,
         pwrite_next, issue_flush, synchronize, scsi_error, finish
    <3>3. \A t \in seen'[s] : Answered(t)'
      <4>1. \A t \in seen'[s] : t \in Requests /\ Answered(t)
        BY <1>1, <3>2 DEF ControlOf, TypeOK
      <4> QED
        BY <4>1, AnsweredStays DEF Answered
    <3> DEFINE SameRaw == UNCHANGED <<pos, raw, out>>
    <3>4. SameRaw => /\ Left(s)' = Left(s) /\ Span(s)' = Span(s) /\ Skew(s)' = Skew(s)
                     /\ WholeSectors(s)' = WholeSectors(s)
      BY <2>1, SameCommand
    <3>5. CASE start(r) \/ issue_flush(r) \/ synchronize(r) \/ scsi_error(r) \/ finish(r)
               \/ write_sector(r)
      <4>1. SameRaw
        BY <3>5 DEF start, issue_flush, synchronize, scsi_error, finish, write_sector
      <4>2. /\ pc[s] # "idle" => pc'[s] # "idle"
            /\ pc'[s] \in {"next", "flushing", "ok", "error", pc[s]}
            /\ pc'[s] # "idle"
            /\ pc'[s] = "ok" => req[s].op = "flush" \/ Left(s) = 0
            /\ pc'[s] = "flushing" => req[s].op = "flush"
        BY <1>1, <2>3, <3>5 DEF start, issue_flush, synchronize, scsi_error, finish,
           write_sector, TypeOK, ControlOf
      <4>3. req[s].op = "flush" => Left(s) = 0
        BY ShapeFacts
      <4> QED
        BY <1>1, <2>1, <3>1, <3>3, <3>4, <4>1, <4>2, <4>3 DEF ControlOf
    <3>6. CASE issue_read(r) \/ issue_whole_write(r) \/ read_sector(r) \/ pwrite_modify(r)
      <4>1. UNCHANGED <<pos, out>>
        BY <3>6 DEF issue_read, issue_whole_write, read_sector, pwrite_modify
      <4>2. /\ Left(s)' = Left(s) /\ Span(s)' = Span(s) /\ Skew(s)' = Skew(s)
            /\ WholeSectors(s)' = WholeSectors(s)
        BY <2>1, <4>1, SameCommand
      <4>3. Left(s) > 0 /\ Span(s) \in Nat
        BY <1>1, <2>3, <3>6, CommandFacts DEF issue_read, issue_whole_write, read_sector,
           pwrite_modify, ControlOf
      <4>4. Len(raw'[s]) = Span(s)
        <5>1. CASE issue_read(r)
          <6>1. raw'[s] = [i \in 1..Span(s) |-> Zeroes]
            BY <2>3, <5>1 DEF issue_read, TypeOK
          <6> QED
            BY <4>3, <6>1
        <5>2. CASE issue_whole_write(r)
          <6> DEFINE blank == [i \in 1..Span(s) |-> Zeroes]
          <6>1. raw'[s] = merged(s, blank)
            BY <2>3, <5>2 DEF issue_whole_write, TypeOK
          <6>2. blank \in Seq(Sector) /\ Len(blank) = Span(s)
            BY <4>3, BlankSector
          <6> QED
            BY <4>3, <6>1, <6>2, MergedFacts
        <5>3. CASE read_sector(r)
          <6>1. /\ raw'[s] = [raw[s] EXCEPT ![moved[s] + 1] = disk[Lba(s) + moved[s]]]
                /\ Len(raw[s]) = Span(s) /\ raw[s] \in Seq(Sector)
            BY <1>1, <2>3, <5>3 DEF read_sector, TypeOK, ControlOf
          <6> QED
            BY <6>1
        <5>4. CASE pwrite_modify(r)
          <6>1. /\ raw'[s] = merged(s, raw[s])
                /\ Len(raw[s]) = Span(s) /\ raw[s] \in Seq(Sector)
            BY <1>1, <2>3, <5>4 DEF pwrite_modify, TypeOK, ControlOf
          <6> QED
            BY <4>3, <6>1, MergedFacts
        <5> QED
          BY <3>6, <5>1, <5>2, <5>3, <5>4
      <4>5. /\ pc'[s] \in {"reading", "writing"}
            /\ pc'[s] = "reading" => req[s].op = "pread" \/ ~WholeSectors(s)
            /\ pc'[s] = "writing" => req[s].op = "pwrite"
        BY <1>1, <2>3, <3>6 DEF issue_read, issue_whole_write, read_sector, pwrite_modify,
           TypeOK, ControlOf
      <4> QED
        BY <1>1, <2>1, <3>1, <3>3, <4>1, <4>2, <4>3, <4>4, <4>5 DEF ControlOf
    <3>7. CASE pread_next(r) \/ pwrite_next(r)
      <4> DEFINE o == req[s].offset + pos[s]
                 B == LogicalBS
      <4>1. Left(s) > 0 /\ Len(raw[s]) = Span(s)
        BY <1>1, <2>3, <3>7 DEF pread_next, pwrite_next, ControlOf
      <4>2. pos'[s] = pos[s] + Take(s) /\ pc'[s] = "next"
        BY <2>3, <3>7 DEF pread_next, pwrite_next, TypeOK
      <4>3. Left(s)' = 0 \/ Skew(s)' = 0
        <5>1. /\ Take(s) = Left(s)
                 \/ o + Take(s) = B * (Lba(s) + Span(s))
              /\ Lba(s) + Span(s) \in Nat /\ Take(s) \in Nat
          BY <4>1, CommandFacts
        <5>2. Left(s)' = req[s].count - (pos[s] + Take(s))
              /\ Skew(s)' = (req[s].offset + (pos[s] + Take(s))) % B
          BY <2>1, <4>2 DEF Left, Skew
        <5>3. pos[s] \in Nat /\ req[s].count \in Nat /\ req[s].offset \in Nat
              /\ Left(s) = req[s].count - pos[s]
          BY ShapeFacts
        <5>4. CASE Take(s) = Left(s)
          BY <5>2, <5>3, <5>4
        <5>5. CASE o + Take(s) = B * (Lba(s) + Span(s))
          <6>1. req[s].offset + (pos[s] + Take(s)) \in Nat
                /\ req[s].offset + (pos[s] + Take(s)) = B * (Lba(s) + Span(s)) + 0
                /\ 0 \in 0..(B - 1) /\ B \in Nat \ {0}
            BY <5>1, <5>3, <5>5, Sizes
          <6> QED
            BY <5>1, <5>2, <6>1, QuotientUnique
        <5> QED
          BY <5>1, <5>4, <5>5
      <4>4. req[s].op = "pread" => Len(out'[s]) = pos'[s]
        <5>1. CASE pread_next(r)
          <6>1. /\ stripped(s) \in Seq(Byte) /\ out[s] \in Seq(Byte)
                /\ Len(stripped(s)) = Take(s)
            BY <4>1, StrippedFacts DEF TypeOK
          <6>2. out'[s] = out[s] \o stripped(s)
            BY <2>3, <5>1 DEF pread_next, TypeOK
          <6>3. Len(out'[s]) = Len(out[s]) + Take(s)
            BY <6>1, <6>2, SMTT(30)
          <6> QED
            BY <1>1, <4>2, <6>3 DEF ControlOf
        <5>2. CASE pwrite_next(r)
          BY <1>1, <2>3, <5>2 DEF pwrite_next, ControlOf
        <5> QED
          BY <3>7, <5>1, <5>2
      <4> QED
        BY <1>1, <2>1, <3>1, <3>3, <4>2, <4>3, <4>4 DEF ControlOf
    <3> QED
      BY <1>4, <3>5, <3>6, <3>7 DEF Advance
  <2> QED
    BY <2>2, <2>3
<1>5. CASE UNCHANGED vars
  <2>1. server' = server /\ MAX_BLOCKS' = MAX_BLOCKS /\ req' = req /\ Untouched(s)
    BY <1>5 DEF vars, plugin, Untouched
  <2> QED
    BY <1>2, <2>1
<1> QED
  BY <1>3, <1>4, <1>5 DEF Next, Over

-----------------------------------------------------------------------------
(***************************************************************************)
(* The steps that move bytes.                                              *)
(***************************************************************************)
\* The buffer of a write, before its command.
LEMMA BufferMerged ==
  ASSUME TypeOK, Control, NEW r \in Requests, issue_whole_write(r) \/ pwrite_modify(r)
  PROVE  /\ Left(r) > 0 /\ req[r].op = "pwrite" /\ pc'[r] = "writing"
         /\ pos' = pos /\ moved'[r] = 0
         /\ UNCHANGED <<disk, stable, out, seen>>
         /\ Len(raw'[r]) = Span(r)
         /\ \A i \in 1..Span(r) :
              /\ \/ pc[r] = "next" /\ WholeSectors(r) /\ raw'[r][i].meta = "zero"
                 \/ Filled(r, i) /\ pc[r] = "reading"
              /\ \A j \in InSector :
                   IF InPayload(r, RawPlace(r, i, j))
                     THEN raw'[r][i].data[j] = Payload(r, RawPlace(r, i, j))
                     ELSE Filled(r, i) /\ raw'[r][i].data[j] = raw[r][i].data[j]
<1>1. ControlOf(r)
  BY DEF Control
<1>2. /\ Left(r) > 0 /\ req[r].op = "pwrite" /\ pc'[r] = "writing"
      /\ pos' = pos /\ moved'[r] = 0
      /\ UNCHANGED <<disk, stable, out, seen>>
  BY <1>1 DEF issue_whole_write, pwrite_modify, ControlOf, TypeOK
<1>3. CASE issue_whole_write(r)
  <2> DEFINE blank == [i \in 1..Span(r) |-> Zeroes]
  <2>1. Span(r) \in Nat
    BY <1>2, CommandFacts
  <2>2. blank \in Seq(Sector) /\ Len(blank) = Span(r)
        /\ \A i \in 1..Span(r) : blank[i] = Zeroes
    BY <2>1, BlankSector
  <2>3. raw'[r] = merged(r, blank) /\ pc[r] = "next" /\ WholeSectors(r)
    BY <1>3 DEF issue_whole_write, TypeOK
  <2> HIDE DEF blank
  <2>4. \A i \in 1..Span(r), j \in InSector : InPayload(r, RawPlace(r, i, j))
    BY <1>2, <2>3, WholePayload
  <2>5. /\ Len(raw'[r]) = Span(r)
        /\ \A i \in 1..Span(r) :
             /\ raw'[r][i].meta = blank[i].meta
             /\ \A j \in InSector : raw'[r][i].data[j] = Payload(r, RawPlace(r, i, j))
    BY <1>2, <2>2, <2>3, <2>4, MergedFacts
  <2>6. \A i \in 1..Span(r) : raw'[r][i].meta = "zero"
    BY <2>2, <2>5, BlankSector
  <2> QED
    BY <1>2, <2>3, <2>4, <2>5, <2>6
<1>4. CASE pwrite_modify(r)
  <2>1. /\ pc[r] = "reading" /\ moved[r] = Span(r) /\ raw'[r] = merged(r, raw[r])
        /\ Len(raw[r]) = Span(r) /\ raw[r] \in Seq(Sector)
    BY <1>1, <1>4 DEF pwrite_modify, TypeOK, ControlOf
  <2>2. Span(r) \in Nat
    BY <1>2, CommandFacts
  <2>3. \A i \in 1..Span(r) : Filled(r, i)
    BY <2>1, <2>2 DEF Filled
  <2>4. /\ Len(raw'[r]) = Span(r)
        /\ \A i \in 1..Span(r), j \in InSector :
             raw'[r][i].data[j] = IF InPayload(r, RawPlace(r, i, j))
                                    THEN Payload(r, RawPlace(r, i, j))
                                    ELSE raw[r][i].data[j]
    BY <1>2, <2>1, MergedFacts
  <2> QED
    BY <1>2, <2>1, <2>3, <2>4
<1> QED
  BY <1>3, <1>4

\* The next sector of a read, from the disk.
LEMMA SectorRead ==
  ASSUME TypeOK, Control, NEW r \in Requests, read_sector(r)
  PROVE  /\ pc[r] = "reading" /\ pc' = pc /\ pos' = pos
         /\ UNCHANGED <<disk, stable, out, seen>>
         /\ moved[r] + 1 \in 1..Span(r) /\ moved[r] \in Nat /\ moved'[r] = moved[r] + 1
         /\ Lba(r) + moved[r] \in Sectors
         /\ Len(raw'[r]) = Len(raw[r])
         /\ raw'[r][moved[r] + 1] = disk[Lba(r) + moved[r]]
         /\ \A j \in InSector : RawPlace(r, moved[r] + 1, j) = Place(Lba(r) + moved[r], j)
         /\ \A i \in 1..Len(raw[r]) : i # moved[r] + 1 => raw'[r][i] = raw[r][i]
<1>1. /\ Left(r) > 0 /\ moved[r] < Span(r) /\ moved[r] \in Nat
      /\ Len(raw[r]) = Span(r) /\ raw[r] \in Seq(Sector)
  BY DEF read_sector, Control, ControlOf, TypeOK
<1>2. Span(r) \in Nat /\ Lba(r) \in Nat
  BY <1>1, CommandFacts
<1>3. moved[r] + 1 \in 1..Span(r) /\ Lba(r) + (moved[r] + 1) - 1 = Lba(r) + moved[r]
  BY <1>1, <1>2
<1>4. Lba(r) + moved[r] \in Sectors
  BY <1>1, <1>3, CommandSectors
<1>5. disk[Lba(r) + moved[r]] \in Sector
  BY <1>4 DEF TypeOK
<1>6. raw'[r] = [raw[r] EXCEPT ![moved[r] + 1] = disk[Lba(r) + moved[r]]]
  BY DEF read_sector, TypeOK
<1>7. /\ pc[r] = "reading" /\ pc' = pc /\ pos' = pos
      /\ UNCHANGED <<disk, stable, out, seen>> /\ moved'[r] = moved[r] + 1
  BY DEF read_sector, TypeOK
<1>8. \A j \in InSector : RawPlace(r, moved[r] + 1, j) = Place(Lba(r) + moved[r], j)
  BY <1>3 DEF RawPlace
<1> QED
  BY <1>1, <1>3, <1>4, <1>5, <1>6, <1>7, <1>8, ReplacedSector

\* The next sector of a write, to the disk.
LEMMA SectorWritten ==
  ASSUME TypeOK, Control, NEW r \in Requests, write_sector(r)
  PROVE  /\ pc[r] = "writing" /\ pc' = pc /\ pos' = pos /\ Left(r) > 0
         /\ UNCHANGED <<stable, raw, out, seen>>
         /\ moved[r] + 1 \in 1..Span(r) /\ moved[r] \in Nat /\ moved'[r] = moved[r] + 1
         /\ Lba(r) + moved[r] \in Sectors /\ Lba(r) \in Nat
         /\ Filled(r, moved[r] + 1)
         /\ \A j \in InSector : RawPlace(r, moved[r] + 1, j) = Place(Lba(r) + moved[r], j)
         /\ disk'[Lba(r) + moved[r]] = raw[r][moved[r] + 1]
         /\ \A s \in Sectors : s # Lba(r) + moved[r] => disk'[s] = disk[s]
<1>1. /\ Left(r) > 0 /\ moved[r] < Span(r) /\ moved[r] \in Nat
      /\ Len(raw[r]) = Span(r) /\ pc[r] = "writing"
  BY DEF write_sector, Control, ControlOf, TypeOK
<1>2. Span(r) \in Nat /\ Lba(r) \in Nat
  BY <1>1, CommandFacts
<1>3. moved[r] + 1 \in 1..Span(r) /\ Lba(r) + (moved[r] + 1) - 1 = Lba(r) + moved[r]
  BY <1>1, <1>2
<1>4. Lba(r) + moved[r] \in Sectors
  BY <1>1, <1>3, CommandSectors
<1>5. disk' = [disk EXCEPT ![Lba(r) + moved[r]] = raw[r][moved[r] + 1]]
  BY DEF write_sector
<1>6. /\ disk'[Lba(r) + moved[r]] = raw[r][moved[r] + 1]
      /\ \A s \in Sectors : s # Lba(r) + moved[r] => disk'[s] = disk[s]
  BY <1>4, <1>5 DEF TypeOK
<1>7. pc' = pc /\ pos' = pos /\ UNCHANGED <<stable, raw, out, seen>> /\ moved'[r] = moved[r] + 1
  BY DEF write_sector, TypeOK
<1>8. \A j \in InSector : RawPlace(r, moved[r] + 1, j) = Place(Lba(r) + moved[r], j)
  BY <1>3 DEF RawPlace
<1> QED
  BY <1>1, <1>2, <1>3, <1>4, <1>6, <1>7, <1>8 DEF Filled

\* What pread has gathered after a command.
LEMMA BytesGathered ==
  ASSUME TypeOK, Control, NEW r \in Requests, pread_next(r)
  PROVE  /\ req[r].op = "pread" /\ pc[r] = "reading" /\ pc'[r] = "next"
         /\ UNCHANGED <<disk, stable, raw, seen>>
         /\ \A n \in 1..Len(out'[r]) :
              \/ n \in 1..Len(out[r]) /\ out'[r][n] = out[r][n]
              \/ \E i \in 1..Len(raw[r]), j \in InSector :
                   /\ Filled(r, i) /\ out'[r][n] = raw[r][i].data[j]
                   /\ RawPlace(r, i, j) = req[r].offset + n - 1
<1>1. ControlOf(r)
  BY DEF Control
<1>2. /\ Left(r) > 0 /\ Len(raw[r]) = Span(r) /\ moved[r] = Span(r)
      /\ req[r].op = "pread" /\ Len(out[r]) = pos[r]
      /\ pc[r] = "reading" /\ pc'[r] = "next"
      /\ UNCHANGED <<disk, stable, raw, seen>>
  BY <1>1 DEF pread_next, ControlOf, TypeOK
<1>3. out'[r] = out[r] \o stripped(r) /\ out[r] \in Seq(Byte)
  BY DEF pread_next, TypeOK
<1>4. /\ stripped(r) \in Seq(Byte) /\ Len(stripped(r)) = Take(r)
      /\ \A n \in 1..Take(r) : \E i \in 1..Span(r), j \in InSector :
           /\ stripped(r)[n] = raw[r][i].data[j]
           /\ RawPlace(r, i, j) = req[r].offset + pos[r] + n - 1
  BY <1>2, StrippedFacts
<1>5. pos[r] \in Nat /\ Take(r) \in Nat /\ req[r].offset \in Nat /\ Span(r) \in Nat
  BY <1>2, CommandFacts, ShapeFacts
<1>6. /\ Len(out'[r]) = pos[r] + Take(r)
      /\ \A n \in 1..pos[r] : out'[r][n] = out[r][n]
      /\ \A n \in 1..(pos[r] + Take(r)) : n > pos[r] => out'[r][n] = stripped(r)[n - pos[r]]
  <2> DEFINE p == out[r]
             q == stripped(r)
  <2>1. p \in Seq(Byte) /\ q \in Seq(Byte) /\ Len(p) = pos[r] /\ Len(q) = Take(r)
    BY <1>2, <1>3, <1>4
  <2> HIDE DEF p, q
  <2>2. /\ Len(p \o q) = pos[r] + Take(r)
        /\ \A n \in 1..pos[r] : (p \o q)[n] = p[n]
        /\ \A n \in 1..(pos[r] + Take(r)) : n > pos[r] => (p \o q)[n] = q[n - pos[r]]
    <3>1. /\ Len(p \o q) = Len(p) + Len(q)
          /\ \A n \in 1..Len(p) : (p \o q)[n] = p[n]
          /\ \A n \in 1..(Len(p) + Len(q)) : n > Len(p) => (p \o q)[n] = q[n - Len(p)]
      BY <2>1, Concatenated, Zenon
    <3> QED
      BY <2>1, <3>1, Zenon
  <2> QED
    BY <1>3, <2>2, Zenon DEF p, q
<1>7. \A i \in 1..Span(r) : Filled(r, i)
  BY <1>2, <1>5 DEF Filled
<1>8. ASSUME NEW n \in 1..Len(out'[r]), ~(n \in 1..Len(out[r]))
      PROVE  \E i \in 1..Len(raw[r]), j \in InSector :
               /\ Filled(r, i) /\ out'[r][n] = raw[r][i].data[j]
               /\ RawPlace(r, i, j) = req[r].offset + n - 1
  <2>1. n - pos[r] \in 1..Take(r) /\ n > pos[r] /\ n \in 1..(pos[r] + Take(r))
    BY <1>2, <1>5, <1>6, <1>8
  <2>2. PICK i \in 1..Span(r), j \in InSector :
          /\ stripped(r)[n - pos[r]] = raw[r][i].data[j]
          /\ RawPlace(r, i, j) = req[r].offset + pos[r] + (n - pos[r]) - 1
    BY <1>4, <2>1
  <2>3. req[r].offset + pos[r] + (n - pos[r]) - 1 = req[r].offset + n - 1
    BY <1>5, <2>1, SMTT(30)
  <2> QED
    BY <1>2, <1>6, <1>7, <2>1, <2>2, <2>3
<1> QED
  BY <1>2, <1>6, <1>8

\* What most steps do to a request: they fill no sector and gather no byte.
Quiet(s) ==
  /\ out'[s] = out[s]
  /\ \A i : Filled(s, i)' => /\ Filled(s, i) /\ pc'[s] = pc[s]
                             /\ raw'[s] = raw[s] /\ pos'[s] = pos[s]

LEMMA QuietSteps ==
  ASSUME TypeOK, [Next]_vars
  PROVE  /\ req' = req
         /\ \A s \in Requests : pc[s] # "idle" => pc'[s] # "idle"
         /\ \A s \in Requests :
              \/ Quiet(s)
              \/ read_sector(s) \/ pread_next(s) \/ issue_whole_write(s) \/ pwrite_modify(s)
         /\ disk' = disk \/ \E r \in Requests : write_sector(r)
         /\ stable' = stable \/ \E r \in Requests : synchronize(r)
<1>1. ASSUME NEW s \in Requests, Untouched(s) PROVE Quiet(s)
  BY <1>1 DEF Untouched, Quiet, Filled
<1>2. CASE config_complete \/ UNCHANGED vars
  <2>1. /\ UNCHANGED <<disk, stable, req, pc, pos, raw, moved, out, seen>>
    BY <1>2 DEF config_complete, vars
  <2> QED
    BY <1>1, <2>1 DEF Untouched
<1>3. ASSUME NEW r \in Requests, start(r) \/ Advance(r)
      PROVE  /\ \/ Quiet(r)
                \/ read_sector(r) \/ pread_next(r) \/ issue_whole_write(r) \/ pwrite_modify(r)
             /\ disk' = disk \/ write_sector(r)
             /\ stable' = stable \/ synchronize(r)
  <2>1. CASE start(r) \/ issue_flush(r) \/ synchronize(r) \/ scsi_error(r) \/ finish(r)
    <3>1. pc'[r] \in {"next", "flushing", "ok", "error"} /\ out' = out /\ disk' = disk
          /\ (stable' = stable \/ synchronize(r))
      BY <2>1 DEF start, issue_flush, synchronize, scsi_error, finish, TypeOK
    <3> QED
      BY <3>1 DEF Quiet, Filled
  <2>2. CASE issue_read(r)
    <3>1. moved'[r] = 0 /\ pc'[r] = "reading" /\ UNCHANGED <<out, disk, stable>>
      BY <2>2 DEF issue_read, TypeOK
    <3>2. \A i : ~Filled(r, i)'
      BY <3>1 DEF Filled
    <3> QED
      BY <3>1, <3>2 DEF Quiet
  <2>3. CASE write_sector(r)
    <3>1. pc[r] = "writing" /\ UNCHANGED <<out, raw, pos, pc, stable>>
      BY <2>3 DEF write_sector
    <3> QED
      BY <2>3, <3>1 DEF Quiet, Filled
  <2>4. CASE pwrite_next(r)
    <3>1. pc'[r] = "next" /\ UNCHANGED <<out, disk, stable>>
      BY <2>4 DEF pwrite_next, TypeOK
    <3> QED
      BY <3>1 DEF Quiet, Filled
  <2>5. CASE read_sector(r) \/ pread_next(r) \/ issue_whole_write(r) \/ pwrite_modify(r)
    BY <2>5 DEF read_sector, pread_next, issue_whole_write, pwrite_modify
  <2> QED
    BY <1>3, <2>1, <2>2, <2>3, <2>4, <2>5 DEF Advance
<1>4. ASSUME NEW r \in Requests, start(r) \/ Advance(r)
      PROVE  /\ req' = req
             /\ \A s \in Requests : pc[s] # "idle" => pc'[s] # "idle"
             /\ \A s \in Requests \ {r} : Quiet(s)
  BY <1>1, <1>4, OwnStep DEF Untouched
<1>5. CASE \E r \in Requests : start(r) \/ Advance(r)
  BY <1>3, <1>4, <1>5
<1> QED
  BY <1>2, <1>5 DEF Next, Over

-----------------------------------------------------------------------------
(***************************************************************************)
(* Every byte is in its place.                                             *)
(***************************************************************************)
LEMMA GenuineStays ==
  ASSUME TypeOK, [Next]_vars, NEW b \in Byte, NEW k, Genuine(b, k)
  PROVE  Genuine(b, k)'
<1>1. b.by # NoRequest => b.by \in Requests
  BY DEF Byte
<1> QED
  BY <1>1, QuietSteps DEF Genuine, Writes, Covers

LEMMA BufferBytes ==
  ASSUME TypeOK, NEW r \in Requests
  PROVE  /\ \A i \in 1..Len(raw[r]) : raw[r][i] \in Sector
         /\ \A i \in 1..Len(raw[r]), j \in InSector : raw[r][i].data[j] \in Byte
         /\ \A i \in 1..Len(out[r]) : out[r][i] \in Byte
<1>1. raw[r] \in Seq(Sector) /\ out[r] \in Seq(Byte)
  BY DEF TypeOK
<1>2. \A i \in 1..Len(raw[r]) : raw[r][i] \in Sector
  BY <1>1
<1> QED
  BY <1>1, <1>2, SectorParts

LEMMA DiskBytes ==
  ASSUME TypeOK, NEW s \in Sectors
  PROVE  disk[s] \in Sector /\ \A j \in InSector : disk[s].data[j] \in Byte
BY SectorParts DEF TypeOK

LEMMA GenuineInit == Init => GenuineBytes
<1> SUFFICES ASSUME Init PROVE GenuineBytes
  OBVIOUS
<1>1. ASSUME NEW s \in Sectors, NEW j \in InSector
      PROVE  Genuine(disk[s].data[j], Place(s, j))
  <2>1. disk[s].data[j] = Payload(NoRequest, s * LogicalBS + j)
    BY DEF Init
  <2>2. disk[s].data[j] = Payload(NoRequest, Place(s, j))
    BY <2>1, InitialByte, Zenon
  <2> QED
    BY <2>2 DEF Genuine, Payload
<1>2. ASSUME NEW r \in Requests PROVE BufferGenuine(r)
  <2>1. raw[r] = <<>> /\ out[r] = <<>> /\ Len(<<>>) = 0
    BY DEF Init
  <2> QED
    BY <2>1 DEF BufferGenuine
<1> QED
  BY <1>1, <1>2 DEF GenuineBytes, DiskGenuine

LEMMA DiskGenuineNext ==
  ASSUME TypeOK, Control, GenuineBytes, [Next]_vars
  PROVE  DiskGenuine'
<1> SUFFICES ASSUME NEW s \in Sectors, NEW j \in InSector
             PROVE  Genuine(disk[s].data[j], Place(s, j))'
  BY DEF DiskGenuine, Sectors, InSector
<1>1. Place(s, j)' = Place(s, j)
  BY DEF Place
<1>2. CASE disk'[s] = disk[s]
  <2>1. Genuine(disk[s].data[j], Place(s, j))
    BY DEF GenuineBytes, DiskGenuine
  <2> QED
    BY <1>2, <2>1, DiskBytes, GenuineStays DEF Genuine, Place, Writes, Covers
<1>3. ASSUME NEW r \in Requests, write_sector(r), s = Lba(r) + moved[r]
      PROVE  Genuine(disk[s].data[j], Place(s, j))'
  <2> DEFINE i == moved[r] + 1
             b == raw[r][i].data[j]
  <2>1. Filled(r, i) /\ RawPlace(r, i, j) = Place(s, j) /\ disk'[s].data[j] = b
    BY <1>3, SectorWritten
  <2>2. i \in 1..Len(raw[r])
    BY <2>1 DEF Filled
  <2>3. Genuine(b, Place(s, j)) /\ b \in Byte
    BY <2>1, <2>2, BufferBytes DEF GenuineBytes, BufferGenuine
  <2> QED
    BY <2>1, <2>3, GenuineStays DEF Genuine, Place, Writes, Covers
<1> QED
  BY <1>2, <1>3, QuietSteps, SectorWritten

\* The place of a byte of a command whose request did not advance.
LEMMA SamePlace ==
  ASSUME NEW s, req' = req, pos'[s] = pos[s]
  PROVE  \A i, j : RawPlace(s, i, j)' = RawPlace(s, i, j)
BY DEF RawPlace, Place, Lba

LEMMA QuietGenuine ==
  ASSUME TypeOK, [Next]_vars, NEW r \in Requests, BufferGenuine(r), Quiet(r)
  PROVE  BufferGenuine(r)'
<1>1. req' = req
  BY QuietSteps
<1>2. ASSUME NEW i \in 1..Len(raw'[r]), NEW j \in InSector, Filled(r, i)'
      PROVE  Genuine(raw[r][i].data[j], RawPlace(r, i, j))'
  <2>1. Filled(r, i) /\ raw'[r] = raw[r] /\ pos'[r] = pos[r]
    BY <1>2 DEF Quiet
  <2>2. Genuine(raw[r][i].data[j], RawPlace(r, i, j)) /\ raw[r][i].data[j] \in Byte
    BY <1>2, <2>1, BufferBytes DEF BufferGenuine
  <2>3. RawPlace(r, i, j)' = RawPlace(r, i, j)
    BY <1>1, <2>1, SamePlace
  <2> QED
    BY <2>1, <2>2, <2>3, GenuineStays DEF Genuine, Writes, Covers
<1>3. ASSUME req[r].op = "pread", NEW i \in 1..Len(out'[r])
      PROVE  Genuine(out[r][i], req[r].offset + i - 1)'
  <2>1. out'[r] = out[r]
    BY DEF Quiet
  <2>2. Genuine(out[r][i], req[r].offset + i - 1) /\ out[r][i] \in Byte
    BY <1>3, <2>1, BufferBytes DEF BufferGenuine
  <2> QED
    BY <1>1, <2>1, <2>2, GenuineStays DEF Genuine, Writes, Covers
<1> QED
  BY <1>1, <1>2, <1>3 DEF BufferGenuine, InSector

LEMMA GenuineNext == TypeOK /\ Control /\ GenuineBytes /\ [Next]_vars => GenuineBytes'
<1> SUFFICES ASSUME TypeOK, Control, GenuineBytes, [Next]_vars, NEW r \in Requests
             PROVE  BufferGenuine(r)'
  BY DiskGenuineNext DEF GenuineBytes
<1>1. BufferGenuine(r) /\ ControlOf(r)
  BY DEF GenuineBytes, Control
<1>2. req' = req
  BY QuietSteps
<1>3. CASE Quiet(r)
  BY <1>1, <1>3, QuietGenuine
<1>4. CASE read_sector(r)
  <2>1. /\ pc[r] = "reading" /\ pc'[r] = "reading" /\ UNCHANGED <<pos, out>>
        /\ moved'[r] = moved[r] + 1 /\ Len(raw'[r]) = Len(raw[r]) /\ moved[r] \in Nat
        /\ Lba(r) + moved[r] \in Sectors
        /\ raw'[r][moved[r] + 1] = disk[Lba(r) + moved[r]]
        /\ \A j \in InSector : RawPlace(r, moved[r] + 1, j) = Place(Lba(r) + moved[r], j)
        /\ \A i \in 1..Len(raw[r]) : i # moved[r] + 1 => raw'[r][i] = raw[r][i]
    BY <1>4, SectorRead
  <2>2. ASSUME NEW i \in 1..Len(raw'[r]), NEW j \in InSector, Filled(r, i)'
        PROVE  \E b \in Byte : b = raw'[r][i].data[j] /\ Genuine(b, RawPlace(r, i, j))
    <3>1. CASE i = moved[r] + 1
      <4>1. raw'[r][i].data[j] = disk[Lba(r) + moved[r]].data[j]
        BY <2>1, <3>1
      <4>2. RawPlace(r, i, j) = Place(Lba(r) + moved[r], j)
        BY <2>1, <3>1
      <4> QED
        BY <2>1, <4>1, <4>2, DiskBytes DEF GenuineBytes, DiskGenuine
    <3>2. CASE i # moved[r] + 1
      <4>1. Filled(r, i) /\ raw'[r][i] = raw[r][i] /\ i \in 1..Len(raw[r])
        BY <2>1, <2>2, <3>2 DEF Filled
      <4> QED
        BY <1>1, <4>1, BufferBytes DEF BufferGenuine
    <3> QED
      BY <3>1, <3>2
  <2>3. \A i, j : RawPlace(r, i, j)' = RawPlace(r, i, j)
    BY <1>2, <2>1, SamePlace
  <2>4. ASSUME NEW i \in 1..Len(raw'[r]), NEW j \in InSector, Filled(r, i)'
        PROVE  Genuine(raw[r][i].data[j], RawPlace(r, i, j))'
    <3>0. PICK k : k = RawPlace(r, i, j)
      OBVIOUS
    <3>1. PICK b \in Byte : b = raw'[r][i].data[j] /\ Genuine(b, k)
      BY <2>2, <2>4, <3>0
    <3>2. Genuine(b, k)'
      BY <3>1, GenuineStays
    <3>3. RawPlace(r, i, j)' = k
      BY <2>3, <3>0
    <3> QED
      BY <3>1, <3>2, <3>3 DEF Genuine, Writes, Covers
  <2>5. ASSUME req[r].op = "pread", NEW i \in 1..Len(out[r])
        PROVE  Genuine(out[r][i], req[r].offset + i - 1)'
    <3>1. Genuine(out[r][i], req[r].offset + i - 1) /\ out[r][i] \in Byte
      BY <1>1, <2>5, BufferBytes DEF BufferGenuine
    <3> QED
      BY <1>2, <2>1, <3>1, GenuineStays DEF Genuine, Writes, Covers
  <2> QED
    BY <1>2, <2>1, <2>4, <2>5 DEF BufferGenuine, InSector
<1>5. CASE pread_next(r)
  <2>1. pc'[r] = "next" /\ raw' = raw
    BY <1>5, BytesGathered
  <2>2. \A i : ~Filled(r, i)'
    BY <2>1 DEF Filled
  <2>3. ASSUME NEW n \in 1..Len(out'[r])
        PROVE  Genuine(out[r][n], req[r].offset + n - 1)'
    <3>1. req[r].op = "pread"
      BY <1>5, BytesGathered
    <3>2. \E b \in Byte : b = out'[r][n] /\ Genuine(b, req[r].offset + n - 1)
      <4>1. CASE n \in 1..Len(out[r]) /\ out'[r][n] = out[r][n]
        BY <1>1, <3>1, <4>1, BufferBytes DEF BufferGenuine
      <4>2. CASE \E i \in 1..Len(raw[r]), j \in InSector :
                   /\ Filled(r, i) /\ out'[r][n] = raw[r][i].data[j]
                   /\ RawPlace(r, i, j) = req[r].offset + n - 1
        BY <1>1, <4>2, BufferBytes DEF BufferGenuine
      <4> QED
        BY <1>5, <4>1, <4>2, BytesGathered
    <3> QED
      BY <1>2, <3>2, GenuineStays DEF Genuine, Writes, Covers
  <2> QED
    BY <2>2, <2>3 DEF BufferGenuine
<1>6. CASE issue_whole_write(r) \/ pwrite_modify(r)
  <2>1. /\ Left(r) > 0 /\ req[r].op = "pwrite" /\ pc'[r] = "writing"
        /\ pos' = pos /\ Len(raw'[r]) = Span(r)
        /\ \A i \in 1..Span(r), j \in InSector :
             IF InPayload(r, RawPlace(r, i, j))
               THEN raw'[r][i].data[j] = Payload(r, RawPlace(r, i, j))
               ELSE Filled(r, i) /\ raw'[r][i].data[j] = raw[r][i].data[j]
    BY <1>6, BufferMerged
  <2>2. pc[r] # "idle"
    BY <1>6 DEF issue_whole_write, pwrite_modify
  <2>3. ASSUME NEW i \in 1..Len(raw'[r]), NEW j \in InSector
        PROVE  Genuine(raw[r][i].data[j], RawPlace(r, i, j))'
    <3> DEFINE k == RawPlace(r, i, j)
    <3>1. CASE InPayload(r, k)
      <4>1. raw'[r][i].data[j] = Payload(r, k)
        BY <2>1, <2>3, <3>1
      <4>2. Writes(r, k)
        BY <1>1, <2>1, <2>3, <3>1, PayloadOrForeign DEF Writes
      <4>3. RawPlace(r, i, j)' = k
        BY <1>2, <2>1, SamePlace
      <4> HIDE DEF k
      <4> QED
        BY <1>2, <2>1, <4>1, <4>2, <4>3 DEF Genuine, Writes, Covers, Payload
    <3>2. CASE ~InPayload(r, k)
      <4>1. Filled(r, i) /\ raw'[r][i].data[j] = raw[r][i].data[j]
        BY <2>1, <2>3, <3>2
      <4>2. Genuine(raw[r][i].data[j], k) /\ raw[r][i].data[j] \in Byte
        BY <1>1, <4>1, BufferBytes DEF BufferGenuine, Filled
      <4>3. RawPlace(r, i, j)' = k
        BY <1>2, <2>1, SamePlace
      <4> HIDE DEF k
      <4>4. PICK m : m = k
        OBVIOUS
      <4>5. PICK b \in Byte : b = raw'[r][i].data[j] /\ Genuine(b, m)
        BY <4>1, <4>2, <4>4
      <4>6. Genuine(b, m)'
        BY <4>5, GenuineStays
      <4> QED
        BY <4>3, <4>4, <4>5, <4>6 DEF Genuine, Writes, Covers
    <3> QED
      BY <3>1, <3>2
  <2> QED
    BY <1>2, <2>1, <2>3 DEF BufferGenuine, InSector
<1> QED
  BY <1>3, <1>4, <1>5, <1>6, QuietSteps

-----------------------------------------------------------------------------
(***************************************************************************)
(* What is written is the payload, and its trailers are zeroed.            *)
(***************************************************************************)
\* The limit is settled before the first request.
LEMMA SameLimit ==
  ASSUME TypeOK, Control, [Next]_vars, NEW r \in Requests, pc'[r] # "idle"
  PROVE  MAX_BLOCKS' = MAX_BLOCKS
<1>1. CASE config_complete
  BY <1>1 DEF config_complete, Control, ControlOf
<1>2. CASE UNCHANGED vars
  BY <1>2 DEF vars, plugin
<1>3. CASE \E s \in Requests : start(s) \/ Advance(s)
  BY <1>3, OwnStep
<1> QED
  BY <1>1, <1>2, <1>3 DEF Next, Over

LEMMA MergedInit == Init => Merged
BY DEF Init, Merged, MergedOf

LEMMA MergedNext == TypeOK /\ Control /\ Merged /\ [Next]_vars => Merged'
<1> SUFFICES ASSUME TypeOK, Control, Merged, [Next]_vars, NEW r \in Requests,
                    pc'[r] = "writing", NEW i \in 1..Len(raw'[r]), NEW j \in InSector,
                    InPayload(r, RawPlace(r, i, j))'
             PROVE  raw'[r][i].data[j] = Payload(r, RawPlace(r, i, j)')
  BY DEF Merged, MergedOf, InSector, Payload
<1>1. req' = req /\ MAX_BLOCKS' = MAX_BLOCKS
  BY QuietSteps, SameLimit
<1>2. Filled(r, i)'
  BY DEF Filled
<1>3. ASSUME pos'[r] = pos[r]
      PROVE  RawPlace(r, i, j)' = RawPlace(r, i, j) /\ InPayload(r, RawPlace(r, i, j))
  <2>1. RawPlace(r, i, j)' = RawPlace(r, i, j)
    BY <1>1, <1>3, SameCommand
  <2>2. InPayload(r, RawPlace(r, i, j)')
    BY <1>1, <1>3, SameCommand DEF InPayload
  <2> QED
    BY <2>1, <2>2
<1>4. CASE Quiet(r)
  <2>1. pc[r] = "writing" /\ raw'[r] = raw[r] /\ pos'[r] = pos[r]
    BY <1>2, <1>4 DEF Quiet
  <2> QED
    BY <1>3, <2>1 DEF Merged, MergedOf
<1>5. CASE issue_whole_write(r) \/ pwrite_modify(r)
  <2>1. /\ pos' = pos /\ Len(raw'[r]) = Span(r)
        /\ \A m \in 1..Span(r), n \in InSector :
             InPayload(r, RawPlace(r, m, n))
               => raw'[r][m].data[n] = Payload(r, RawPlace(r, m, n))
    BY <1>5, BufferMerged
  <2> QED
    BY <1>3, <2>1
<1>6. ~read_sector(r) /\ ~pread_next(r)
  BY DEF read_sector, pread_next, TypeOK
<1> QED
  BY <1>4, <1>5, <1>6, QuietSteps

LEMMA TrailersInit == Init => ZeroTrailers
<1> SUFFICES ASSUME Init PROVE ZeroTrailers
  OBVIOUS
<1>1. \A s \in Sectors, j \in InSector : disk[s].data[j].by = NoRequest
  BY DEF Init, Payload
<1>2. \A r \in Requests : pc[r] = "idle"
  BY DEF Init
<1> QED
  BY <1>1, <1>2 DEF ZeroTrailers

LEMMA TrailersNext ==
  TypeOK /\ Control /\ ZeroTrailers /\ [Next]_vars => ZeroTrailers'
<1> SUFFICES ASSUME TypeOK, Control, ZeroTrailers, [Next]_vars PROVE ZeroTrailers'
  OBVIOUS
<1> SUFFICES ASSUME AllWhole
             PROVE  /\ \A s \in Sectors :
                         (\E j \in InSector : disk'[s].data[j].by # NoRequest)
                           => disk'[s].meta = "zero"
                    /\ \A r \in Requests : pc'[r] = "writing" =>
                         \A i \in 1..Len(raw'[r]) : raw'[r][i].meta = "zero"
  <2>1. req' = req
    BY QuietSteps
  <2>2. AllWhole' => AllWhole
    BY <2>1 DEF AllWhole, Whole
  <2> QED
    BY <2>2 DEF ZeroTrailers, Sectors, InSector
<1>1. ASSUME NEW s \in Sectors, NEW j \in InSector, disk'[s].data[j].by # NoRequest
      PROVE  disk'[s].meta = "zero"
  <2>1. CASE disk'[s] = disk[s]
    BY <1>1, <2>1 DEF ZeroTrailers
  <2>2. ASSUME NEW r \in Requests, write_sector(r), s = Lba(r) + moved[r]
        PROVE  disk'[s].meta = "zero"
    <3>1. /\ pc[r] = "writing" /\ moved[r] + 1 \in 1..Len(raw[r])
          /\ disk'[s] = raw[r][moved[r] + 1]
      BY <2>2, SectorWritten DEF Filled
    <3> QED
      BY <3>1 DEF ZeroTrailers
  <2> QED
    BY <2>1, <2>2, QuietSteps, SectorWritten
<1>2. ASSUME NEW r \in Requests, pc'[r] = "writing", NEW i \in 1..Len(raw'[r])
      PROVE  raw'[r][i].meta = "zero"
  <2>1. CASE Quiet(r)
    <3>1. Filled(r, i)'
      BY <1>2 DEF Filled
    <3>2. pc[r] = "writing" /\ raw'[r] = raw[r]
      BY <1>2, <2>1, <3>1 DEF Quiet
    <3> QED
      BY <1>2, <3>2 DEF ZeroTrailers
  <2>2. CASE issue_whole_write(r) \/ pwrite_modify(r)
    <3>1. /\ Left(r) > 0 /\ req[r].op = "pwrite" /\ Len(raw'[r]) = Span(r)
          /\ \A m \in 1..Span(r) :
               raw'[r][m].meta = "zero" \/ (Filled(r, m) /\ pc[r] = "reading")
      BY <2>2, BufferMerged
    <3>2. ControlOf(r) /\ Whole(r)
      BY <3>1 DEF Control, AllWhole
    <3>3. pc[r] # "reading"
      BY <3>1, <3>2, WholeCommands DEF ControlOf
    <3> QED
      BY <1>2, <3>1, <3>3
  <2>3. ~read_sector(r) /\ ~pread_next(r)
    BY <1>2 DEF read_sector, pread_next, TypeOK
  <2> QED
    BY <2>1, <2>2, <2>3, QuietSteps
<1> QED
  BY <1>1, <1>2

-----------------------------------------------------------------------------
(***************************************************************************)
(* What an answered write stored is not replaced by what an older one did. *)
(***************************************************************************)
\* What a request has to see is settled when it starts.
LEMMA SeenSettled ==
  ASSUME TypeOK, [Next]_vars, NEW s \in Requests, pc[s] # "idle"
  PROVE  seen'[s] = seen[s]
<1>1. ASSUME NEW r \in Requests, start(r) \/ Advance(r) PROVE seen'[s] = seen[s]
  BY <1>1, OwnStep DEF Untouched
<1>2. CASE config_complete \/ UNCHANGED vars
  BY <1>2 DEF config_complete, vars
<1> QED
  BY <1>1, <1>2 DEF Next, Over

LEMMA PutStarted ==
  ASSUME TypeOK, Control, NEW w \in Requests, NEW s \in Sectors, NEW j \in InSector,
         Put(w, s, j)
  PROVE  pc[w] # "idle"
<1>1. Place(s, j) \in Nat
  BY PlaceFacts, Sizes DEF Sectors
<1>2. req[w].offset \in Nat /\ req[w].count \in Nat /\ pos[w] \in Nat
  BY ShapeFacts
<1>3. req[w].offset <= Place(s, j)
  BY <1>1, <1>2 DEF Put, Writes, Covers
<1> QED
  BY <1>1, <1>2, <1>3 DEF Put, Control, ControlOf

\* A byte that is put now, and was not before, is of the sector written now.
LEMMA NewlyPut ==
  ASSUME TypeOK, Control, [Next]_vars,
         NEW w \in Requests, NEW s \in Sectors, NEW j \in InSector,
         Put(w, s, j)', ~Put(w, s, j)
  PROVE  write_sector(w) /\ s = Lba(w) + moved[w] /\ InPayload(w, Place(s, j))
<1> DEFINE k == Place(s, j)
           o == req[w].offset + pos[w]
<1>1. req' = req /\ ControlOf(w)
  BY QuietSteps DEF Control
<1>2. Writes(w, k) /\ Writes(w, k)' /\ Place(s, j)' = k
  BY <1>1 DEF Put, Writes, Covers, Place
<1>3. /\ s \in Nat /\ k \in Nat /\ req[w].offset \in Nat /\ pos[w] \in Nat
      /\ o \in Nat /\ moved[w] \in Nat
  <2>1. s \in Nat /\ moved[w] \in Nat
    BY DEF Sectors, TypeOK
  <2>2. k \in Nat
    BY <2>1, PlaceFacts
  <2> QED
    BY <2>1, <2>2, ShapeFacts
<1>4. ~(k < o) /\ ~(pc[w] = "writing" /\ s < Lba(w) + moved[w])
  BY <1>2 DEF Put
<1>5. \/ k < req[w].offset + pos'[w]
      \/ pc'[w] = "writing" /\ s < Lba(w)' + moved'[w]
  BY <1>1, <1>2 DEF Put
<1>6. pos'[w] = pos[w] => Lba(w)' = Lba(w)
  BY <1>1 DEF Lba
<1>7. ~(pos'[w] = pos[w] /\ moved'[w] = moved[w] /\ (pc'[w] = "writing" => pc[w] = "writing"))
  BY <1>4, <1>5, <1>6
<1>8. req[w].op = "pwrite"
  BY <1>2 DEF Writes
<1>9. CASE write_sector(w)
  <2>1. /\ pc[w] = "writing" /\ pos'[w] = pos[w] /\ Left(w) > 0
        /\ moved[w] + 1 \in 1..Span(w) /\ moved'[w] = moved[w] + 1
        /\ Lba(w) \in Nat
        /\ RawPlace(w, moved[w] + 1, j) = Place(Lba(w) + moved[w], j)
    BY <1>9, SectorWritten
  <2>2. s = Lba(w) + moved[w]
    BY <1>3, <1>4, <1>5, <1>6, <2>1, SMTT(30)
  <2>3. InPayload(w, RawPlace(w, moved[w] + 1, j))
    BY <1>1, <1>2, <2>1, <2>2, PayloadOrForeign DEF Writes
  <2> QED
    BY <1>9, <2>1, <2>2, <2>3
<1>10. CASE pwrite_next(w)
  <2>1. /\ pc[w] = "writing" /\ moved[w] = Span(w) /\ pc'[w] = "next"
        /\ pos'[w] = pos[w] + Take(w) /\ Left(w) > 0
    BY <1>1, <1>10 DEF pwrite_next, TypeOK, ControlOf
  <2>2. Take(w) \in Nat
    BY <2>1, CommandFacts
  <2>3. InPayload(w, k)
    BY <1>3, <1>4, <1>5, <2>1, <2>2 DEF InPayload
  <2>4. s < Lba(w) + Span(w)
    BY <2>1, <2>3, PayloadPlace
  <2> QED
    BY <1>4, <2>1, <2>4
<1>11. CASE issue_whole_write(w) \/ pwrite_modify(w)
  <2>1. Left(w) > 0 /\ pos'[w] = pos[w] /\ moved'[w] = 0
    BY <1>11, BufferMerged
  <2>2. /\ Lba(w) \in Nat /\ Skew(w) \in Nat /\ o = LogicalBS * Lba(w) + Skew(w)
        /\ LogicalBS * Lba(w) \in Nat
    BY <2>1, CommandFacts, Sizes DEF InSector
  <2>3. s < Lba(w)
    BY <1>4, <1>5, <1>6, <2>1, <2>2
  <2>4. k < LogicalBS * Lba(w)
    BY <1>3, <2>2, <2>3, PlaceFacts
  <2> QED
    BY <1>3, <1>4, <2>2, <2>4
<1>12. ~pread_next(w)
  BY <1>8 DEF pread_next
<1>13. ASSUME issue_read(w) \/ read_sector(w) PROVE FALSE
  <2>1. pos'[w] = pos[w] /\ pc'[w] = "reading"
    BY <1>13 DEF issue_read, read_sector, TypeOK
  <2> QED
    BY <1>4, <1>5, <2>1
<1>14. ASSUME start(w) \/ issue_flush(w) \/ synchronize(w) \/ scsi_error(w) \/ finish(w)
       PROVE  FALSE
  <2>1. pos'[w] = pos[w] /\ pc'[w] # "writing"
    BY <1>14 DEF start, issue_flush, synchronize, scsi_error, finish, TypeOK
  <2> QED
    BY <1>4, <1>5, <2>1
<1>15. ~(config_complete \/ UNCHANGED vars)
  BY <1>7 DEF config_complete, vars
<1>16. ASSUME NEW r \in Requests \ {w}, start(r) \/ Advance(r) PROVE FALSE
  <2>1. Untouched(w)
    BY <1>16, OwnStep
  <2> QED
    BY <1>7, <2>1 DEF Untouched
<1> QED
  BY <1>9, <1>10, <1>11, <1>12, <1>13, <1>14, <1>15, <1>16 DEF Next, Over, Advance

LEMMA DiskKeptNext ==
  ASSUME TypeOK, Control, Merged, DiskKept, Apart, [Next]_vars
  PROVE  DiskKept'
<1> SUFFICES ASSUME NEW w \in Requests, NEW s \in Sectors, NEW j \in InSector,
                    Put(w, s, j)'
             PROVE  NotOlder(disk[s].data[j], w)'
  BY DEF DiskKept, Sectors, InSector
<1> DEFINE k == Place(s, j)
<1>1. req' = req /\ Place(s, j)' = k
  BY QuietSteps DEF Place
<1>2. Writes(w, k)
  BY <1>1 DEF Put, Writes, Covers
<1>3. Put(w, s, j) => NotOlder(disk[s].data[j], w) /\ seen'[w] = seen[w]
  BY PutStarted, SeenSettled DEF DiskKept
<1>4. ASSUME NEW r \in Requests, write_sector(r), s = Lba(r) + moved[r]
      PROVE  NotOlder(disk[s].data[j], w)'
  <2> DEFINE i == moved[r] + 1
  <2>1. /\ pc[r] = "writing" /\ Left(r) > 0 /\ i \in 1..Span(r) /\ i \in 1..Len(raw[r])
        /\ RawPlace(r, i, j) = k /\ disk'[s].data[j] = raw[r][i].data[j]
        /\ Lba(r) + moved[r] = Lba(r) + i - 1
    BY <1>4, SectorWritten, SMTT(30) DEF Filled
  <2>2. ControlOf(r) /\ req[r].op = "pwrite"
    BY <2>1 DEF Control, ControlOf
  <2>3. CASE InPayload(r, k)
    <3>1. disk'[s].data[j].by = r
      <4>1. raw[r][i].data[j] = Payload(r, RawPlace(r, i, j))
        BY <2>1, <2>3 DEF Merged, MergedOf
      <4> QED
        BY <2>1, <4>1 DEF Payload
    <3>2. r # NoRequest
      BY ShimAssumption
    <3>3. CASE r = w
      BY <3>1, <3>3 DEF NotOlder
    <3>4. CASE r # w
      <4>1. seen'[w] = seen[w]
        BY <1>4, <3>4, OwnStep DEF Untouched, Advance
      <4>2. r \notin seen[w]
        BY <2>1 DEF Control, ControlOf, Answered
      <4> QED
        BY <3>1, <3>2, <4>1, <4>2 DEF NotOlder
    <3> QED
      BY <3>3, <3>4
  <2>4. CASE ~InPayload(r, k)
    <3>1. ~Covers(r, k)
      BY <2>1, <2>2, <2>4, PayloadOrForeign
    <3>2. r # w
      BY <1>2, <3>1 DEF Writes
    <3>3. ~Whole(r)
      <4>1. ~WholeSectors(r)
        BY <2>1, <2>4, WholePayload
      <4> QED
        BY <2>1, <2>2, <4>1, WholeCommands
    <3>4. s \in SectorsOf(r)
      BY <1>4, <2>1, CommandSector
    <3>5. s \in SectorsOf(w)
      BY <1>2, Sizes, CoveredSector DEF Writes, Sectors
    <3> QED
      BY <1>2, <2>2, <3>2, <3>3, <3>4, <3>5 DEF Apart, Writes
  <2> QED
    BY <2>3, <2>4
<1>5. CASE disk'[s] = disk[s]
  <2>1. CASE Put(w, s, j)
    BY <1>3, <1>5, <2>1 DEF NotOlder
  <2>2. CASE ~Put(w, s, j)
    BY <1>4, <2>2, NewlyPut
  <2> QED
    BY <2>1, <2>2
<1> QED
  BY <1>4, <1>5, QuietSteps, SectorWritten

(***************************************************************************)
(* Reads and flushes cover what was answered before they started.          *)
(***************************************************************************)
LEMMA RecentStays ==
  ASSUME TypeOK, Control, [Next]_vars, NEW r \in Requests, pc[r] # "idle",
         NEW b, NEW k, Recent(r, b, k)
  PROVE  Recent(r, b, k)'
<1>1. seen'[r] = seen[r] /\ req' = req
  BY SeenSettled, QuietSteps
<1>2. \A w \in seen[r] : w \in Requests /\ Answered(w)
  BY DEF Control, ControlOf, TypeOK
<1>3. \A w \in seen[r] : pc'[w] = pc[w] /\ seen'[w] = seen[w]
  BY <1>2, AnsweredStays
<1> QED
  BY <1>1, <1>3 DEF Recent, NotOlder, Writes, Covers

LEMMA AnsweredPut ==
  ASSUME TypeOK, Control, NEW w \in Requests, pc[w] = "ok",
         NEW s \in Sectors, NEW j \in InSector, Writes(w, Place(s, j))
  PROVE  Put(w, s, j)
<1>1. s \in Nat
  BY DEF Sectors
<1>2. Place(s, j) \in Nat
  BY <1>1, PlaceFacts
<1>3. /\ req[w].offset \in Nat /\ req[w].count \in Nat /\ pos[w] \in Nat
      /\ req[w].count - pos[w] = 0
  BY ShapeFacts DEF Control, ControlOf
<1> QED
  BY <1>2, <1>3 DEF Put, Writes, Covers

\* What the disk holds is as recent as any request must see.
LEMMA DiskRecent ==
  ASSUME TypeOK, Control, DiskKept, NEW r \in Requests, NEW s \in Sectors, NEW j \in InSector
  PROVE  Recent(r, disk[s].data[j], Place(s, j))
<1> SUFFICES ASSUME NEW w \in seen[r], pc[w] = "ok", Writes(w, Place(s, j))
             PROVE  NotOlder(disk[s].data[j], w)
  BY DEF Recent
<1>1. w \in Requests
  BY DEF TypeOK
<1> QED
  BY <1>1, AnsweredPut DEF DiskKept

LEMMA BufferFreshNext ==
  ASSUME TypeOK, Control, DiskKept, [Next]_vars, NEW r \in Requests, BufferFresh(r)
  PROVE  BufferFresh(r)'
<1>1. req' = req /\ ControlOf(r)
  BY QuietSteps DEF Control
<1> SUFFICES ASSUME req[r].op = "pread"
             PROVE  /\ \A i \in 1..Len(raw'[r]), j \in InSector :
                         pc'[r] = "reading" /\ Filled(r, i)'
                           => Recent(r, raw[r][i].data[j], RawPlace(r, i, j))'
                    /\ \A n \in 1..Len(out'[r]) :
                         Recent(r, out[r][n], req[r].offset + n - 1)'
  BY <1>1 DEF BufferFresh, InSector
<1>2. /\ \A i \in 1..Len(raw[r]), j \in InSector :
           pc[r] = "reading" /\ Filled(r, i)
             => Recent(r, raw[r][i].data[j], RawPlace(r, i, j))
      /\ \A n \in 1..Len(out[r]) : Recent(r, out[r][n], req[r].offset + n - 1)
  BY DEF BufferFresh
<1>3. ASSUME out'[r] = out[r], NEW n \in 1..Len(out'[r])
      PROVE  Recent(r, out[r][n], req[r].offset + n - 1)'
  <2>1. Recent(r, out[r][n], req[r].offset + n - 1)
    BY <1>2, <1>3
  <2>2. pc[r] # "idle"
    <3>1. Len(<<>>) = 0
      OBVIOUS
    <3> QED
      BY <1>1, <1>3, <3>1 DEF ControlOf
  <2> QED
    BY <1>1, <1>3, <2>1, <2>2, RecentStays DEF Recent, NotOlder, Writes, Covers
<1>4. CASE Quiet(r)
  <2>1. ASSUME NEW i \in 1..Len(raw'[r]), NEW j \in InSector, pc'[r] = "reading",
               Filled(r, i)'
        PROVE  Recent(r, raw[r][i].data[j], RawPlace(r, i, j))'
    <3>1. Filled(r, i) /\ pc[r] = "reading" /\ raw'[r] = raw[r] /\ pos'[r] = pos[r]
      BY <1>4, <2>1 DEF Quiet
    <3>2. Recent(r, raw[r][i].data[j], RawPlace(r, i, j))
      BY <1>2, <2>1, <3>1
    <3>3. RawPlace(r, i, j)' = RawPlace(r, i, j)
      BY <1>1, <3>1, SamePlace
    <3> QED
      BY <3>1, <3>2, <3>3, RecentStays DEF Recent, NotOlder, Writes, Covers
  <2> QED
    BY <1>3, <1>4, <2>1 DEF Quiet
<1>5. CASE read_sector(r)
  <2>1. /\ pc[r] = "reading" /\ UNCHANGED <<pc, pos, out>>
        /\ moved'[r] = moved[r] + 1 /\ Len(raw'[r]) = Len(raw[r]) /\ moved[r] \in Nat
        /\ Lba(r) + moved[r] \in Sectors
        /\ raw'[r][moved[r] + 1] = disk[Lba(r) + moved[r]]
        /\ \A j \in InSector : RawPlace(r, moved[r] + 1, j) = Place(Lba(r) + moved[r], j)
        /\ \A i \in 1..Len(raw[r]) : i # moved[r] + 1 => raw'[r][i] = raw[r][i]
    BY <1>5, SectorRead
  <2>2. ASSUME NEW i \in 1..Len(raw'[r]), NEW j \in InSector, Filled(r, i)'
        PROVE  Recent(r, raw[r][i].data[j], RawPlace(r, i, j))'
    <3>1. \E b : b = raw'[r][i].data[j] /\ Recent(r, b, RawPlace(r, i, j))
      <4>1. CASE i = moved[r] + 1
        BY <2>1, <4>1, DiskRecent
      <4>2. CASE i # moved[r] + 1
        <5>1. Filled(r, i) /\ raw'[r][i] = raw[r][i] /\ i \in 1..Len(raw[r])
          BY <2>1, <2>2, <4>2 DEF Filled
        <5> QED
          BY <1>2, <2>1, <5>1
      <4> QED
        BY <4>1, <4>2
    <3>2. RawPlace(r, i, j)' = RawPlace(r, i, j)
      BY <1>1, <2>1, SamePlace
    <3> QED
      BY <2>1, <3>1, <3>2, RecentStays DEF Recent, NotOlder, Writes, Covers
  <2> QED
    BY <1>3, <2>1, <2>2
<1>6. CASE pread_next(r)
  <2>1. pc[r] = "reading" /\ pc'[r] = "next"
    BY <1>6, BytesGathered
  <2>2. ASSUME NEW n \in 1..Len(out'[r])
        PROVE  Recent(r, out[r][n], req[r].offset + n - 1)'
    <3>1. \E b : b = out'[r][n] /\ Recent(r, b, req[r].offset + n - 1)
      <4>1. CASE n \in 1..Len(out[r]) /\ out'[r][n] = out[r][n]
        BY <1>2, <4>1
      <4>2. CASE \E i \in 1..Len(raw[r]), j \in InSector :
                   /\ Filled(r, i) /\ out'[r][n] = raw[r][i].data[j]
                   /\ RawPlace(r, i, j) = req[r].offset + n - 1
        BY <1>2, <2>1, <4>2
      <4> QED
        BY <1>6, <4>1, <4>2, BytesGathered
    <3> QED
      BY <1>1, <2>1, <3>1, RecentStays DEF Recent, NotOlder, Writes, Covers
  <2> QED
    BY <2>1, <2>2
<1>7. ~issue_whole_write(r) /\ ~pwrite_modify(r)
  BY DEF issue_whole_write, pwrite_modify
<1> QED
  BY <1>4, <1>5, <1>6, <1>7, QuietSteps

LEMMA StableKeptNext ==
  ASSUME TypeOK, Control, DiskKept, StableKept, [Next]_vars
  PROVE  StableKept'
<1>1. req' = req
  BY QuietSteps
<1> SUFFICES ASSUME NEW f \in Requests, req[f].op = "flush", pc'[f] = "ok",
                    NEW s \in Sectors, NEW j \in InSector
             PROVE  Recent(f, stable[s].data[j], Place(s, j))'
  BY <1>1 DEF StableKept, Sectors, InSector
<1>2. synchronize(f) \/ pc[f] = "ok"
  <2>1. ASSUME NEW r \in Requests \ {f}, start(r) \/ Advance(r) PROVE pc'[f] = pc[f]
    BY <2>1, OwnStep DEF Untouched
  <2>2. CASE config_complete \/ UNCHANGED vars
    BY <2>2 DEF config_complete, vars
  <2>3. CASE Advance(f)
    BY <2>3 DEF TypeOK, Advance, issue_read, issue_whole_write, read_sector, pread_next,
       pwrite_modify, write_sector, pwrite_next, issue_flush, scsi_error, finish
  <2>4. ~start(f)
    BY DEF start, TypeOK
  <2> QED
    BY <2>1, <2>2, <2>3, <2>4 DEF Next, Over
<1>3. pc[f] # "idle"
  BY <1>2 DEF synchronize
<1>4. \E b : b = stable'[s].data[j] /\ Recent(f, b, Place(s, j))
  <2>1. CASE stable' = disk
    BY <2>1, DiskRecent
  <2>2. CASE stable' = stable /\ pc[f] = "ok"
    BY <2>2 DEF StableKept
  <2>3. \A r \in Requests : synchronize(r) => stable' = disk
    BY DEF synchronize
  <2> QED
    BY <1>2, <2>1, <2>2, <2>3, QuietSteps
<1> QED
  BY <1>1, <1>3, <1>4, RecentStays DEF Recent, NotOlder, Writes, Covers, Place

LEMMA KeptInit == Init => Kept
<1> SUFFICES ASSUME Init PROVE DiskKept /\ StableKept /\ \A r \in Requests : BufferFresh(r)
  BY DEF Kept
<1>1. \A r \in Requests : pc[r] = "idle" /\ raw[r] = <<>> /\ out[r] = <<>>
  BY DEF Init
<1>2. TypeOK /\ Control
  BY TypeInit, ControlInit
<1>3. DiskKept
  BY <1>1, <1>2, PutStarted DEF DiskKept
<1>4. StableKept
  BY <1>1 DEF StableKept
<1>5. Len(<<>>) = 0
  OBVIOUS
<1>6. \A r \in Requests : BufferFresh(r)
  BY <1>1, <1>5 DEF BufferFresh
<1> QED
  BY <1>3, <1>4, <1>6

LEMMA KeptNext == TypeOK /\ Control /\ Merged /\ Kept /\ [Next]_vars => Kept'
<1> SUFFICES ASSUME TypeOK, Control, Merged, Kept, [Next]_vars PROVE Kept'
  OBVIOUS
<1>1. Apart' => Apart
  BY QuietSteps DEF Apart, Whole, SectorsOf
<1> SUFFICES ASSUME Apart
             PROVE  DiskKept' /\ StableKept' /\ \A r \in Requests : BufferFresh(r)'
  BY <1>1 DEF Kept
<1>2. DiskKept /\ StableKept /\ \A r \in Requests : BufferFresh(r)
  BY DEF Kept
<1> QED
  BY <1>2, DiskKeptNext, StableKeptNext, BufferFreshNext

-----------------------------------------------------------------------------
(***************************************************************************)
(* The theorems.                                                           *)
(***************************************************************************)
LEMMA Invariance == Spec => []Inv
<1>1. Init => Inv
  BY TypeInit, ControlInit, GenuineInit, MergedInit, TrailersInit, KeptInit DEF Inv
<1>2. Inv /\ [Next]_vars => Inv'
  BY TypeNext, ControlNext, GenuineNext, MergedNext, TrailersNext, KeptNext DEF Inv
<1> QED
  BY <1>1, <1>2, PTL DEF Spec

(***************************************************************************)
(* The state of the shim has its type whatever the disk, the requests and  *)
(* the answers of sg: no request does more bytes than it has, and no       *)
(* buffer is longer than MAX_BLOCKS.                                       *)
(***************************************************************************)
THEOREM TypeCorrect == Spec => []TypeOK
<1>1. Inv => TypeOK
  BY DEF Inv
<1> QED
  BY <1>1, Invariance, PTL

(***************************************************************************)
(* Whatever the offsets and lengths, and however the threads interleave    *)
(* and fail, a byte of the disk is the one that was there before or one    *)
(* that a started write put in its own place: the splitting, the skew and  *)
(* the merging of pwrite neither shift a byte nor spill one.               *)
(***************************************************************************)
THEOREM BytesStayInPlace == Spec => []BytesBelong
<1>1. Inv => BytesBelong
  <2> SUFFICES ASSUME Inv, NEW k \in Bytes PROVE Genuine(ByteAt(k), k)
    BY DEF BytesBelong, Genuine
  <2>1. k \in Nat
    BY DEF Bytes
  <2>2. /\ k \div LogicalBS \in Sectors /\ k % LogicalBS \in InSector
        /\ k = Place(k \div LogicalBS, k % LogicalBS)
    BY <2>1, ByteFacts
  <2> QED
    BY <2>2 DEF Inv, GenuineBytes, DiskGenuine, ByteAt
<1> QED
  BY <1>1, Invariance, PTL

(***************************************************************************)
(* While partial writes have their sectors to themselves, the bytes of a   *)
(* write that succeeded are on the disk until a write replaces them that   *)
(* was not answered before that one started: the read-modify-write of      *)
(* pwrite needs no lock between such requests.                             *)
(***************************************************************************)
THEOREM NoWriteIsLost == Spec => []WritesKeptApart
<1>1. Inv => WritesKeptApart
  <2> SUFFICES ASSUME Inv, Apart, NEW w \in Requests, NEW k \in Bytes,
                      pc[w] = "ok", Writes(w, k)
               PROVE  NotOlder(ByteAt(k), w)
    BY DEF WritesKeptApart, WritesKept
  <2>1. k \in Nat
    BY DEF Bytes
  <2> DEFINE s == k \div LogicalBS
             j == k % LogicalBS
  <2>2. s \in Sectors /\ j \in InSector /\ k = Place(s, j)
    BY <2>1, ByteFacts
  <2>3. ByteAt(k) = disk[s].data[j]
    BY DEF ByteAt
  <2> HIDE DEF s, j
  <2>4. Put(w, s, j)
    BY <2>2, AnsweredPut DEF Inv
  <2> QED
    BY <2>2, <2>3, <2>4 DEF Inv, Kept, DiskKept
<1> QED
  BY <1>1, Invariance, PTL

(***************************************************************************)
(* A flush that succeeded, on any connection, has made durable the bytes   *)
(* of every write that was answered before it started.                     *)
(***************************************************************************)
THEOREM FlushesKeep == Spec => []FlushKeeps
<1>1. Inv => FlushKeeps
  <2> SUFFICES ASSUME Inv, Apart, NEW f \in Requests, req[f].op = "flush", pc[f] = "ok",
                      NEW w \in seen[f], NEW k \in Bytes, pc[w] = "ok", Writes(w, k)
               PROVE  NotOlder(stable[k \div LogicalBS].data[k % LogicalBS], w)
    BY DEF FlushKeeps
  <2>1. k \in Nat
    BY DEF Bytes
  <2> DEFINE s == k \div LogicalBS
             j == k % LogicalBS
  <2>2. s \in Sectors /\ j \in InSector /\ k = Place(s, j)
    BY <2>1, ByteFacts
  <2> HIDE DEF s, j
  <2>3. Recent(f, stable[s].data[j], k)
    BY <2>2 DEF Inv, Kept, StableKept
  <2>4. NotOlder(stable[s].data[j], w)
    BY <2>3 DEF Recent
  <2> QED
    BY <2>4 DEF s, j
<1> QED
  BY <1>1, Invariance, PTL

(***************************************************************************)
(* A read that succeeded has gathered each byte it was asked for, in       *)
(* order, across however many commands it took, and none that is older     *)
(* than a write that had succeeded when it started.                        *)
(***************************************************************************)
THEOREM ReadsAreFresh == Spec => []ReadsFresh
<1>1. Inv => ReadsFresh
  <2> SUFFICES ASSUME Inv, NEW r \in Requests, pc[r] = "ok", req[r].op = "pread"
               PROVE  /\ Len(out[r]) = req[r].count
                      /\ \A i \in 1..req[r].count :
                           /\ out[r][i].at = req[r].offset + i - 1
                           /\ Apart => Recent(r, out[r][i], req[r].offset + i - 1)
    BY DEF ReadsFresh, Recent
  <2>1. Len(out[r]) = pos[r] /\ Left(r) = 0
    BY DEF Inv, Control, ControlOf
  <2>2. Len(out[r]) = req[r].count
    BY <2>1, ShapeFacts DEF Inv
  <2>3. ASSUME NEW i \in 1..req[r].count
        PROVE  /\ out[r][i].at = req[r].offset + i - 1
               /\ Apart => Recent(r, out[r][i], req[r].offset + i - 1)
    BY <2>2 DEF Inv, GenuineBytes, BufferGenuine, Genuine, Kept, BufferFresh
  <2> QED
    BY <2>2, <2>3
<1> QED
  BY <1>1, Invariance, PTL

(***************************************************************************)
(* While clients keep to the announced block size, every write is one of   *)
(* whole sectors, and a sector with a byte of theirs has a zeroed trailer. *)
(***************************************************************************)
THEOREM TrailersAreZeroed == Spec => []TrailersZeroed
<1>1. Inv => TrailersZeroed
  BY DEF Inv, ZeroTrailers, TrailersZeroed, AllWhole
<1> QED
  BY <1>1, Invariance, PTL

(***************************************************************************)
(* Each round of the loops of pread and pwrite does at least one byte more *)
(* of its request, and never more than are left, whatever MAX_BLOCKS is.   *)
(***************************************************************************)
THEOREM EveryRoundAdvances == Spec => RoundsAdvance
<1>1. ASSUME Inv, [Next]_vars, NEW r \in Requests,
             pc[r] \in {"reading", "writing"}, pc'[r] = "next"
      PROVE  pos'[r] \in (pos[r] + 1)..req[r].count
  <2>1. TypeOK /\ ControlOf(r)
    BY <1>1 DEF Inv, Control
  <2>2. Left(r) > 0
    BY <1>1, <2>1 DEF ControlOf
  <2>3. /\ Take(r) \in Nat \ {0} /\ Take(r) <= Left(r)
        /\ pos[r] \in Nat /\ req[r].count \in Nat /\ Left(r) = req[r].count - pos[r]
    BY <2>1, <2>2, CommandFacts, ShapeFacts
  <2>4. pread_next(r) \/ pwrite_next(r)
    <3>1. ASSUME NEW s \in Requests \ {r}, start(s) \/ Advance(s) PROVE FALSE
      BY <1>1, <2>1, <3>1, OwnStep DEF Untouched
    <3>2. ~(config_complete \/ UNCHANGED vars)
      BY <1>1 DEF config_complete, vars
    <3>3. Advance(r) => pread_next(r) \/ pwrite_next(r)
      BY <1>1, <2>1 DEF TypeOK, Advance, issue_read, issue_whole_write, read_sector,
         pwrite_modify, write_sector, issue_flush, synchronize, scsi_error, finish
    <3>4. ~start(r)
      BY <1>1 DEF start
    <3> QED
      BY <1>1, <3>1, <3>2, <3>3, <3>4 DEF Next, Over
  <2>5. pos'[r] = pos[r] + Take(r)
    BY <2>1, <2>4 DEF pread_next, pwrite_next, TypeOK
  <2> QED
    BY <2>3, <2>5
<1>2. Inv /\ [Next]_vars =>
        [\A r \in Requests :
           (pc[r] \in {"reading", "writing"} /\ pc'[r] = "next") =>
             pos'[r] \in (pos[r] + 1)..req[r].count]_vars
  BY <1>1
<1> QED
  BY <1>2, Invariance, PTL DEF Spec, RoundsAdvance
=============================================================================
