---------------------------- MODULE ConfigBlock ----------------------------
(***************************************************************************)
(* The configuration block of a disk in a dump of its SPI flash:           *)
(* patch_ibm_lock.py, which changes the sector size in its AIX record and  *)
(* seals the block again, run on a dump and then on what it wrote, and the *)
(* tools that compare two dumps, by records (diff_config_records.py) and   *)
(* by blocks (classify_regions.py, map_lod_to_flash.py).  A position p     *)
(* here is the offset p - 1 of the code.                                   *)
(***************************************************************************)
EXTENDS Integers, Sequences, FiniteSets

CONSTANTS
  Base,       \* how many values a byte has, 256 in the code
  Magic,      \* "yqnI"
  Name,       \* "AIX", the beginning of a name of nine bytes
  AixId,      \* the id of the AIX record, 0xc8
  NewSize,    \* 512
  MaxRecord,  \* no record is longer, 0x400 in the code
  BLK,        \* the block size of the comparison, 4096 in the code
  Dumps,      \* the dumps to patch
  Counts      \* what --blocks may be; NoCount when it is not given

NoCount == -1
Bytes == 0..(Base - 1)
Word == Base * Base  \* how many values two bytes have
Tag == <<0, 0, 0, 8>>

ASSUME ConfigAssumption ==
  /\ Base \in Nat /\ Base > 8 /\ {NewSize, MaxRecord, BLK} \subseteq Nat \ {0}
  /\ Magic \in Seq(Bytes \ {0}) /\ Len(Magic) = 4
  /\ Name \in Seq(Bytes \ {0}) /\ Len(Name) = 3
  /\ AixId \in Bytes /\ NewSize < Word * Word
  /\ Dumps \subseteq Seq(Bytes)
  /\ Counts \subseteq Nat \cup {NoCount}

VARIABLES
  infile,   \* what is read
  blocks,   \* the option --blocks
  data,     \* the dump in memory
  base, length,
  outfile,  \* what was written
  runs,
  pc

vars == <<infile, blocks, data, base, length, outfile, runs, pc>>

-----------------------------------------------------------------------------
(***************************************************************************)
(* Slices and numbers: a slice of Python ends where the data ends.         *)
(***************************************************************************)
slice(d, p, n) == SubSeq(d, p, IF p + n - 1 > Len(d) THEN Len(d) ELSE p + n - 1)

\* d[p:p+n] = s, where d grows when s is longer than what it replaces.
put(d, p, n, s) == SubSeq(d, 1, p - 1) \o s \o SubSeq(d, p + n, Len(d))

Finds(d, s) == {p \in DOMAIN d : slice(d, p, Len(s)) = s}
lowest(S) == {p \in S : \A q \in S : p <= q}

le16(d, p) == d[p] + Base * d[p + 1]
be16(d, p) == Base * d[p] + d[p + 1]
be32(d, p) == Word * be16(d, p) + be16(d, p + 2)
be16_bytes(n) == <<n \div Base, n % Base>>
be32_bytes(n) == be16_bytes(n \div Word) \o be16_bytes(n % Word)

\* The last byte of an odd number is not summed.
summ_le16(seg) ==
  LET s[k \in 0..(Len(seg) \div 2)] ==
        IF k = 0 THEN 0 ELSE (s[k - 1] + le16(seg, 2 * k - 1)) % Word
  IN  s[Len(seg) \div 2]

-----------------------------------------------------------------------------
(***************************************************************************)
(* patch_ibm_lock.py.                                                      *)
(***************************************************************************)
\* find_config; the reading of the length fails past the end of the data.
found(d) == {p \in lowest(Finds(d, Magic)) : p + 7 <= Len(d)}

find_config ==
  /\ pc = "start"
  /\ \/ found(infile) = {} /\ pc' = "died" /\ UNCHANGED <<base, length>>
     \/ \E p \in found(infile) :
          base' = p /\ length' = le16(infile, p + 4) /\ pc' = "patch"
  /\ data' = infile
  /\ UNCHANGED <<infile, blocks, outfile, runs>>

\* Bug: the name alone is looked for.
Descriptors_by_name(d) == {p + 9 : p \in Finds(d, Name)}

Descriptors(d) == {p + 9 : p \in {q \in Finds(d, Name) : slice(d, q + 9, 4) = Tag}}

\* Bug: the count is rounded up.
new_count_rounds_up(count, size) ==
  IF blocks # NoCount THEN blocks ELSE (count * size + NewSize - 1) \div NewSize

\* Bug: the old sectors are taken to have 528 bytes.
new_count_from_528(count, size) ==
  IF blocks # NoCount THEN blocks
  ELSE (count * (NewSize + NewSize \div 32)) \div NewSize

new_count(count, size) ==
  IF blocks # NoCount THEN blocks ELSE (count * size) \div NewSize

\* The descriptor is the first in the whole dump.  struct fails where it goes
\* past the end and where the count does not fit.
patch_blocksize ==
  /\ pc = "patch"
  /\ \/ \E p \in lowest(Descriptors(data)) :
          /\ p + 11 <= Len(data)
          /\ LET count == new_count(be32(data, p + 4), be32(data, p + 8))
             IN  /\ count < Word * Word
                 /\ data' = put(put(data, p + 4, 4, be32_bytes(count)),
                                p + 8, 4, be32_bytes(NewSize))
          /\ pc' = "seal"
     \/ /\ \A p \in lowest(Descriptors(data)) :
             p + 11 > Len(data)
               \/ new_count(be32(data, p + 4), be32(data, p + 8)) >= Word * Word
        /\ pc' = "died"
        /\ UNCHANGED data
  /\ UNCHANGED <<infile, blocks, base, length, outfile, runs>>

\* The mode that is not implemented.
strip ==
  /\ pc = "patch"
  /\ pc' = "died"
  /\ UNCHANGED <<infile, blocks, data, base, length, outfile, runs>>

\* The checksum goes where the header has it; a block of less than 8 bytes
\* grows.
put_checksum(blk, checksum) ==
  put(blk, IF Len(blk) < 6 THEN Len(blk) + 1 ELSE 7, 2,
      <<checksum % Base, checksum \div Base>>)

cks(blk) == (-summ_le16(put_checksum(blk, 0))) % Word
sealed(blk) == put_checksum(put_checksum(blk, 0), cks(blk))

\* Bug: the block is not sealed again.
fix_checksum_left ==
  /\ pc = "seal" /\ pc' = "check"
  /\ UNCHANGED <<infile, blocks, data, base, length, outfile, runs>>

fix_checksum ==
  /\ pc = "seal"
  /\ LET blk == sealed(slice(data, base, length))
     IN  IF summ_le16(blk) = 0
           THEN data' = put(data, base, length, blk) /\ pc' = "check"
           ELSE pc' = "died" /\ UNCHANGED data
  /\ UNCHANGED <<infile, blocks, base, length, outfile, runs>>

\* Bug: the size is not looked at.
size_kept_unchecked == TRUE

size_kept == Len(data) = Len(infile)

\* The block is looked for once more before the dump is written.
write ==
  /\ pc = "check"
  /\ IF found(data) # {} /\ size_kept THEN outfile' = data /\ pc' = "written"
     ELSE pc' = "died" /\ UNCHANGED outfile
  /\ UNCHANGED <<infile, blocks, data, base, length, runs>>

\* The tool is run again, on what it wrote.
run_again ==
  /\ pc = "written" /\ runs = 1
  /\ infile' = outfile
  /\ runs' = 2
  /\ pc' = "start"
  /\ UNCHANGED <<blocks, data, base, length, outfile>>

Init ==
  /\ infile \in Dumps /\ blocks \in Counts
  /\ data = <<>> /\ base = 0 /\ length = 0 /\ outfile = <<>>
  /\ runs = 1 /\ pc = "start"

Next ==
  find_config \/ patch_blocksize \/ strip \/ fix_checksum \/ write \/ run_again

Spec == Init /\ [][Next]_vars

-----------------------------------------------------------------------------
(***************************************************************************)
(* The comparisons.                                                        *)
(***************************************************************************)
\* Is there a record at p: its id twice, its length twice, the second less 4?
IsRecord(d, p, end) ==
  LET rlen == be16(d, p + 1)
  IN  /\ rlen \in 4..MaxRecord /\ p + rlen <= end
      /\ d[p + 5] = d[p] /\ be16(d, p + 6) = rlen - 4

\* A record is skipped whole, anything else byte by byte.
walked(s, d, p, end) ==
  IF p < s.pos THEN s
  ELSE IF IsRecord(d, p, end)
    THEN [pos |-> p + be16(d, p + 1),
          recs |-> Append(s.recs, [at |-> p, id |-> d[p],
                                   body |-> slice(d, p + 8, be16(d, p + 1) - 8)])]
  ELSE [s EXCEPT !.pos = p + 1]

parse_records(d, from, len) ==
  LET n == IF len > 8 THEN len - 8 ELSE 0
      s[k \in 0..n] == IF k = 0 THEN [pos |-> from, recs |-> <<>>]
                       ELSE walked(s[k - 1], d, from + k - 1, from + len)
  IN  s[n].recs

\* The ids in one dump only, and the pairs of records that differ, matched in
\* the order of their id.
only(a, b) == {a[n].id : n \in DOMAIN a} \ {b[n].id : n \in DOMAIN b}

\* How many records before the nth have its id.
earlier(r, n) == Cardinality({m \in 1..(n - 1) : r[m].id = r[n].id})

differing(a, b) ==
  LET pairs == {q \in (DOMAIN a) \X (DOMAIN b) :
                  /\ a[q[1]].id = b[q[2]].id
                  /\ earlier(a, q[1]) = earlier(b, q[2])
                  /\ a[q[1]].body # b[q[2]].body}
  IN  {<<a[q[1]], b[q[2]]>> : q \in pairs}

\* The next block begins a region, ends one, or does neither.
scanned(r, n, differing_block) ==
  IF differing_block /\ r.cur = 0 THEN [r EXCEPT !.cur = n]
  ELSE IF ~differing_block /\ r.cur # 0
    THEN [cur |-> 0, out |-> r.out \cup {<<(r.cur - 1) * BLK, (n - 1) * BLK>>}]
  ELSE r

scan(mask) ==
  LET r[n \in 0..Len(mask)] ==
        IF n = 0 THEN [cur |-> 0, out |-> {}] ELSE scanned(r[n - 1], n, mask[n])
  IN  r[Len(mask)]

\* Bug: a region that reaches the last block is not closed.
regions_open(mask, last) == scan(mask).out

\* The offsets where each region begins and ends.
regions(mask, last) ==
  LET r == scan(mask)
  IN  IF r.cur # 0 THEN r.out \cup {<<(r.cur - 1) * BLK, last>>} ELSE r.out

differs(a, b, n) == slice(a, (n - 1) * BLK + 1, BLK) # slice(b, (n - 1) * BLK + 1, BLK)

\* The regions of the whole blocks in which a differs from c, and b does not.
alone(a, b, c, N) ==
  regions([n \in 1..N |-> differs(a, c, n) /\ ~differs(b, c, n)], N * BLK)

\* classify_regions.py leaves out a last block that is not whole: what is the
\* same in both versions of the firmware but not in the dump of IBM, and what
\* is the same in that and the new version but not in the old one.
classified(ibm, old, new) ==
  LET N == Len(ibm) \div BLK
  IN  [config |-> alone(ibm, old, new, N), code |-> alone(old, ibm, new, N)]

\* map_lod_to_flash.py compares the last block too.
differing_regions(a, b) ==
  LET shorter == IF Len(a) < Len(b) THEN Len(a) ELSE Len(b)
  IN  regions([n \in 1..((shorter + BLK - 1) \div BLK) |-> differs(a, b, n)], shorter)

-----------------------------------------------------------------------------
TypeOK ==
  /\ infile \in Seq(Bytes) /\ data \in Seq(Bytes) /\ outfile \in Seq(Bytes)
  /\ base \in 0..Len(infile) /\ length \in 0..(Word - 1)
  /\ blocks \in Counts /\ runs \in 1..2
  /\ pc = "written" => Len(outfile) = Len(infile)
  /\ pc \in {"start", "patch", "seal", "check", "written", "died"}

(***************************************************************************)
(* What is written has a block at the same place, of the same length, and  *)
(* "the sum of 16-bit little-endian words across the whole block (including*)
(* the checksum field)" is 0.                                              *)
(***************************************************************************)
SumsToZero ==
  pc = "written" =>
    \E p \in found(outfile) :
      /\ p = base /\ le16(outfile, p + 4) = length
      /\ summ_le16(slice(outfile, p, length)) = 0

Differ(a, b) == {p \in DOMAIN a : a[p] # b[p]}
Changed == Differ(infile, outfile)

\* At p the old sectors gave way to new ones that hold what they held, less
\* than one new sector of it lost, and nothing else changed but the checksum.
Resized(p) ==
  /\ Changed \subseteq (p + 4)..(p + 11) \cup {base + 6, base + 7}
  /\ be32(outfile, p + 8) = NewSize
  /\ blocks = NoCount =>
       be32(infile, p + 4) * be32(infile, p + 8) - be32(outfile, p + 4) * NewSize
         \in 0..(NewSize - 1)

\* The descriptors in an AIX record of the block.
AixDescriptors ==
  LET records == parse_records(infile, base, length)
      holds(r, p) == r.at + 8 <= p - 9 /\ p + 11 <= r.at + 7 + Len(r.body)
  IN  {p \in Descriptors(infile) :
         /\ base + length - 1 <= Len(infile)
         /\ \E n \in DOMAIN records : records[n].id = AixId /\ holds(records[n], p)}

(***************************************************************************)
(* "changes only the sector size and the block count (8 bytes)" of one     *)
(* descriptor and the checksum, and the descriptor is that of the AIX      *)
(* record when no other is before it in the dump.  (Where one is, the tool *)
(* changes that instead.)                                                  *)
(***************************************************************************)
OnlyDescriptorChanges ==
  pc = "written" =>
    /\ \E p \in Descriptors(infile) : Resized(p)
    /\ \A p \in AixDescriptors :
         (\A q \in Descriptors(infile) : p <= q) => Resized(p)

(***************************************************************************)
(* Running the tool on what it wrote changes nothing.                      *)
(***************************************************************************)
SecondRunChangesNothing ==
  runs = 2 /\ pc \in {"seal", "check", "written"} => outfile = infile /\ data = infile

(***************************************************************************)
(* The dump before and after, compared by records: the same records, of    *)
(* which at most the one with the descriptor differs.                      *)
(***************************************************************************)
RecordsKept ==
  LET before == parse_records(infile, base, length)
      after == parse_records(outfile, base, length)
  IN  pc = "written" /\ base + length - 1 <= Len(infile) =>
        /\ only(before, after) = {} /\ only(after, before) = {}
        /\ \A pair \in differing(before, after) :
             \E p \in lowest(Descriptors(infile)) :
               p \in pair[1].at..(pair[1].at + 7 + Len(pair[1].body))

\* The regions R show the bytes C: each of these is in one of them, each of
\* them begins and ends with a block that has some, and no two touch.
Shown(R, C) ==
  LET in(r) == {p \in C : r[1] < p /\ p <= r[2]}
  IN  /\ C \subseteq UNION {in(r) : r \in R}
      /\ \A r \in R : /\ \E p \in in(r) : p <= r[1] + BLK
                      /\ \E p \in in(r) : p > r[2] - BLK
      /\ \A r, q \in R : r[1] # q[2]

\* Where a differs from c, in whole blocks in which b does not.
DifferAlone(a, b, c) ==
  {p \in Differ(a, c) : /\ p <= (Len(a) \div BLK) * BLK
                        /\ ~differs(b, c, (p - 1) \div BLK + 1)}

(***************************************************************************)
(* Compared by blocks, the regions show every byte that changed.  Of three *)
(* dumps, the "config" regions show where the first alone is not like the  *)
(* third, "differs, firmware version does not change them", and the "code" *)
(* regions where the second alone is not.  (The dumps are that before, the *)
(* one after, and one of which only the head is as it is after.)           *)
(***************************************************************************)
RegionsCover ==
  LET partly == [p \in DOMAIN infile |-> IF p <= base + 7 THEN outfile[p] ELSE infile[p]]
  IN  pc = "written" =>
        /\ Shown(differing_regions(infile, outfile), Changed)
        /\ \A a, b \in {infile, outfile, partly} :
             /\ Shown(classified(a, b, infile).config, DifferAlone(a, b, infile))
             /\ Shown(classified(a, b, infile).code, DifferAlone(b, a, infile))
=============================================================================
