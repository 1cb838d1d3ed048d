------------------------------ MODULE NbdShim ------------------------------
(***************************************************************************)
(* tools/sector528_shim.py: the nbdkit plugin that shows a disk of 528-    *)
(* byte sectors as one of 512-byte sectors.  It runs under the PARALLEL    *)
(* thread model: every request has a thread, which opens a descriptor of   *)
(* the sg driver of its own when it first needs one.                       *)
(*                                                                         *)
(* pread and pwrite split a request of any offset and length into SCSI     *)
(* commands of at most MAX_BLOCKS sectors.  pwrite overwrites whole        *)
(* sectors, trailer included, and reads, changes and writes back what it   *)
(* covers in part.  The disk moves the sectors of a command one by one,    *)
(* and keeps what it is given in a cache until it is told to synchronize.  *)
(* A byte of payload names its writer and its offset.                      *)
(***************************************************************************)
EXTENDS Integers, Sequences

CONSTANTS
  LogicalBS,      \* LOGICAL_BS, 512
  PhysBS,         \* PHYS_BS, 528
  MinBlocks,      \* the 8 in MAX_BLOCKS = max(8, ...)
  NSectors,       \* how many sectors the disk has
  BlockSizes,     \* what READ CAPACITY may answer as their size
  Requests,
  Shapes,         \* the requests there may be: [op, offset, count]
  ConfigReserves, \* what _reserved may answer in config_complete
  ThreadReserves, \* what sg may have reserved for the descriptor of a thread
  MaxFaults,      \* bound: how many commands end with a bad SCSI status
  NoDescriptor,   \* the reserve of a thread that has no descriptor
  NoRequest       \* the writer of what was on the disk before

ASSUME ShimAssumption ==
  /\ LogicalBS \in Nat \ {0} /\ PhysBS \in Nat /\ PhysBS > LogicalBS
  /\ MinBlocks \in Nat \ {0} /\ NSectors \in Nat \ {0}
  /\ Shapes \subseteq [op : {"pread", "pwrite", "flush"}, offset : Nat, count : Nat]
  /\ \A q \in Shapes : q.offset + q.count <= NSectors * LogicalBS
                       /\ (q.count = 0) = (q.op = "flush")
  /\ BlockSizes \subseteq Nat /\ ConfigReserves \subseteq Nat
  /\ ThreadReserves \subseteq Nat /\ NoDescriptor \notin ThreadReserves
  /\ MaxFaults \in Nat
  /\ NoRequest \notin Requests

VARIABLES
  server,   \* the plugin as a whole
  MAX_BLOCKS,
  disk,     \* the sectors of the disk, its cache included
  stable,   \* the sectors as they were last synchronized
  req,      \* the shape of each request
  pc,       \* where its thread is
  pos,      \* how many of its bytes are done
  raw,      \* the buffer of its command, by sector
  moved,    \* how many sectors of the command the disk has moved
  out,      \* what pread has gathered
  reserve,  \* the reserved buffer of its thread's descriptor
  faults,   \* how many commands failed
  seen      \* auxiliary: the requests answered before it started

plugin == <<server, MAX_BLOCKS>>
vars == <<plugin, disk, stable, req, pc, pos, raw, moved, out, reserve, faults, seen>>

Sectors == 0..(NSectors - 1)
InSector == 0..(LogicalBS - 1)
Bytes == 0..(NSectors * LogicalBS - 1)

Byte == [by : Requests \cup {NoRequest}, at : Bytes \cup {-1}]
Sector == [data : [InSector -> Byte], meta : {"device", "zero"}]
Locations == {"idle", "next", "reading", "writing", "flushing", "ok", "error"}

Payload(r, k) == [by |-> r, at |-> k]

\* A byte of a fresh buffer has no place, and the sectors of one are zeroed.
Blank == Payload(NoRequest, -1)
Zeroes == [data |-> [j \in InSector |-> Blank], meta |-> "zero"]

Smaller(a, b) == IF a <= b THEN a ELSE b
Larger(a, b) == IF a >= b THEN a ELSE b

-----------------------------------------------------------------------------
\* The next command of request r.
Left(r) == req[r].count - pos[r]
Lba(r) == (req[r].offset + pos[r]) \div LogicalBS
Skew(r) == (req[r].offset + pos[r]) % LogicalBS
Span(r) ==
  Smaller(MAX_BLOCKS, (Left(r) + Skew(r) + LogicalBS - 1) \div LogicalBS)

\* Bug: the bytes after the end of the request are taken too.
take_whole_span(r) == Span(r) * LogicalBS - Skew(r)

Take(r) == Smaller(Left(r), Span(r) * LogicalBS - Skew(r))

WholeSectors(r) == Skew(r) = 0 /\ Take(r) = Span(r) * LogicalBS

\* Bug: the payload is laid down from the start of the first sector.
merged_unskewed(r, sectors) ==
  [i \in 1..Span(r) |->
     [sectors[i] EXCEPT !.data = [j \in InSector |->
        LET k == (i - 1) * LogicalBS + j
        IN  IF k < Take(r) THEN Payload(r, req[r].offset + pos[r] + k) ELSE @[j]]]]

\* The sectors with the payload of r laid over them.
merged(r, sectors) ==
  [i \in 1..Span(r) |->
     [sectors[i] EXCEPT !.data = [j \in InSector |->
        LET k == (i - 1) * LogicalBS + j - Skew(r)
        IN  IF k \in 0..(Take(r) - 1)
              THEN Payload(r, req[r].offset + pos[r] + k) ELSE @[j]]]]

\* Bug: the bytes are taken from the start of the first sector.
stripped_unskewed(r) ==
  [k \in 1..Take(r) |->
     raw[r][((k - 1) \div LogicalBS) + 1].data[(k - 1) % LogicalBS]]

\* The bytes of the request in the sectors that were read.
stripped(r) ==
  [k \in 1..Take(r) |->
     LET b == k - 1 + Skew(r)
     IN  raw[r][(b \div LogicalBS) + 1].data[b % LogicalBS]]

Init ==
  /\ server = "starting"
  /\ MAX_BLOCKS = 60
  /\ disk = [s \in Sectors |->
       [data |-> [j \in InSector |-> Payload(NoRequest, s * LogicalBS + j)],
        meta |-> "device"]]
  /\ stable = disk
  /\ req \in [Requests -> Shapes]
  /\ pc = [r \in Requests |-> "idle"]
  /\ pos = [r \in Requests |-> 0]
  /\ raw = [r \in Requests |-> <<>>]
  /\ moved = [r \in Requests |-> 0]
  /\ out = [r \in Requests |-> <<>>]
  /\ reserve = [r \in Requests |-> NoDescriptor]
  /\ faults = 0
  /\ seen = [r \in Requests |-> {}]

-----------------------------------------------------------------------------
\* The shim refuses a disk whose READ CAPACITY fails or tells other sectors.
config_complete ==
  /\ server = "starting"
  /\ \/ server' = "refused" /\ UNCHANGED MAX_BLOCKS
     \/ /\ PhysBS \in BlockSizes
        /\ server' = "up"
        /\ \E rsv \in ConfigReserves : MAX_BLOCKS' = Larger(MinBlocks, rsv \div PhysBS)
  /\ UNCHANGED <<disk, stable, req, pc, pos, raw, moved, out, reserve, faults, seen>>

\* The first use of a thread opens a descriptor and asks for a reserve.
get_fd(r) ==
  \/ reserve[r] # NoDescriptor /\ UNCHANGED reserve
  \/ /\ reserve[r] = NoDescriptor
     /\ \E n \in ThreadReserves : reserve' = [reserve EXCEPT ![r] = n]

Answered(r) == pc[r] \in {"ok", "error"}

start(r) ==
  /\ server = "up" /\ pc[r] = "idle"
  /\ pc' = [pc EXCEPT ![r] = "next"]
  /\ seen' = [seen EXCEPT ![r] = {s \in Requests : Answered(s)}]
  /\ UNCHANGED <<plugin, disk, stable, req, pos, raw, moved, out, reserve, faults>>

\* pread, and the part of pwrite that covers sectors in part, read first.
issue_read(r) ==
  /\ pc[r] = "next" /\ Left(r) > 0
  /\ req[r].op = "pread" \/ ~WholeSectors(r)
  /\ get_fd(r)
  /\ raw' = [raw EXCEPT ![r] = [i \in 1..Span(r) |-> Zeroes]]
  /\ moved' = [moved EXCEPT ![r] = 0]
  /\ pc' = [pc EXCEPT ![r] = "reading"]
  /\ UNCHANGED <<plugin, disk, stable, req, pos, out, faults, seen>>

\* Bug: the trailers are left as the device wrote them.
issue_whole_write_keeps_meta(r) ==
  /\ pc[r] = "next" /\ Left(r) > 0
  /\ req[r].op = "pwrite" /\ WholeSectors(r)
  /\ get_fd(r)
  /\ raw' = [raw EXCEPT ![r] =
       merged(r, [i \in 1..Span(r) |-> [Zeroes EXCEPT !.meta = "device"]])]
  /\ moved' = [moved EXCEPT ![r] = 0]
  /\ pc' = [pc EXCEPT ![r] = "writing"]
  /\ UNCHANGED <<plugin, disk, stable, req, pos, out, faults, seen>>

issue_whole_write(r) ==
  /\ pc[r] = "next" /\ Left(r) > 0
  /\ req[r].op = "pwrite" /\ WholeSectors(r)
  /\ get_fd(r)
  /\ raw' = [raw EXCEPT ![r] = merged(r, [i \in 1..Span(r) |-> Zeroes])]
  /\ moved' = [moved EXCEPT ![r] = 0]
  /\ pc' = [pc EXCEPT ![r] = "writing"]
  /\ UNCHANGED <<plugin, disk, stable, req, pos, out, faults, seen>>

\* A command that the reserved buffer of the descriptor has no room for.
Oversized(r) == pc[r] # "flushing" /\ Span(r) * PhysBS > reserve[r]

read_sector(r) ==
  /\ pc[r] = "reading" /\ ~Oversized(r) /\ moved[r] < Span(r)
  /\ raw' = [raw EXCEPT ![r][moved[r] + 1] = disk[Lba(r) + moved[r]]]
  /\ moved' = [moved EXCEPT ![r] = @ + 1]
  /\ UNCHANGED <<plugin, disk, stable, req, pc, pos, out, reserve, faults, seen>>

pread_next(r) ==
  /\ pc[r] = "reading" /\ moved[r] = Span(r)
  /\ req[r].op = "pread"
  /\ out' = [out EXCEPT ![r] = @ \o stripped(r)]
  /\ pos' = [pos EXCEPT ![r] = @ + Take(r)]
  /\ pc' = [pc EXCEPT ![r] = "next"]
  /\ UNCHANGED <<plugin, disk, stable, req, raw, moved, reserve, faults, seen>>

\* The middle of the read-modify-write.
pwrite_modify(r) ==
  /\ pc[r] = "reading" /\ moved[r] = Span(r)
  /\ req[r].op = "pwrite"
  /\ raw' = [raw EXCEPT ![r] = merged(r, @)]
  /\ moved' = [moved EXCEPT ![r] = 0]
  /\ pc' = [pc EXCEPT ![r] = "writing"]
  /\ UNCHANGED <<plugin, disk, stable, req, pos, out, reserve, faults, seen>>

write_sector(r) ==
  /\ pc[r] = "writing" /\ ~Oversized(r) /\ moved[r] < Span(r)
  /\ disk' = [disk EXCEPT ![Lba(r) + moved[r]] = raw[r][moved[r] + 1]]
  /\ moved' = [moved EXCEPT ![r] = @ + 1]
  /\ UNCHANGED <<plugin, stable, req, pc, pos, raw, out, reserve, faults, seen>>

\* Bug: the loop does not advance.
pwrite_next_stays(r) ==
  /\ pc[r] = "writing" /\ moved[r] = Span(r)
  /\ pc' = [pc EXCEPT ![r] = "next"]
  /\ UNCHANGED <<plugin, disk, stable, req, pos, raw, moved, out, reserve, faults, seen>>

\* Bug: a command that was cut at MAX_BLOCKS ends the request.
pwrite_next_ends(r) ==
  /\ pc[r] = "writing" /\ moved[r] = Span(r)
  /\ pos' = [pos EXCEPT ![r] = req[r].count]
  /\ pc' = [pc EXCEPT ![r] = "next"]
  /\ UNCHANGED <<plugin, disk, stable, req, raw, moved, out, reserve, faults, seen>>

pwrite_next(r) ==
  /\ pc[r] = "writing" /\ moved[r] = Span(r)
  /\ pos' = [pos EXCEPT ![r] = @ + Take(r)]
  /\ pc' = [pc EXCEPT ![r] = "next"]
  /\ UNCHANGED <<plugin, disk, stable, req, raw, moved, out, reserve, faults, seen>>

issue_flush(r) ==
  /\ pc[r] = "next" /\ req[r].op = "flush"
  /\ get_fd(r)
  /\ pc' = [pc EXCEPT ![r] = "flushing"]
  /\ UNCHANGED <<plugin, disk, stable, req, pos, raw, moved, out, faults, seen>>

\* Bug: the command names one block.
synchronize_one(r) ==
  /\ pc[r] = "flushing"
  /\ stable' = [stable EXCEPT ![0] = disk[0]]
  /\ pc' = [pc EXCEPT ![r] = "ok"]
  /\ UNCHANGED <<plugin, disk, req, pos, raw, moved, out, reserve, faults, seen>>

\* SYNCHRONIZE CACHE, of the whole disk.
synchronize(r) ==
  /\ pc[r] = "flushing"
  /\ stable' = disk
  /\ pc' = [pc EXCEPT ![r] = "ok"]
  /\ UNCHANGED <<plugin, disk, req, pos, raw, moved, out, reserve, faults, seen>>

\* SG_IO fails for lack of buffer, or the command ends with a bad status
\* after a part of its sectors: OSError, and the request fails.
scsi_error(r) ==
  /\ pc[r] \in {"reading", "writing", "flushing"}
  /\ \/ Oversized(r) /\ UNCHANGED faults
     \/ ~Oversized(r) /\ faults < MaxFaults /\ faults' = faults + 1
  /\ pc' = [pc EXCEPT ![r] = "error"]
  /\ UNCHANGED <<plugin, disk, stable, req, pos, raw, moved, out, reserve, seen>>

finish(r) ==
  /\ pc[r] = "next" /\ req[r].op # "flush" /\ Left(r) = 0
  /\ pc' = [pc EXCEPT ![r] = "ok"]
  /\ UNCHANGED <<plugin, disk, stable, req, pos, raw, moved, out, reserve, faults, seen>>

Advance(r) ==
  \/ issue_read(r) \/ issue_whole_write(r)
  \/ read_sector(r) \/ pread_next(r) \/ pwrite_modify(r)
  \/ write_sector(r) \/ pwrite_next(r)
  \/ issue_flush(r) \/ synchronize(r)
  \/ scsi_error(r) \/ finish(r)

Over ==
  /\ server = "refused" \/ \A r \in Requests : Answered(r)
  /\ UNCHANGED vars

Next == config_complete \/ Over \/ \E r \in Requests : start(r) \/ Advance(r)

Spec == Init /\ [][Next]_vars
-----------------------------------------------------------------------------
TypeOK ==
  /\ server \in {"starting", "up", "refused"} /\ MAX_BLOCKS \in Nat \ {0}
  /\ disk \in [Sectors -> Sector] /\ stable \in [Sectors -> Sector]
  /\ req \in [Requests -> Shapes]
  /\ pc \in [Requests -> Locations]
  /\ pos \in [Requests -> Nat] /\ moved \in [Requests -> Nat]
  /\ raw \in [Requests -> Seq(Sector)] /\ out \in [Requests -> Seq(Byte)]
  /\ \A r \in Requests :
       pos[r] <= req[r].count /\ moved[r] <= Len(raw[r]) /\ Len(raw[r]) <= MAX_BLOCKS
  /\ reserve \in [Requests -> ThreadReserves \cup {NoDescriptor}]
  /\ faults \in 0..MaxFaults
  /\ seen \in [Requests -> SUBSET Requests]

Covers(r, k) == k \in req[r].offset..(req[r].offset + req[r].count - 1)
Writes(r, k) == req[r].op = "pwrite" /\ Covers(r, k)
ByteAt(k) == disk[k \div LogicalBS].data[k % LogicalBS]

(***************************************************************************)
(* A byte of the disk is the one that was there before or one that a       *)
(* started write that covers it put there: splitting, skew and merging     *)
(* neither shift a byte nor spill one, at whatever offset.                 *)
(***************************************************************************)
BytesBelong ==
  \A k \in Bytes :
    LET b == ByteAt(k)
    IN  /\ b.at = k
        /\ b.by # NoRequest => Writes(b.by, k) /\ pc[b.by] # "idle"

\* Byte b is no older than what write w put in its place.
NotOlder(b, w) == b.by = w \/ (b.by # NoRequest /\ b.by \notin seen[w])

(***************************************************************************)
(* "read-modify-write, so as not to throw away foreign data": the bytes of *)
(* a write that succeeded are on the disk until a write overwrites them    *)
(* that was not answered before that one started.                          *)
(***************************************************************************)
WritesKept ==
  \A w \in Requests : \A k \in Bytes :
    (pc[w] = "ok" /\ Writes(w, k)) => NotOlder(ByteAt(k), w)

\* Does the client keep to the block size that block_size announces?
Whole(r) == req[r].offset % LogicalBS = 0 /\ req[r].count % LogicalBS = 0

SectorsOf(r) ==
  (req[r].offset \div LogicalBS)..((req[r].offset + req[r].count - 1) \div LogicalBS)

\* A write that covers a sector in part has its sectors to itself.
Apart ==
  \A r, s \in Requests :
    (r # s /\ req[r].op = "pwrite" /\ req[s].op = "pwrite" /\ ~Whole(r))
      => SectorsOf(r) \cap SectorsOf(s) = {}

(***************************************************************************)
(* No write is lost while clients keep to the announced block size, or the *)
(* ones that do not share no sector with a write: overlapping commands of  *)
(* whole sectors never bring back what an answered write replaced.         *)
(***************************************************************************)
WritesKeptApart == Apart => WritesKept

(***************************************************************************)
(* "can_flush", on any connection ("can_multi_conn"): while partial writes *)
(* are apart, the bytes of every write that was answered before a flush    *)
(* started survive a power loss once that flush has succeeded.             *)
(***************************************************************************)
FlushKeeps ==
  Apart => \A f \in Requests : (req[f].op = "flush" /\ pc[f] = "ok") =>
    \A w \in seen[f] : \A k \in Bytes : (pc[w] = "ok" /\ Writes(w, k)) =>
      NotOlder(stable[k \div LogicalBS].data[k % LogicalBS], w)

(***************************************************************************)
(* A read that succeeded gave each byte it was asked for, in order, and,   *)
(* while partial writes are apart, none older than a write that had        *)
(* succeeded when the read started.                                        *)
(***************************************************************************)
ReadsFresh ==
  \A r \in Requests :
    (pc[r] = "ok" /\ req[r].op = "pread") =>
      /\ Len(out[r]) = req[r].count
      /\ \A i \in 1..req[r].count :
           LET k == req[r].offset + i - 1
               b == out[r][i]
           IN  /\ b.at = k
               /\ Apart => \A w \in seen[r] :
                    (pc[w] = "ok" /\ Writes(w, k)) => NotOlder(b, w)

(***************************************************************************)
(* "aligned write of whole sectors: overwrite the metadata with zeros":    *)
(* while clients keep to the announced block size, a sector that holds a   *)
(* byte a client wrote has a zeroed trailer.                               *)
(***************************************************************************)
TrailersZeroed ==
  (\A r \in Requests : req[r].op = "pwrite" => Whole(r)) =>
    \A s \in Sectors :
      (\E j \in InSector : disk[s].data[j].by # NoRequest) => disk[s].meta = "zero"

(***************************************************************************)
(* The loops of pread and pwrite end: a round that is over has done at     *)
(* least one more byte of the request, whatever its offset and length, and *)
(* never more than are left.                                               *)
(***************************************************************************)
RoundsAdvance ==
  [][\A r \in Requests :
       (pc[r] \in {"reading", "writing"} /\ pc'[r] = "next") =>
         pos'[r] \in (pos[r] + 1)..req[r].count]_vars
=============================================================================
