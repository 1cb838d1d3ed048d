---------------------------- MODULE BlockDevice ----------------------------
(***************************************************************************)
(* What the sd driver promises the block layer for a disk that shows       *)
(* 512-byte sectors: a store of payloads, one per sector, and requests     *)
(* that read or write a run of consecutive sectors.                        *)
(*                                                                         *)
(* A request moves its sectors one by one, in any order, interleaved with  *)
(* the sectors of other requests, and may start over.  It succeeds only    *)
(* once every sector moved, and a read that succeeds answers what its last *)
(* attempt read.  A request may also fail, with any part of it moved.      *)
(***************************************************************************)
EXTENDS Naturals

CONSTANTS
  Disks, Requests,
  Blocks,     \* sector numbers of a disk, 0..n
  Shapes,     \* requests there may be: [op, disk, lba, len]
  MaxSectors, \* no shape is longer
  NoRequest,  \* the writer of what was on the disk before
  Garbage     \* bytes that are no sector's payload

VARIABLES
  rq,       \* the shape of each request
  status,   \* idle, pending, ok or error
  store,    \* the payload of each sector of each disk
  moved,    \* the sectors the current attempt has moved, as offsets
  got,      \* what the current attempt of a read has read
  answer    \* what a read that succeeded gave its caller

vars == <<rq, status, store, moved, got, answer>>

Nothing == [i \in 1..MaxSectors |-> Garbage]

\* The payload request r writes to, and the one first found in, sector b.
Written(r, b) == [by |-> r, blk |-> b]
Initial(b) == [by |-> NoRequest, blk |-> b]

Offsets(r) == 1..rq[r].len
Block(r, i) == rq[r].lba + i - 1

Init ==
  /\ rq \in [Requests -> Shapes]
  /\ status = [r \in Requests |-> "idle"]
  /\ store = [d \in Disks |-> [b \in Blocks |-> Initial(b)]]
  /\ moved = [r \in Requests |-> {}]
  /\ got = [r \in Requests |-> Nothing]
  /\ answer = [r \in Requests |-> Nothing]

Submit(r) ==
  /\ status[r] = "idle"
  /\ status' = [status EXCEPT ![r] = "pending"]
  /\ UNCHANGED <<rq, store, moved, got, answer>>

Move(r, i) ==
  /\ status[r] = "pending"
  /\ i \notin moved[r]
  /\ moved' = [moved EXCEPT ![r] = @ \cup {i}]
  /\ \/ /\ rq[r].op = "read"
        /\ got' = [got EXCEPT ![r][i] = store[rq[r].disk][Block(r, i)]]
        /\ UNCHANGED store
     \/ /\ rq[r].op = "write"
        /\ store' = [store EXCEPT ![rq[r].disk][Block(r, i)] =
                       Written(r, Block(r, i))]
        /\ UNCHANGED got
  /\ UNCHANGED <<rq, status, answer>>

StartOver(r) ==
  /\ status[r] = "pending"
  /\ moved' = [moved EXCEPT ![r] = {}]
  /\ got' = [got EXCEPT ![r] = Nothing]
  /\ UNCHANGED <<rq, status, store, answer>>

Finish(r) ==
  /\ status[r] = "pending"
  /\ \/ /\ moved[r] = Offsets(r)
        /\ status' = [status EXCEPT ![r] = "ok"]
        /\ answer' = [answer EXCEPT ![r] = got[r]]
     \/ /\ status' = [status EXCEPT ![r] = "error"]
        /\ UNCHANGED answer
  /\ moved' = [moved EXCEPT ![r] = {}]
  /\ got' = [got EXCEPT ![r] = Nothing]
  /\ UNCHANGED <<rq, store>>

Next ==
  \E r \in Requests :
    \/ Submit(r) \/ StartOver(r) \/ Finish(r)
    \/ \E i \in Offsets(r) : Move(r, i)

Spec == Init /\ [][Next]_vars
=============================================================================
