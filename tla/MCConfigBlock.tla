--------------------------- MODULE MCConfigBlock ---------------------------
(***************************************************************************)
(* Instances of ConfigBlock for TLC: bytes of 16 values, sectors of 33     *)
(* bytes to be sectors of 32, as 528 is to 512.                            *)
(***************************************************************************)
EXTENDS ConfigBlock

OldSize == 33
TheMagic == <<7, 1, 6, 14>>
TheName == <<10, 9, 11>>

Record(id, body) ==
  <<id>> \o be16_bytes(Len(body) + 8) \o <<0, 0, id>> \o be16_bytes(Len(body) + 4) \o body

Descriptor(count) ==
  TheName \o <<2, 2, 2, 2, 2, 2>> \o Tag \o be32_bytes(count) \o be32_bytes(OldSize)

\* Counts that divide evenly or not, and one that does not fit afterwards.
OldCounts == {0, 1, 31, 32, 4369, 65535}

\* A record before the AIX record or not, one without a body after it or not.
Records(count) ==
  {first \o Record(AixId, Descriptor(count)) \o last :
     first \in {<<>>, Record(5, <<10, 9, 11, 3>>)}, last \in {<<>>, Record(13, <<>>)}}

\* The length may be too small, cut the last byte off, or be too large.
Block(records, checksum) ==
  LET exact == Len(TheMagic) + 4 + Len(records)
  IN  {TheMagic \o <<n % Base, n \div Base>> \o checksum \o records :
         n \in {exact, exact - 1, 0, 3, 6, 7, exact + 9}}

\* The name occurs before the block, without a descriptor and with one.
SmallDumps ==
  UNION {UNION {
    {before \o block \o after :
       block \in UNION {Block(r, checksum) : checksum \in {<<0, 0>>, <<9, 3>>}},
       before \in {<<>>, <<0, 10, 9, 11, 1>>, Descriptor(7)},
       after \in {<<>>, <<1, 2>>}} : r \in Records(count)} : count \in OldCounts}
    \cup {<<>>, <<1, 2, 3>>, TheMagic, TheMagic \o <<8, 0, 0, 0>>}

SmallCounts == {NoCount, 2, 65536}
=============================================================================
