\* Dumps with and without what the tool looks for, with right and wrong
\* lengths of the block.
CONSTANTS
  Base = 16
  Magic <- TheMagic
  Name <- TheName
  AixId = 12
  NewSize = 32
  MaxRecord = 64
  BLK = 4
  Dumps <- SmallDumps
  Counts <- SmallCounts
CHECK_DEADLOCK FALSE
SPECIFICATION Spec
INVARIANTS TypeOK SumsToZero OnlyDescriptorChanges SecondRunChangesNothing RecordsKept RegionsCover
