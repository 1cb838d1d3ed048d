\* Every small patch, and every small sd.c with comments and literals that
\* hold braces.
CONSTANTS
  Patches <- SmallPatches
  Sources <- SmallSources
  MinHunks = 1
  MaxBody = 3
CHECK_DEADLOCK FALSE
SPECIFICATION Spec
INVARIANTS TypeOK HunksRead InsertedAsMeant
