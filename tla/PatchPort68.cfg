\* A 6.8 tree and the recipe of port_universal.py alone.
CONSTANTS
  Trees <- Only68
  MaxRuns = 1
  MaxScans = 1
CHECK_DEADLOCK FALSE
SPECIFICATION Spec
INVARIANT GenerationFits
