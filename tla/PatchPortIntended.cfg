\* Every set of hunks that may land, on the trees each recipe is for, and the
\* driver built from what the recipe left.
CONSTANTS
  Trees <- PortedTrees
  MaxRuns = 2
  MaxScans = 2
CHECK_DEADLOCK FALSE
SPECIFICATION Spec
INVARIANTS TypeOK Idempotent GenerationFits PoolsReleased DiscardRestricted DepthCapped
