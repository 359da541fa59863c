CONSTANTS
  g1 = g1
  g2 = g2
  Shards <- MCShards
  NumFlows = 2
  IntervalSec = 30
  DimensionFiles <- MCDimensionFiles

SPECIFICATION Spec

INVARIANT TypeOK

PROPERTY Termination
PROPERTY KeepsGenerating

\* The process ends: main returns after the joins, or earlier.
CHECK_DEADLOCK FALSE
