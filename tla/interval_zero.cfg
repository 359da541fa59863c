CONSTANTS
  g1 = g1
  g2 = g2
  Shards <- MCShards
  NumFlows = 2
  IntervalSec = 0
  DimensionFiles <- MCDimensionFiles

SPECIFICATION Spec


PROPERTY KeepsGenerating

\* The process ends: main returns after the joins, or earlier.
CHECK_DEADLOCK FALSE
