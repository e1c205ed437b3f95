SPECIFICATION PosHeapSpec
CONSTANTS
  PoolBase = 0
  PoolSize = 12
  Sizes = {1, 2, 4, 8}
  Aligns = {4}
INVARIANT SplitNodesAreDisjoint
CHECK_DEADLOCK FALSE
