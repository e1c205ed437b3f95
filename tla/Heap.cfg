SPECIFICATION HeapSpec
CONSTANTS
  PoolBase = 3
  PoolSize = 12
  Sizes = {1, 2, 3}
  Aligns = {2, 4}
INVARIANTS
  NodesTileThePool
  ListsAgreeWithFlags
  DataIsPrivate
