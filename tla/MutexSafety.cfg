SPECIFICATION MutexSpec
CONSTANTS
  MaxThreads = 4
  MaxPrio = 2
  AgeTicks = 3
  MaxSleep = 0
  MaxScope = 0
  MaxCut = 0
  MaxMutexes = 2
  MaxNesting = 2
  SpawnPrio <- MCPrio
CHECK_DEADLOCK FALSE
INVARIANT ScopesExclusive
INVARIANT WaitersBlocked
