SPECIFICATION Spec
CONSTANTS
  MaxThreads = 4
  MaxPrio = 2
  AgeTicks = 4
  MaxSleep = 2
  MaxScope = 1
  MaxCut = 0
  SpawnPrio <- MCSpawnPrio
INVARIANT IrqsOnInThreads
CHECK_DEADLOCK FALSE
