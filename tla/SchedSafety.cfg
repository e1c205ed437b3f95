SPECIFICATION Spec
CONSTANTS
  MaxThreads = 4
  MaxPrio = 2
  AgeTicks = 2
  MaxSleep = 2
  MaxScope = 1
  MaxCut = 1
  SpawnPrio <- MCHighPrio
INVARIANT TypeOK
INVARIANT ReadyQueuedOnce
INVARIANT BitmapExact
INVARIANT OneRunning
INVARIANT SleepersSleep
INVARIANT PreemptionScoped
PROPERTY HighestFirst
PROPERTY SleepsItsTime
CHECK_DEADLOCK FALSE
