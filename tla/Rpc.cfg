SPECIFICATION RpcFairSpec
CONSTANTS
  MaxThreads = 5
  MaxPrio = 2
  AgeTicks = 3
  MaxSleep = 1
  MaxScope = 0
  MaxCut = 0
  SyscorePrio = 2
  SpawnPrio <- MCPrio
  Asked <- MCAsked
CHECK_DEADLOCK FALSE
INVARIANT NoLostWakeup
PROPERTY ImplementsService
PROPERTY RequestsAnswered
PROPERTY HandlerEnds
PROPERTY SleepersWake
