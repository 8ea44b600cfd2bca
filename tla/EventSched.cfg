SPECIFICATION FairSpec
CONSTANTS
  e1 = e1
  e2 = e2
  e3 = e3
  idle = idle
  semp = semp
  mutex = mutex
  line = line
  NULL = NULL
  Events <- MCEvents
  Service = idle
  Syncs <- MCPrioOrder
  PrioOrder <- MCPrioOrder
  Lines <- MCLines
  Prios <- MCPrios
  ServicePrio = 9
  MaxTicks = 2
  Slice = 2
INVARIANTS TypeOK OnePlace RunningIsFirst NoMissedAlarm BlockQueuesSorted
PROPERTIES TimedWaitEnds RoundRobin
