SPECIFICATION Spec
CONSTANTS
  e1 = e1
  e2 = e2
  e3 = e3
  idle = idle
  semp = semp
  mutex = mutex
  line = line
  NULL = NULL
  Events <- MCSmallEvents
  Service = idle
  Syncs <- MCSyncs
  PrioOrder <- MCPrioOrder
  Lines <- MCLines
  Prios <- MCPrios
  ServicePrio = 9
  MaxTicks = 2
  Slice = 2
PROPERTY SetPrioTakesEffect
