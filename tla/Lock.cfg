SPECIFICATION LockSpec
CONSTANTS
  e1 = e1
  e2 = e2
  e3 = e3
  idle = idle
  semp = semp
  mutex = mutex
  NULL = NULL
  Events <- MCEvents
  Service = idle
  Semps <- MCSemps
  Mutexes <- MCMutexes
  Syncs <- MCSyncs
  PrioOrder <- MCMutexes
  Lines <- MCLines
  Prios <- MCPrios
  ServicePrio = 9
  MaxTicks = 1
  Slice = 1
  LampsLimit = 1
  MaxNest = 2
  HoldAndBlock = FALSE
  IsrHolds = FALSE
SYMMETRY MCSymmetry
INVARIANTS LockTypeOK NobodyWaitsForAFreeLock MutualExclusion PendTellsTheTruth OwnerInheritsPriority OwnerIsKnown
