SPECIFICATION Spec
CONSTANTS
  t1 = t1
  t2 = t2
  t3 = t3
  Threads <- MCThreads
  InitCells = 2
  CellLimit = 6
  Increment = 2
  Rounding = 1
  MaxRegions = 2
  Serialised = TRUE
SYMMETRY MCSymmetry
CHECK_DEADLOCK FALSE
INVARIANTS TypeOK LampHasBlock NoBlockTwice HeapReturned
