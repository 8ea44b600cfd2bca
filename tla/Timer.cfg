SPECIFICATION Spec
CONSTANTS
  Timers = {a, b}
  Cycles = {4, 5}
  Precision = 2
  Never = Never
  Forever = Forever
  MaxMsgs = 1
  MaxStep = 1
  MaxDelay = 6
  ReuseAtOnce = FALSE
INVARIANTS QueueInOrder NeverLate
PROPERTIES RemovalHappens
