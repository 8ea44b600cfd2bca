SPECIFICATION Spec
CONSTANTS
  e1 = e1
  e2 = e2
  e3 = e3
  e4 = e4
  t1 = t1
  t2 = t2
  NoEcb = NoEcb
  NoEvtt = NoEvtt
  Ecbs <- MCEcbs
  Evtts <- MCEvtts
  Kinds <- MCKinds
  Memory = 2
  MaxTimes = 2
INVARIANTS ThreadsAccounted NobodyWaitsBesideAnIdleThread WaitersHaveTargets CorrelativeIsSingle
SYMMETRY Symmetry
CHECK_DEADLOCK FALSE
