SPECIFICATION FairSpec
CONSTANTS
  t1 = t1
  t2 = t2
  t3 = t3
  m1 = m1
  m2 = m2
  NoMsg = NoMsg
  Threads <- MCThreads
  Msgs <- MCMsgs
  MaxMsgs = 2
INVARIANTS TypeOK Conservation NoOverrun NobodyForgotten
PROPERTIES ImplementsDeque MessageIsNoticed
