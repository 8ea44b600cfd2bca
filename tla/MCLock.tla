--------------------------------- MODULE MCLock --------------------------------
(* Small instances of Lock: two or three events, a semaphore, a mutex.         *)
EXTENDS Lock, TLC

CONSTANTS e1, e2, e3, idle, semp, mutex

MCEvents == {e1, e2, e3, idle}
MCSmallEvents == {e1, e2, idle}
MCSemps == {semp}
MCMutexes == {mutex}
MCSyncs == {semp, mutex}
MCLines == {}
MCPrios == {1, 2}

MCSymmetry == Permutations(MCEvents \ {idle})
================================================================================
