------------------------------- MODULE MCMemPool -------------------------------
(* Three threads on a pool of two blocks that can grow.                         *)
EXTENDS MemPool, TLC

CONSTANTS t1, t2, t3

MCThreads == {t1, t2, t3}
MCSymmetry == Permutations(MCThreads)
================================================================================
