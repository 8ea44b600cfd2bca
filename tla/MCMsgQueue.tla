------------------------------ MODULE MCMsgQueue -------------------------------
(* Three threads that send and receive, two messages, a buffer of two places.   *)
EXTENDS MsgQueue, TLC

CONSTANTS t1, t2, t3, m1, m2

MCThreads == {t1, t2, t3}
MCMsgs == {m1, m2}
================================================================================
