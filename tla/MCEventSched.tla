---------------------------- MODULE MCEventSched ----------------------------
(* Small instances of EventSched: three events beside the service event,     *)
(* two priorities, a FIFO and a priority-ordered block queue, one line.      *)
EXTENDS EventSched, TLC

CONSTANTS e1, e2, e3, idle, semp, mutex, line

MCEvents == {e1, e2, e3, idle}
MCSmallEvents == {e1, e2, idle}
MCPrios  == {1, 2}
MCSyncs  == {semp, mutex}
MCPrioOrder == {mutex}
MCLines  == {line}

(* The events other than the service event are interchangeable. *)
MCSymmetry == Permutations(MCEvents \ {idle})
================================================================================
