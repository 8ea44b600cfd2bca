------------------------------ MODULE MCEcbLists ------------------------------
(* A small instance of EcbLists: three events beside the service event.       *)
EXTENDS EcbLists, TLC

CONSTANTS e1, e2, e3, idle, semp, mutex, line

MCEvents == {e1, e2, e3, idle}
MCPrios  == {1, 2}
MCSyncs  == {semp, mutex}
MCPrioOrder == {mutex}
MCLines  == {line}

(* The events other than the service event are interchangeable. *)
MCSymmetry == Permutations(MCEvents \ {idle})
================================================================================
