------------------------------ MODULE MCTimer -------------------------------
(* Two timers, with periods of two ticks of two units and of half a tick     *)
(* more; a hook, or a preemption, takes up to one unit.                      *)
EXTENDS Timer
=============================================================================
