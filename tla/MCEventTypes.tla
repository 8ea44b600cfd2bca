---------------------------- MODULE MCEventTypes ----------------------------
(* Two event types, four events, memory for two threads; the types are       *)
(* correlative or independent, urgent or ordinary.                           *)
EXTENDS EventTypes, TLC

CONSTANTS e1, e2, e3, e4, t1, t2

MCEcbs == {e1, e2, e3, e4}
MCEvtts == {t1, t2}
Kind(c, u, r, l) == [correlative |-> c, urgent |-> u, vpus_res |-> r,
                     vpus_limit |-> l]
MCKinds == {Kind(TRUE, TRUE, 0, 0), Kind(TRUE, FALSE, 0, 0),
            Kind(FALSE, FALSE, 0, 2), Kind(FALSE, TRUE, 0, 1)}

(* Without, in closed form, is what SelectSeq computes. *)
ASSUME WithoutSelects ==
    \A n \in 0 .. 4, X \in SUBSET MCEcbs : \A q \in [1 .. n -> MCEcbs] :
      Without(q, X) = SelectSeq(q, LAMBDA e : e \notin X)

Symmetry == Permutations(MCEcbs) \cup Permutations(MCEvtts)
=============================================================================
