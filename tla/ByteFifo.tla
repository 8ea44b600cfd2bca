------------------------------ MODULE ByteFifo ------------------------------
(* What a ring buffer between one writer and one reader promises: a bounded *)
(* first-in first-out queue of bytes.  The writer holds bytes in `src' and  *)
(* moves a prefix of them to the end of the queue; the reader receives a    *)
(* prefix of the queue in `out'.  Bytes that arrive at a full queue may be  *)
(* dropped, but only from the end of what arrived.                          *)
EXTENDS Naturals, Sequences

CONSTANTS Byte,      \* what is transported
          Capacity   \* how many bytes the queue holds

VARIABLES q, src, out

Init == q = << >> /\ src = << >> /\ out = << >>

Drop(s, n) == SubSeq(s, n + 1, Len(s))

\* The writer has new bytes to hand over, or gives up on the ones it has.
Offer == /\ src' \in Seq(Byte)
         /\ UNCHANGED <<q, out>>

\* n bytes of what the writer holds enter the queue.
Put == \E n \in 1 .. Len(src) :
           /\ Len(q) + n <= Capacity
           /\ q' = q \o SubSeq(src, 1, n)
           /\ src' = Drop(src, n)
           /\ UNCHANGED out

\* Bytes arrive and as many as fit enter the queue in the same step.
Arrive == /\ src' \in Seq(Byte)
          /\ \E n \in 0 .. Len(src') :
                 /\ Len(q) + n = Capacity \/ n = Len(src')
                 /\ Len(q) + n <= Capacity
                 /\ q' = q \o SubSeq(src', 1, n)
          /\ UNCHANGED out

\* The reader obtains the oldest bytes.
Get == \E n \in 0 .. Len(q) :
           /\ out' = SubSeq(q, 1, n)
           /\ q' = Drop(q, n)
           /\ UNCHANGED src

Next == Offer \/ Put \/ Arrive \/ Get

Spec == Init /\ [][Next]_<<q, src, out>>
=============================================================================
