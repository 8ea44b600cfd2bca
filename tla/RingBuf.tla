------------------------------- MODULE RingBuf -------------------------------
(* The ring buffer of component/buffer/ring.c, as the operators its clients *)
(* use: what Ring_Write and Ring_Read compute from len, and what they do to *)
(* the bytes and to the two positions.  Both calls work in two pieces: the  *)
(* length, the copy and the position first, with interrupts open; then len  *)
(* in an atomic section.  A client decides what may come in between.        *)
EXTENDS Naturals, Integers, Sequences

CONSTANTS Byte,      \* contents
          MaxLen     \* max_len, the capacity

ASSUME MaxLenAssumption == MaxLen \in Nat \ {0}

VARIABLES buf,             \* ring->buf
          offset_write,    \* ring->offset_write; max_len, not 0, after a
          offset_read,     \*   write that ends exactly at the end
          len              \* ring->len

ringVars == <<buf, offset_write, offset_read, len>>

Places == 0 .. MaxLen - 1

RingTypeOK == /\ buf \in [Places -> Byte]
              /\ offset_write \in 0 .. MaxLen
              /\ offset_read \in 0 .. MaxLen
              /\ len \in 0 .. MaxLen

RingInit == /\ buf \in {[i \in Places |-> b] : b \in Byte}
            /\ offset_write = 0
            /\ offset_read = 0
            /\ len = 0

\* How much of n bytes there is room for, and how much of n bytes there is.
RoomFor(n) == IF MaxLen - len > n THEN n ELSE MaxLen - len
Available(n) == IF len < n THEN len ELSE n

\* (Mutant: it wraps around a byte too late.)
AdvanceOffByOne(offset, n) ==
    IF offset + n > MaxLen + 1 THEN offset + n - MaxLen ELSE offset + n

\* A position n bytes further.
Advance(offset, n) ==
    IF offset + n > MaxLen THEN n - (MaxLen - offset) ELSE offset + n

\* The n bytes that start at a position.
Window(offset, n) == [k \in 1 .. n |-> buf[(offset + k - 1) % MaxLen]]

\* First piece of Ring_Write: copy data, in two parts if it wraps around.
CopyIn(data) ==
    /\ buf' = [i \in Places |->
                  LET k == ((i - offset_write) % MaxLen) + 1
                  IN  IF k \in 1 .. Len(data) THEN data[k] ELSE buf[i]]
    /\ offset_write' = Advance(offset_write, Len(data))

\* First piece of Ring_Read: the bytes it returns are Window(offset_read, n).
CopyOut(n) == offset_read' = Advance(offset_read, n)
=============================================================================
