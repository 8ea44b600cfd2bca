----------------------------- MODULE UartProofs -----------------------------
(* The two halves of a serial port, for every buffer size, every content and *)
(* every interleaving of UART_AppWrite with the transmit interrupt and of    *)
(* UART_AppRead with the receive interrupt: nobody is forgotten, no stale    *)
(* "all sent" is believed, and the bytes come out as they went in.           *)
EXTENDS Uart, SequenceTheorems, TLAPS

-----------------------------------------------------------------------------
(* What the operators of RingBuf return, for every capacity and content.    *)

\* An offset taken modulo max_len names a place of the buffer.
LEMMA ModIsPlace ==
    ASSUME NEW i \in Int
    PROVE  i % MaxLen \in Places
BY MaxLenAssumption DEF Places

\* Ring_Write and Ring_Read move a position to a position.
LEMMA AdvanceType ==
    ASSUME NEW o \in 0 .. MaxLen, NEW n \in 0 .. MaxLen
    PROVE  Advance(o, n) \in 0 .. MaxLen
BY MaxLenAssumption DEF Advance

\* What Ring_Write takes of n bytes: all of them, or as many as fill the ring.
LEMMA RoomForBounds ==
    ASSUME len \in 0 .. MaxLen, NEW n \in Nat
    PROVE  /\ RoomFor(n) \in 0 .. MaxLen
           /\ RoomFor(n) <= n
           /\ len + RoomFor(n) <= MaxLen
           /\ RoomFor(n) = n \/ len + RoomFor(n) = MaxLen
BY MaxLenAssumption DEF RoomFor

\* What Ring_Read returns of n bytes: all of them, or all there are.
LEMMA AvailableBounds ==
    ASSUME len \in 0 .. MaxLen, NEW n \in Nat
    PROVE  /\ Available(n) \in 0 .. MaxLen
           /\ Available(n) <= n
           /\ Available(n) <= len
BY MaxLenAssumption DEF Available

\* The bytes Ring_Read copies out are bytes.
LEMMA WindowType ==
    ASSUME RingTypeOK, NEW o \in Nat, NEW n \in Nat
    PROVE  Window(o, n) \in Seq(Byte)
<1>1. ASSUME NEW k \in 1 .. n
      PROVE  buf[(o + k - 1) % MaxLen] \in Byte
  <2>1. (o + k - 1) \in Int
    OBVIOUS
  <2>2. (o + k - 1) % MaxLen \in Places
    BY <2>1, ModIsPlace
  <2> QED BY <2>2 DEF RingTypeOK
<1> QED BY <1>1 DEF Window

\* Copying bytes into the ring leaves bytes in the ring and a position.
LEMMA CopyInType ==
    ASSUME RingTypeOK, NEW data \in Seq(Byte), Len(data) <= MaxLen, CopyIn(data)
    PROVE  buf' \in [Places -> Byte] /\ offset_write' \in 0 .. MaxLen
<1>1. Len(data) \in 0 .. MaxLen
  BY MaxLenAssumption
<1>2. offset_write' \in 0 .. MaxLen
  BY <1>1, AdvanceType DEF CopyIn, RingTypeOK
<1>3. ASSUME NEW i \in Places, NEW k \in 1 .. Len(data)
      PROVE  data[k] \in Byte
  OBVIOUS
<1>4. ASSUME NEW i \in Places PROVE buf[i] \in Byte
  BY DEF RingTypeOK
<1>5. buf' \in [Places -> Byte]
  BY <1>3, <1>4 DEF CopyIn
<1> QED BY <1>2, <1>5

\* A prefix of a sequence of bytes.
LEMMA PrefixType ==
    ASSUME NEW s \in Seq(Byte), NEW n \in 0 .. Len(s)
    PROVE  SubSeq(s, 1, n) \in Seq(Byte) /\ Len(SubSeq(s, 1, n)) = n
BY SubSeqProperties
-----------------------------------------------------------------------------
(* Positions modulo max_len.                                                *)

(* Two positions that name the same place of the ring. *)
SamePlace(a, b) == a % MaxLen = b % MaxLen

(* A multiple of max_len that is less than max_len in size is 0. *)
LEMMA SmallMultiple ==
    ASSUME NEW d \in Int, MaxLen * d < MaxLen, MaxLen * d > -MaxLen
    PROVE  d = 0
<1> USE MaxLenAssumption
<1>1. CASE d >= 1
  BY <1>1
<1>2. CASE d <= -1
  BY <1>2
<1> QED BY <1>1, <1>2

(* A position is a number of turns and a place. *)
LEMMA TurnsAndPlace ==
    ASSUME NEW i \in Int
    PROVE  /\ i = (MaxLen * (i \div MaxLen)) + (i % MaxLen)
           /\ i \div MaxLen \in Int
           /\ i % MaxLen \in 0 .. MaxLen - 1
BY MaxLenAssumption

(* There is one way only to write it so. *)
LEMMA PlaceIsUnique ==
    ASSUME NEW i \in Int, NEW q \in Int, NEW r \in 0 .. MaxLen - 1,
           i = (MaxLen * q) + r
    PROVE  i % MaxLen = r
<1> DEFINE p == i \div MaxLen
           s == i % MaxLen
<1>1. i = (MaxLen * p) + s /\ p \in Int /\ s \in 0 .. MaxLen - 1
  BY TurnsAndPlace
<1> HIDE DEF p, s
<1>2. MaxLen * (q - p) = s - r /\ q - p \in Int
  BY <1>1, MaxLenAssumption
<1>3. q - p = 0
  BY <1>1, <1>2, SmallMultiple, MaxLenAssumption
<1>4. s = r
  BY <1>1, <1>2, <1>3, MaxLenAssumption
<1> QED BY <1>4 DEF s

(* Whole turns do not change the place ... *)
LEMMA WholeTurns ==
    ASSUME NEW a \in Int, NEW b \in Int, NEW q \in Int, a = b + MaxLen * q
    PROVE  SamePlace(a, b)
<1> DEFINE p == b \div MaxLen
           r == b % MaxLen
<1>1. b = (MaxLen * p) + r /\ p \in Int /\ r \in 0 .. MaxLen - 1
  BY TurnsAndPlace
<1> HIDE DEF p, r
<1>2. a = (MaxLen * (p + q)) + r /\ p + q \in Int
  BY <1>1, MaxLenAssumption
<1>3. a % MaxLen = r
  BY <1>1, <1>2, PlaceIsUnique
<1> QED BY <1>3 DEF r, SamePlace

(* ... and nothing else leaves it the same. *)
LEMMA OnlyWholeTurns ==
    ASSUME NEW a \in Int, NEW b \in Int, SamePlace(a, b)
    PROVE  \E q \in Int : a = b + MaxLen * q
<1> DEFINE p == a \div MaxLen
           q == b \div MaxLen
<1>1. /\ a = (MaxLen * p) + (a % MaxLen) /\ p \in Int
      /\ b = (MaxLen * q) + (b % MaxLen) /\ q \in Int
      /\ a % MaxLen = b % MaxLen /\ a % MaxLen \in Int
  BY TurnsAndPlace, MaxLenAssumption DEF SamePlace
<1> HIDE DEF p, q
<1>2. a = b + MaxLen * (p - q) /\ p - q \in Int
  BY <1>1, MaxLenAssumption
<1> QED BY <1>2

(* Positions of the same place stay so when both are moved. *)
LEMMA MoveBoth ==
    ASSUME NEW a \in Int, NEW b \in Int, NEW c \in Int, SamePlace(a, b)
    PROVE  SamePlace(a + c, b + c)
<1>1. PICK q \in Int : a = b + MaxLen * q
  BY OnlyWholeTurns
<1>2. a + c = (b + c) + MaxLen * q /\ a + c \in Int /\ b + c \in Int
  BY <1>1, MaxLenAssumption
<1> QED BY <1>2, WholeTurns

(* Ring_Write and Ring_Read move a position on by n places. *)
LEMMA AdvancePlace ==
    ASSUME NEW o \in 0 .. MaxLen, NEW n \in 0 .. MaxLen
    PROVE  SamePlace(Advance(o, n), o + n)
<1> USE MaxLenAssumption
<1>1. CASE o + n > MaxLen
  <2>1. /\ Advance(o, n) = (o + n) + MaxLen * (-1)
        /\ Advance(o, n) \in Int /\ o + n \in Int /\ -1 \in Int
    BY <1>1 DEF Advance
  <2> QED BY <2>1, WholeTurns
<1>2. CASE ~(o + n > MaxLen)
  BY <1>2 DEF Advance, SamePlace
<1> QED BY <1>1, <1>2
-----------------------------------------------------------------------------
(* The n bytes from position o of a buffer b: Window, for any buffer.       *)
WindowOf(b, o, n) == [k \in 1 .. n |-> b[(o + k - 1) % MaxLen]]

Buffers == [Places -> Byte]

(* A window is a sequence of n bytes. *)
LEMMA WindowOfType ==
    ASSUME NEW b \in Buffers, NEW o \in Int, NEW n \in Nat
    PROVE  /\ WindowOf(b, o, n) \in Seq(Byte)
           /\ Len(WindowOf(b, o, n)) = n
           /\ \A k \in 1 .. n : WindowOf(b, o, n)[k] = b[(o + k - 1) % MaxLen]
<1>1. ASSUME NEW k \in 1 .. n
      PROVE  b[(o + k - 1) % MaxLen] \in Byte
  <2>1. (o + k - 1) \in Int
    OBVIOUS
  <2>2. (o + k - 1) % MaxLen \in Places
    BY <2>1, ModIsPlace
  <2> QED BY <2>2 DEF Buffers
<1> QED BY <1>1 DEF WindowOf

(* Positions of the same place begin the same window. *)
LEMMA SameWindow ==
    ASSUME NEW b \in Buffers, NEW o \in Int, NEW p \in Int, NEW n \in Nat,
           SamePlace(o, p)
    PROVE  WindowOf(b, o, n) = WindowOf(b, p, n)
<1>1. ASSUME NEW k \in 1 .. n
      PROVE  (o + k - 1) % MaxLen = (p + k - 1) % MaxLen
  <2> DEFINE c == k - 1
  <2>1. c \in Int /\ o + c = o + k - 1 /\ p + c = p + k - 1
    OBVIOUS
  <2> HIDE DEF c
  <2>2. SamePlace(o + c, p + c)
    BY <2>1, MoveBoth
  <2> QED BY <2>1, <2>2 DEF SamePlace
<1> QED BY <1>1 DEF WindowOf

(* The first m bytes of a window, and the others. *)
LEMMA SplitWindow ==
    ASSUME NEW b \in Buffers, NEW o \in Int, NEW n \in Nat, NEW m \in 0 .. n
    PROVE  /\ SubSeq(WindowOf(b, o, n), 1, m) = WindowOf(b, o, m)
           /\ SubSeq(WindowOf(b, o, n), m + 1, n) = WindowOf(b, o + m, n - m)
<1> DEFINE w == WindowOf(b, o, n)
           u == WindowOf(b, o, m)
           v == WindowOf(b, o + m, n - m)
           x == SubSeq(w, 1, m)
           y == SubSeq(w, m + 1, n)
<1>0. m \in Nat /\ n - m \in Nat /\ o + m \in Int
  OBVIOUS
<1>1. /\ w \in Seq(Byte) /\ Len(w) = n
      /\ \A k \in 1 .. n : w[k] = b[(o + k - 1) % MaxLen]
  BY WindowOfType
<1>2. /\ u \in Seq(Byte) /\ Len(u) = m
      /\ \A k \in 1 .. m : u[k] = b[(o + k - 1) % MaxLen]
  BY ZenonT(60), <1>0, WindowOfType
<1>3. /\ v \in Seq(Byte) /\ Len(v) = n - m
      /\ \A k \in 1 .. n - m : v[k] = b[((o + m) + k - 1) % MaxLen]
  BY <1>0, WindowOfType
<1> HIDE DEF w, u, v
<1>4. /\ x \in Seq(Byte) /\ Len(x) = m
      /\ \A k \in 1 .. m : x[k] = w[k]
  BY <1>0, <1>1, SubSeqProperties
<1>5. /\ y \in Seq(Byte) /\ Len(y) = n - m
      /\ \A k \in 1 .. n - m : y[k] = w[m + k]
  BY <1>0, <1>1, SubSeqProperties
<1> HIDE DEF x, y
<1>6. x = u
  <2>1. ASSUME NEW k \in 1 .. m PROVE x[k] = u[k]
    <3>1. k \in 1 .. n
      BY <1>0
    <3> QED BY <1>1, <1>2, <1>4, <3>1
  <2> QED BY <1>2, <1>4, <2>1, SeqEqual
<1>7. y = v
  <2>1. ASSUME NEW k \in 1 .. n - m PROVE y[k] = v[k]
    <3>1. m + k \in 1 .. n /\ o + (m + k) - 1 = (o + m) + k - 1
      BY <1>0
    <3> QED BY ZenonT(60), <1>1, <1>3, <1>5, <3>1
  <2> QED BY <1>3, <1>5, <2>1, SeqEqual
<1> QED BY <1>6, <1>7 DEF x, y, w, u, v

(* Two windows, one behind the other, are one window. *)
LEMMA JoinWindows ==
    ASSUME NEW b \in Buffers, NEW o \in Int, NEW n \in Nat, NEW m \in Nat
    PROVE  WindowOf(b, o, n + m) = WindowOf(b, o, n) \o WindowOf(b, o + n, m)
<1> DEFINE w == WindowOf(b, o, n + m)
           u == WindowOf(b, o, n)
           v == WindowOf(b, o + n, m)
           x == u \o v
<1>1. /\ w \in Seq(Byte) /\ Len(w) = n + m
      /\ \A k \in 1 .. n + m : w[k] = b[(o + k - 1) % MaxLen]
  BY WindowOfType
<1>2. /\ u \in Seq(Byte) /\ Len(u) = n
      /\ \A k \in 1 .. n : u[k] = b[(o + k - 1) % MaxLen]
  BY WindowOfType
<1>3. /\ v \in Seq(Byte) /\ Len(v) = m
      /\ \A k \in 1 .. m : v[k] = b[((o + n) + k - 1) % MaxLen]
  BY WindowOfType
<1> HIDE DEF w, u, v
<1>4. /\ x \in Seq(Byte) /\ Len(x) = n + m
      /\ \A k \in 1 .. n + m : x[k] = IF k <= n THEN u[k] ELSE v[k - n]
  <2>0. u \in Seq(Byte) /\ v \in Seq(Byte)
    BY <1>2, <1>3
  <2>1. /\ x \in Seq(Byte) /\ Len(x) = Len(u) + Len(v)
        /\ \A k \in 1 .. Len(u) + Len(v) : x[k] = IF k <= Len(u) THEN u[k] ELSE v[k - Len(u)]
    BY ONLY <2>0, ConcatProperties
  <2> HIDE DEF x
  <2> QED BY ONLY Zenon, <1>2, <1>3, <2>1
<1> HIDE DEF x
<1>5. ASSUME NEW k \in 1 .. n + m PROVE w[k] = x[k]
  <2>1. CASE k <= n
    BY SMTT(60), <1>1, <1>2, <1>4, <2>1
  <2>2. CASE ~(k <= n)
    <3>1. k - n \in 1 .. m /\ (o + n) + (k - n) - 1 = o + k - 1
      BY <2>2
    <3> QED BY ZenonT(60), <1>1, <1>3, <1>4, <2>2, <3>1
  <2> QED BY <2>1, <2>2
<1>6. w = x
  BY <1>1, <1>4, <1>5, SeqEqual
<1> QED BY <1>6 DEF w, x, u, v

(* Buffer b after Ring_Write has copied data to position w. *)
Copied(b, w, data) ==
    [i \in Places |-> LET k == ((i - w) % MaxLen) + 1
                      IN  IF k \in 1 .. Len(data) THEN data[k] ELSE b[i]]

(* Which byte of the data a place receives: the place of position w + d, with *)
(* d less than max_len, is d places behind w.                                 *)
LEMMA Distance ==
    ASSUME NEW w \in Int, NEW p \in Int, NEW d \in 0 .. MaxLen - 1,
           SamePlace(p, w + d)
    PROVE  ((p % MaxLen) - w) % MaxLen = d
<1> DEFINE r == p % MaxLen
           t == p \div MaxLen
<1>0. d \in Int /\ w + d \in Int /\ MaxLen \in Int
  BY MaxLenAssumption
<1>1. PICK q \in Int : p = (w + d) + MaxLen * q
  BY <1>0, OnlyWholeTurns
<1>2. p = (MaxLen * t) + r /\ t \in Int /\ r \in 0 .. MaxLen - 1
  BY TurnsAndPlace
<1> HIDE DEF r, t
<1>3. r - w = (MaxLen * (q - t)) + d /\ q - t \in Int /\ r - w \in Int
  BY <1>0, <1>1, <1>2, MaxLenAssumption
<1>4. (r - w) % MaxLen = d
  BY <1>3, PlaceIsUnique
<1> QED BY <1>4 DEF r

(* What was copied can be read from where it was copied to. *)
LEMMA ReadBack ==
    ASSUME NEW b \in Buffers, NEW w \in Int, NEW data \in Seq(Byte),
           Len(data) <= MaxLen
    PROVE  /\ Copied(b, w, data) \in Buffers
           /\ WindowOf(Copied(b, w, data), w, Len(data)) = data
<1> DEFINE c == Copied(b, w, data)
           v == WindowOf(c, w, Len(data))
<1>0. Len(data) \in Nat /\ MaxLen \in Nat
  BY MaxLenAssumption
<1>1. c \in Buffers
  <2>1. ASSUME NEW k \in 1 .. Len(data) PROVE data[k] \in Byte
    OBVIOUS
  <2>2. ASSUME NEW i \in Places PROVE b[i] \in Byte
    BY DEF Buffers
  <2> QED BY <2>1, <2>2 DEF Copied, Buffers
<1>2. ASSUME NEW k \in 1 .. Len(data) PROVE c[(w + k - 1) % MaxLen] = data[k]
  <2> DEFINE d == k - 1
             p == w + d
  <2>1. /\ d \in 0 .. MaxLen - 1 /\ d + 1 = k
        /\ p \in Int /\ p = w + k - 1
    BY <1>0
  <2> HIDE DEF d
  <2>2. ((p % MaxLen) - w) % MaxLen = d
    BY <2>1, Distance DEF SamePlace
  <2>3. p % MaxLen \in Places
    BY <2>1, ModIsPlace
  <2> HIDE DEF p
  <2>4. c[p % MaxLen] = data[k]
    BY <2>1, <2>2, <2>3 DEF Copied
  <2> QED BY <2>1, <2>4
<1> HIDE DEF c
<1>3. /\ v \in Seq(Byte) /\ Len(v) = Len(data)
      /\ \A k \in 1 .. Len(data) : v[k] = c[(w + k - 1) % MaxLen]
  BY <1>0, <1>1, WindowOfType
<1> HIDE DEF v
<1>4. \A k \in 1 .. Len(data) : v[k] = data[k]
  BY <1>2, <1>3
<1>5. v = data
  BY <1>3, <1>4, SeqEqual
<1> QED BY <1>1, <1>5 DEF v, c

(* Copying behind a window changes nothing in it, if there is room for both. *)
LEMMA CopyBehind ==
    ASSUME NEW b \in Buffers, NEW w \in Int, NEW data \in Seq(Byte),
           NEW o \in Int, NEW n \in Nat, SamePlace(o + n, w),
           n + Len(data) <= MaxLen
    PROVE  WindowOf(Copied(b, w, data), o, n) = WindowOf(b, o, n)
<1> DEFINE c == Copied(b, w, data)
<1>0. Len(data) \in Nat /\ MaxLen \in Nat
  BY MaxLenAssumption
<1>1. ASSUME NEW k \in 1 .. n
      PROVE  c[(o + k - 1) % MaxLen] = b[(o + k - 1) % MaxLen]
  <2> DEFINE p == o + k - 1
             d == MaxLen + k - 1 - n
             on == o + n
             f == k - 1 - n
  <2>1. /\ p \in Int /\ d \in Int /\ on \in Int /\ f \in Int
        /\ d \in 0 .. MaxLen - 1 /\ p = on + f /\ w + d = (w + f) + MaxLen * 1
        /\ w + f \in Int /\ w + d \in Int
    BY <1>0
  <2>2. d + 1 > Len(data)
    BY <1>0
  <2>3. p % MaxLen \in Places
    BY <2>1, ModIsPlace
  <2>4. SamePlace(on, w)
    OBVIOUS
  <2> HIDE DEF p, d, on, f
  <2>5. SamePlace(on + f, w + f)
    BY <2>1, <2>4, MoveBoth
  <2>6. SamePlace(w + d, w + f)
    BY <2>1, WholeTurns
  <2>7. SamePlace(p, w + d)
    BY <2>1, <2>5, <2>6 DEF SamePlace
  <2>8. ((p % MaxLen) - w) % MaxLen = d
    BY <2>1, <2>7, Distance
  <2>9. c[p % MaxLen] = b[p % MaxLen]
    <3> DEFINE x == p % MaxLen
               y == (x - w) % MaxLen
    <3>1. x \in Places /\ y = d
      BY <2>3, <2>8
    <3>2. c[x] = IF y + 1 \in 1 .. Len(data) THEN data[y + 1] ELSE b[x]
      BY <2>3 DEF Copied
    <3> HIDE DEF x, y, c
    <3>3. y + 1 \notin 1 .. Len(data)
      BY ONLY <1>0, <2>1, <2>2, <3>1
    <3> QED BY <3>2, <3>3 DEF x
  <2> QED BY <2>9 DEF p
<1> HIDE DEF c
<1>2. WindowOf(c, o, n) = WindowOf(b, o, n)
  BY <1>1 DEF WindowOf
<1> QED BY <1>2 DEF c
-----------------------------------------------------------------------------

(* What Ring_Write is about to commit still fits: the interrupt has only    *)
(* made more room since.                                                    *)
CommitFits == wpc = "commit" => /\ written \in 1 .. Len(src)
                                /\ len + written <= MaxLen

(* A writer whose bytes did not all fit has filled the buffer beyond the    *)
(* trigger level, or will with its commit, or the crossing of that level    *)
(* has been posted.                                                         *)
ShortWrite ==
    /\ wpc = "commit" /\ written # Len(src)
          => send_semp = 1 \/ len > SendTrigLevel \/ written > SendTrigLevel
    /\ wpc \in {"clear", "start"} /\ src # << >>
          => send_semp = 1 \/ len > SendTrigLevel

(* From the start of the transmission on, the interrupt is there to cross   *)
(* the level, or has crossed it.                                            *)
SomeoneWillPost ==
    wpc = "pend" => send_semp = 1 \/ (len > SendTrigLevel /\ sending)

(* Once the old lamp of BlockingSemp is forgotten, a new one means that the *)
(* buffer is empty, and it stays empty: its only writer waits.              *)
LampMeansEmpty ==
    /\ wpc \in {"start", "bpend"} /\ block_semp = 1 => len = 0
    /\ wpc \in {"bpend", "bwait"} => src = << >>

TxInv == /\ TxTypeOK
         /\ CommitFits
         /\ ShortWrite
         /\ SomeoneWillPost
         /\ WriterIsRemembered
         /\ LampMeansEmpty
         /\ BlockingMeansSent

(* Of a sequence of bytes the rest after n of them, and when it is empty. *)
LEMMA DropProperties ==
    ASSUME NEW s \in Seq(Byte), NEW n \in 0 .. Len(s)
    PROVE  /\ Drop(s, n) \in Seq(Byte)
           /\ n = Len(s) => Drop(s, n) = << >>
<1>1. n + 1 \in Int /\ Len(s) \in Int
  OBVIOUS
<1>2. Drop(s, n) \in Seq(Byte)
  BY <1>1, SubSeqProperties DEF Drop
<1>3. ASSUME n = Len(s) PROVE Drop(s, n) = << >>
  BY <1>1, <1>3, SubSeqEmpty DEF Drop
<1> QED BY <1>2, <1>3

(* A port that has just been installed satisfies the invariant. *)
LEMMA TxInitInv ==
    ASSUME TxInit PROVE TxInv
<1>1. RingTypeOK
  BY MaxLenAssumption DEF TxInit, RingInit, RingTypeOK, Places
<1>2. block \in BOOLEAN /\ sending \in BOOLEAN /\ writable \in BOOLEAN
  BY Zenon DEF TxInit
<1>3. written \in 0 .. MaxLen
  BY MaxLenAssumption DEF TxInit
<1>4. << >> \in Seq(Byte)
  OBVIOUS
<1>5. TxTypeOK
  BY <1>1, <1>2, <1>3, <1>4 DEF TxInit, TxTypeOK, WritePCs
<1> QED BY <1>5 DEF TxInit, TxInv, CommitFits, ShortWrite, SomeoneWillPost,
             WriterIsRemembered, LampMeansEmpty, BlockingMeansSent

(* The thread's part of Ring_Write keeps the invariant: this is where the   *)
(* trigger level has to be less than half of the buffer.                    *)
LEMMA RingWriteInv ==
    ASSUME TxInv, RingWrite PROVE TxInv'
<1> USE DEF TxInv, RingWrite
<1>1. Len(src) \in Nat /\ len \in 0 .. MaxLen /\ len \in Nat
  BY MaxLenAssumption DEF TxTypeOK, RingTypeOK
<1>2. /\ written' \in 0 .. MaxLen
      /\ written' <= Len(src)
      /\ len + written' <= MaxLen
      /\ written' = Len(src) \/ len + written' = MaxLen
  BY <1>1, RoomForBounds
<1>3. written' # 0 => /\ SubSeq(src, 1, written') \in Seq(Byte)
                      /\ Len(SubSeq(src, 1, written')) = written'
  <2>1. written' \in 0 .. Len(src)
    BY <1>1, <1>2, MaxLenAssumption
  <2> QED BY <2>1, PrefixType DEF TxTypeOK
<1>4. buf' \in [Places -> Byte] /\ offset_write' \in 0 .. MaxLen
  <2>1. CASE written' = 0
    BY <2>1 DEF TxTypeOK, RingTypeOK
  <2>2. CASE written' # 0
    <3>1. Len(SubSeq(src, 1, written')) <= MaxLen
      BY <1>2, <1>3, <2>2, MaxLenAssumption
    <3> QED BY <1>3, <2>2, <3>1, CopyInType DEF TxTypeOK
  <2> QED BY <2>1, <2>2
<1>5. TxTypeOK'
  BY SMTT(60), <1>2, <1>4 DEF TxTypeOK, RingTypeOK, WritePCs
<1>6. CommitFits'
  BY <1>1, <1>2, MaxLenAssumption DEF CommitFits
<1>7. ShortWrite'
  <2>1. written' # Len(src) =>
            len > SendTrigLevel \/ written' > SendTrigLevel
    BY <1>1, <1>2, TxAssumption, MaxLenAssumption
  <2>2. written' = 0 /\ src # << >> => len > SendTrigLevel
    <3>1. src # << >> => Len(src) # 0
      BY EmptySeq DEF TxTypeOK
    <3> QED BY <1>1, <1>2, <3>1, TxAssumption, MaxLenAssumption
  <2> QED BY <2>1, <2>2 DEF ShortWrite
<1>8. SomeoneWillPost' /\ WriterIsRemembered' /\ LampMeansEmpty'
          /\ BlockingMeansSent'
  BY DEF SomeoneWillPost, WriterIsRemembered, LampMeansEmpty, BlockingMeansSent
<1> QED BY <1>5, <1>6, <1>7, <1>8

(* The atomic section of Ring_Write keeps the invariant. *)
LEMMA RingWriteLenInv ==
    ASSUME TxInv, RingWriteLen PROVE TxInv'
<1> USE DEF TxInv, RingWriteLen
<1>1. /\ written \in 0 .. Len(src) /\ written \in Nat /\ len \in Nat
      /\ written >= 1 /\ len + written <= MaxLen
  BY MaxLenAssumption DEF CommitFits, TxTypeOK, RingTypeOK
<1>2. /\ Drop(src, written) \in Seq(Byte)
      /\ written = Len(src) => Drop(src, written) = << >>
  BY <1>1, DropProperties DEF TxTypeOK
<1>3. TxTypeOK'
  BY <1>1, <1>2, MaxLenAssumption DEF TxTypeOK, RingTypeOK, WritePCs
<1>4. ShortWrite'
  <2>1. src' # << >> => send_semp = 1 \/ len > SendTrigLevel
                                      \/ written > SendTrigLevel
    BY <1>2 DEF ShortWrite
  <2>2. src' # << >> => send_semp = 1 \/ len' > SendTrigLevel
    BY <1>1, <2>1, TxAssumption
  <2> QED BY <2>2 DEF ShortWrite
<1>5. CommitFits' /\ SomeoneWillPost' /\ WriterIsRemembered' /\ LampMeansEmpty'
          /\ BlockingMeansSent'
  BY DEF CommitFits, SomeoneWillPost, WriterIsRemembered, LampMeansEmpty,
         BlockingMeansSent
<1> QED BY <1>3, <1>4, <1>5

(* The thread's steps outside Ring_Write, a new call and a timeout included, *)
(* keep the invariant.                                                       *)
LEMMA WriterInv ==
    ASSUME TxInv,
           \/ \E d \in Data, b \in BOOLEAN : AppWrite(d, b)
           \/ ForgetSent \/ StartSend \/ PendRoom \/ PendSent
           \/ TestFull \/ ClearWritable \/ WriteTimeout
    PROVE  TxInv'
<1> USE DEF TxInv, TxTypeOK, RingTypeOK, WritePCs, ringVars, CommitFits,
            ShortWrite, SomeoneWillPost, WriterIsRemembered, LampMeansEmpty,
            BlockingMeansSent
<1>1. ASSUME NEW d \in Data, NEW b \in BOOLEAN, AppWrite(d, b) PROVE TxInv'
  <2>1. d \in Seq(Byte)
    BY TxAssumption
  <2> QED BY <1>1, <2>1 DEF AppWrite
<1>2. CASE ForgetSent
  BY <1>2 DEF ForgetSent
<1>3. CASE StartSend
  BY <1>3 DEF StartSend
<1>4. CASE PendRoom
  BY <1>4 DEF PendRoom, AfterPend
<1>5. CASE PendSent
  BY <1>5 DEF PendSent
<1>6. CASE TestFull
  <2>1. << >> \in Seq(Byte)
    OBVIOUS
  <2> QED BY <1>6, <2>1 DEF TestFull
<1>7. CASE ClearWritable
  <2>1. << >> \in Seq(Byte)
    OBVIOUS
  <2> QED BY <1>7, <2>1 DEF ClearWritable
<1>8. CASE WriteTimeout
  BY <1>8 DEF WriteTimeout
<1> QED BY <1>1, <1>2, <1>3, <1>4, <1>5, <1>6, <1>7, <1>8

(* A transmit interrupt that finds bytes keeps the invariant, wherever the  *)
(* thread is: when it takes the buffer to the trigger level it posts.       *)
LEMMA PortReadSomeInv ==
    ASSUME TxInv, NEW n \in 1 .. MaxChunk, PortReadSome(n)
    PROVE  TxInv'
<1> DEFINE result == Available(n)
<1>1. n \in Nat /\ len \in 0 .. MaxLen /\ len \in Nat
      /\ offset_read \in 0 .. MaxLen /\ offset_read \in Nat
  BY TxAssumption, MaxLenAssumption DEF TxInv, TxTypeOK, RingTypeOK
<1>2. result \in 0 .. MaxLen /\ result \in Nat /\ result <= len
  BY <1>1, AvailableBounds, MaxLenAssumption
<1>3. /\ sending /\ len > 0
      /\ fetched' = Window(offset_read, result)
      /\ offset_read' = Advance(offset_read, result)
      /\ len' = len - result
      /\ PostRoom(len, len - result)
      /\ writable' = (writable \/ CrossesDown(MplWriteLevel, len, len - result))
      /\ UNCHANGED <<buf, offset_write, src, written, block, block_semp, sending>>
  BY DEF PortReadSome, CopyOut
<1> HIDE DEF result
<1>4. fetched' \in Seq(Byte) /\ offset_read' \in 0 .. MaxLen
  BY <1>1, <1>2, <1>3, WindowType, AdvanceType DEF TxInv, TxTypeOK
<1>5. len' \in 0 .. MaxLen /\ len' \in Nat /\ len' <= len
  BY <1>1, <1>2, <1>3, MaxLenAssumption
<1>6. writable' \in BOOLEAN
  BY <1>3, Zenon DEF TxInv, TxTypeOK, CrossesDown
<1>7. CASE CrossesDown(SendTrigLevel, len, len - result) /\ wpc = "wait"
  <2>1. wpc' \in {"write", "finish"} /\ send_semp' = send_semp
    BY <1>3, <1>7 DEF PostRoom, AfterPend
  <2>2. TxTypeOK'
    BY SMTT(60), <1>3, <1>4, <1>5, <1>6, <2>1 DEF TxInv, TxTypeOK, RingTypeOK, WritePCs
  <2> QED BY <2>1, <2>2 DEF TxInv, CommitFits, ShortWrite, SomeoneWillPost,
               WriterIsRemembered, LampMeansEmpty, BlockingMeansSent
<1>8. CASE CrossesDown(SendTrigLevel, len, len - result) /\ wpc # "wait"
  <2>1. wpc' = wpc /\ send_semp' = 1
    BY <1>3, <1>8 DEF PostRoom
  <2>2. TxTypeOK'
    BY <1>3, <1>4, <1>5, <1>6, <2>1 DEF TxInv, TxTypeOK, RingTypeOK, WritePCs
  <2>3. CommitFits'
    BY SMTT(60), <1>1, <1>3, <1>5, <2>1, MaxLenAssumption
       DEF TxInv, TxTypeOK, CommitFits
  <2>4. LampMeansEmpty' /\ BlockingMeansSent'
    BY <1>1, <1>2, <1>3, <1>5, <2>1 DEF TxInv, LampMeansEmpty, BlockingMeansSent
  <2> QED BY <1>8, <2>1, <2>2, <2>3, <2>4 DEF TxInv, ShortWrite,
               SomeoneWillPost, WriterIsRemembered
<1>9. CASE ~CrossesDown(SendTrigLevel, len, len - result)
  <2>1. wpc' = wpc /\ send_semp' = send_semp
    BY <1>3, <1>9 DEF PostRoom
  <2>2. TxTypeOK'
    BY <1>3, <1>4, <1>5, <1>6, <2>1 DEF TxInv, TxTypeOK, RingTypeOK, WritePCs
  <2>3. CommitFits'
    BY SMTT(60), <1>1, <1>3, <1>5, <2>1, MaxLenAssumption
       DEF TxInv, TxTypeOK, CommitFits
  <2>4. LampMeansEmpty' /\ BlockingMeansSent'
    BY <1>1, <1>2, <1>3, <1>5, <2>1 DEF TxInv, LampMeansEmpty, BlockingMeansSent
  <2>5. len > SendTrigLevel => len' > SendTrigLevel
    BY <1>1, <1>3, <1>5, <1>9, TxAssumption DEF CrossesDown
  <2> QED BY <1>3, <2>1, <2>2, <2>3, <2>4, <2>5 DEF TxInv, ShortWrite,
               SomeoneWillPost, WriterIsRemembered
<1> QED BY <1>7, <1>8, <1>9

(* A transmit interrupt that finds the buffer empty keeps the invariant. *)
LEMMA PortReadNoneInv ==
    ASSUME TxInv, PortReadNone PROVE TxInv'
<1>1. ~(len > SendTrigLevel)
  BY TxAssumption DEF PortReadNone
<1>2. << >> \in Seq(Byte)
  OBVIOUS
<1> QED BY ZenonT(60), <1>1, <1>2 DEF TxInv, PortReadNone, TxTypeOK, RingTypeOK, WritePCs,
             ringVars, CommitFits, ShortWrite, SomeoneWillPost,
             WriterIsRemembered, LampMeansEmpty, BlockingMeansSent

(* Every step of the sender keeps the invariant. *)
LEMMA TxStepInv ==
    ASSUME TxInv, [TxNext]_txVars PROVE TxInv'
<1>1. CASE RingWrite
  BY <1>1, RingWriteInv
<1>2. CASE RingWriteLen
  BY <1>2, RingWriteLenInv
<1>3. CASE \/ \E d \in Data, b \in BOOLEAN : AppWrite(d, b)
           \/ ForgetSent \/ StartSend \/ PendRoom \/ PendSent
           \/ TestFull \/ ClearWritable \/ WriteTimeout
  BY <1>3, WriterInv
<1>4. CASE PortReadNone
  BY <1>4, PortReadNoneInv
<1>5. CASE \E n \in 1 .. MaxChunk : PortReadSome(n)
  BY <1>5, PortReadSomeInv
<1>6. CASE UNCHANGED txVars
  BY <1>6 DEF TxInv, txVars, ringVars, TxTypeOK, RingTypeOK, CommitFits,
              ShortWrite, SomeoneWillPost, WriterIsRemembered, LampMeansEmpty,
              BlockingMeansSent
<1> QED BY <1>1, <1>2, <1>3, <1>4, <1>5, <1>6 DEF TxNext, WriterStep, PortRead

(* Every reachable state of the sender satisfies the invariant. *)
LEMMA TxInvariance == TxSpec => []TxInv
<1>1. TxInit => TxInv
  BY TxInitInv
<1>2. TxInv /\ [TxNext]_txVars => TxInv'
  BY TxStepInv
<1> QED BY <1>1, <1>2, PTL DEF TxSpec

(* The sender's variables keep their types: no position leaves the buffer   *)
(* and len never exceeds max_len nor falls below 0.                         *)
THEOREM TxTypeCorrect == TxSpec => []TxTypeOK
<1>1. TxInv => TxTypeOK
  BY DEF TxInv
<1> QED BY <1>1, TxInvariance, PTL

(* UART_AppWrite never sleeps for a crossing of the trigger level that the  *)
(* transmit interrupt has already passed, or will never come to.            *)
THEOREM WritersAreRemembered == TxSpec => []WriterIsRemembered
<1>1. TxInv => WriterIsRemembered
  BY DEF TxInv
<1> QED BY <1>1, TxInvariance, PTL

(* A blocking UART_AppWrite that is told that everything was sent finds     *)
(* the buffer empty and all its bytes gone through it.                      *)
THEOREM BlockingWritesAreSent == TxSpec => []BlockingMeansSent
<1>1. TxInv => BlockingMeansSent
  BY DEF TxInv
<1> QED BY <1>1, TxInvariance, PTL
-----------------------------------------------------------------------------
(* What Ring_Read is about to commit is still there and was asked for: the  *)
(* interrupt has only added bytes since.                                    *)
CommitIsThere ==
    rpc \in {"commit1", "commit"} => taken <= len /\ taken <= want

(* From SetTrigLevel until it reads again, the reader's own level is the    *)
(* one that UART_PortWrite compares with.                                   *)
LevelInForce == rpc \in {"check", "pend", "wait"} => trig = level

(* A reader about to pend has seen the buffer below the level, and a byte   *)
(* that reached it since has left a lamp.                                   *)
LampOrBelow == rpc = "pend" => len < trig \/ recv_semp = 1

RxInv == /\ RxTypeOK
         /\ CommitIsThere
         /\ LevelInForce
         /\ LampOrBelow
         /\ ReaderIsRemembered

(* A port that has just been installed satisfies the invariant. *)
LEMMA RxInitInv ==
    ASSUME RxInit PROVE RxInv
<1>1. RingTypeOK
  BY MaxLenAssumption DEF RxInit, RingInit, RingTypeOK, Places
<1>2. readable \in BOOLEAN /\ overrun \in BOOLEAN
  BY Zenon DEF RxInit
<1>3. taken \in 0 .. MaxLen /\ trig \in Nat
  BY MaxLenAssumption, RxAssumption DEF RxInit
<1>4. << >> \in Seq(Byte)
  OBVIOUS
<1>5. RxTypeOK
  BY <1>1, <1>2, <1>3, <1>4 DEF RxInit, RxTypeOK, ReadPCs
<1> QED BY <1>5 DEF RxInit, RxInv, CommitIsThere, LevelInForce, LampOrBelow,
             ReaderIsRemembered

(* The first part of Ring_Read keeps the invariant. *)
LEMMA RingReadInv ==
    ASSUME RxInv, RingRead PROVE RxInv'
<1> USE DEF RxInv
<1>1. /\ len \in 0 .. MaxLen /\ want \in Nat
      /\ offset_read \in 0 .. MaxLen /\ offset_read \in Nat
  BY MaxLenAssumption DEF RxTypeOK, RingTypeOK
<1>2. taken' \in 0 .. MaxLen /\ taken' \in Nat /\ taken' <= want /\ taken' <= len
  BY <1>1, AvailableBounds, MaxLenAssumption DEF RingRead
<1>3. dst' \in Seq(Byte) /\ offset_read' \in 0 .. MaxLen
  BY <1>1, <1>2, WindowType, AdvanceType DEF RingRead, CopyOut, RxTypeOK
<1>4. rpc' \in {"commit1", "commit"}
  BY DEF RingRead
<1>5. RxTypeOK'
  BY <1>2, <1>3, <1>4 DEF RingRead, RxTypeOK, RingTypeOK, ReadPCs
<1>6. CommitIsThere'
  BY <1>2 DEF RingRead, CommitIsThere
<1> QED BY <1>4, <1>5, <1>6 DEF LevelInForce, LampOrBelow, ReaderIsRemembered

(* The atomic section of Ring_Read, and what follows it, keep the invariant. *)
LEMMA RingReadLenInv ==
    ASSUME RxInv, RingReadLen PROVE RxInv'
<1> USE DEF RxInv
<1>1. /\ len \in Nat /\ len <= MaxLen /\ want \in Nat /\ taken \in Nat
      /\ taken <= len /\ taken <= want
  BY MaxLenAssumption DEF RxTypeOK, RingTypeOK, RingReadLen, CommitIsThere
<1>2. len' \in 0 .. MaxLen /\ want' \in Nat
  BY <1>1, MaxLenAssumption DEF RingReadLen
<1>3. MaxLen \div 2 \in Nat
  BY MaxLenAssumption
<1>4. level' \in Nat
  BY <1>2, <1>3 DEF RingReadLen, Least, RxTypeOK
<1>5. rpc' \in {"finish", "restore", "level"}
  BY DEF RingReadLen
<1>6. RxTypeOK'
  BY <1>2, <1>4, <1>5 DEF RingReadLen, RxTypeOK, RingTypeOK, ReadPCs
<1> QED BY <1>5, <1>6 DEF CommitIsThere, LevelInForce, LampOrBelow,
             ReaderIsRemembered

(* The reader's other steps, a new call and a timeout included, keep the    *)
(* invariant: the level is in force before the buffer is tested.            *)
LEMMA ReaderInv ==
    ASSUME RxInv,
           \/ \E n \in 1 .. MaxRead : AppRead(n)
           \/ WaitForLevel \/ PendData \/ ReadTimeout
           \/ RestoreTrigLevel \/ TestEmpty \/ ClearReadable
    PROVE  RxInv'
<1> USE DEF RxInv, RxTypeOK, RingTypeOK, ReadPCs, ringVars, readVars, bitVars,
            CommitIsThere, LevelInForce, LampOrBelow, ReaderIsRemembered
<1>1. ASSUME NEW n \in 1 .. MaxRead, AppRead(n) PROVE RxInv'
  <2>1. n \in Nat
    BY RxAssumption
  <2> QED BY <1>1, <2>1 DEF AppRead
<1>2. CASE SetTrigLevel
  BY <1>2 DEF SetTrigLevel
<1>3. CASE CheckLevel
  BY <1>3 DEF CheckLevel
<1>4. CASE PendData
  BY <1>4 DEF PendData
<1>5. CASE ReadTimeout
  BY <1>5 DEF ReadTimeout
<1>6. CASE RestoreTrigLevel
  BY <1>6, RxAssumption DEF RestoreTrigLevel
<1>7. CASE TestEmpty
  BY <1>7 DEF TestEmpty
<1>8. CASE ClearReadable
  BY <1>8 DEF ClearReadable
<1> QED BY <1>1, <1>2, <1>3, <1>4, <1>5, <1>6, <1>7, <1>8 DEF WaitForLevel

(* A receive interrupt keeps the invariant, wherever the reader is: when it *)
(* takes the buffer to the trigger level it posts.                          *)
LEMMA PortWriteInv ==
    ASSUME RxInv, NEW data \in Chunks, PortWrite(data)
    PROVE  RxInv'
<1> DEFINE n == RoomFor(Len(data))
<1>1. /\ data \in Seq(Byte) /\ Len(data) \in Nat
      /\ len \in 0 .. MaxLen /\ len \in Nat /\ trig \in Nat
  BY RxAssumption, MaxLenAssumption DEF RxInv, RxTypeOK, RingTypeOK
<1>2. n \in 0 .. MaxLen /\ n \in Nat /\ n <= Len(data) /\ len + n <= MaxLen
  BY <1>1, RoomForBounds, MaxLenAssumption
<1>3. /\ line' = data
      /\ IF n = 0 THEN UNCHANGED <<buf, offset_write>>
                  ELSE CopyIn(SubSeq(data, 1, n))
      /\ len' = len + n
      /\ overrun' = (overrun \/ n # Len(data))
      /\ IF CrossesUp(trig, len, len + n)
         THEN IF rpc = "wait" THEN rpc' = "read" /\ UNCHANGED recv_semp
                              ELSE recv_semp' = 1 /\ UNCHANGED rpc
         ELSE UNCHANGED <<rpc, recv_semp>>
      /\ readable' = (readable \/ CrossesUp(MplReadLevel, len, len + n))
      /\ UNCHANGED <<offset_read, readVars, trig>>
  BY DEF PortWrite
<1> HIDE DEF n
<1>4. buf' \in [Places -> Byte] /\ offset_write' \in 0 .. MaxLen
  <2>1. CASE n = 0
    BY <1>3, <2>1 DEF RxInv, RxTypeOK, RingTypeOK
  <2>2. CASE n # 0
    <3>1. n \in 0 .. Len(data)
      BY <1>1, <1>2
    <3>2. /\ SubSeq(data, 1, n) \in Seq(Byte)
          /\ Len(SubSeq(data, 1, n)) <= MaxLen
      BY <1>1, <1>2, <3>1, PrefixType, MaxLenAssumption
    <3> QED BY <1>3, <2>2, <3>2, CopyInType DEF RxInv, RxTypeOK
  <2> QED BY <2>1, <2>2
<1>5. len' \in 0 .. MaxLen /\ len' \in Nat /\ len <= len'
  BY <1>1, <1>2, <1>3, MaxLenAssumption
<1>6. readable' \in BOOLEAN /\ overrun' \in BOOLEAN
  BY <1>3, Zenon DEF RxInv, RxTypeOK, CrossesUp
<1>7. recv_semp' \in {0, 1} /\ rpc' \in {rpc, "read"}
  BY <1>3 DEF RxInv, RxTypeOK
<1>8. RxTypeOK'
  BY <1>1, <1>3, <1>4, <1>5, <1>6, <1>7
     DEF RxInv, RxTypeOK, RingTypeOK, ReadPCs, readVars
<1>9. CommitIsThere'
  BY SMTT(60), <1>1, <1>3, <1>5, <1>7, MaxLenAssumption
     DEF RxInv, RxTypeOK, CommitIsThere, readVars
<1>10. LevelInForce'
  BY <1>3, <1>7 DEF RxInv, LevelInForce, readVars
<1>11. LampOrBelow' /\ ReaderIsRemembered'
  <2>1. CASE CrossesUp(trig, len, len + n)
    BY <1>3, <2>1 DEF RxInv, LampOrBelow, ReaderIsRemembered
  <2>2. CASE ~CrossesUp(trig, len, len + n)
    <3>1. rpc' = rpc /\ recv_semp' = recv_semp /\ trig' = trig
      BY <1>3, <2>2
    <3>2. len < trig => len' < trig
      BY <1>1, <1>2, <1>3, <2>2 DEF CrossesUp
    <3> QED BY <3>1, <3>2 DEF RxInv, LampOrBelow, ReaderIsRemembered
  <2> QED BY <2>1, <2>2
<1> QED BY <1>8, <1>9, <1>10, <1>11 DEF RxInv

(* Every step of the receiver keeps the invariant. *)
LEMMA RxStepInv ==
    ASSUME RxInv, [RxNext]_rxVars PROVE RxInv'
<1>1. CASE RingRead
  BY <1>1, RingReadInv
<1>2. CASE RingReadLen
  BY <1>2, RingReadLenInv
<1>3. CASE \/ \E n \in 1 .. MaxRead : AppRead(n)
           \/ WaitForLevel \/ PendData \/ ReadTimeout
           \/ RestoreTrigLevel \/ TestEmpty \/ ClearReadable
  BY <1>3, ReaderInv
<1>4. CASE \E d \in Chunks : PortWrite(d)
  BY <1>4, PortWriteInv
<1>5. CASE UNCHANGED rxVars
  BY <1>5 DEF RxInv, rxVars, ringVars, readVars, bitVars, RxTypeOK, RingTypeOK,
              CommitIsThere, LevelInForce, LampOrBelow, ReaderIsRemembered
<1> QED BY <1>1, <1>2, <1>3, <1>4, <1>5 DEF RxNext, ReaderStep

(* Every reachable state of the receiver satisfies the invariant. *)
LEMMA RxInvariance == RxSpec => []RxInv
<1>1. RxInit => RxInv
  BY RxInitInv
<1>2. RxInv /\ [RxNext]_rxVars => RxInv'
  BY RxStepInv
<1> QED BY <1>1, <1>2, PTL DEF RxSpec

(* The receiver's variables keep their types: no position leaves the buffer *)
(* and len stays between 0 and max_len.                                     *)
THEOREM RxTypeCorrect == RxSpec => []RxTypeOK
<1>1. RxInv => RxTypeOK
  BY DEF RxInv
<1> QED BY <1>1, RxInvariance, PTL

(* UART_AppRead never sleeps while the buffer already holds as many bytes   *)
(* as the trigger level that UART_PortWrite compares with.                  *)
THEOREM ReadersAreRemembered == RxSpec => []ReaderIsRemembered
<1>1. RxInv => ReaderIsRemembered
  BY DEF RxInv
<1> QED BY <1>1, RxInvariance, PTL
-----------------------------------------------------------------------------
(* The composition, and what goes through the ring buffer.                  *)

(* Bytes that Ring_Write has copied and not yet counted in len. *)
Pending == IF wpc = "commit" THEN written ELSE 0

(* The write position of the sender is where the bytes end that are counted *)
(* or copied, and what is copied and not counted are the next bytes of src. *)
TxAligned ==
    /\ SamePlace(offset_read + (len + Pending), offset_write)
    /\ wpc = "commit" => WindowOf(buf, offset_read + len, written)
                             = SubSeq(src, 1, written)

(* The write position of the receiver is where the counted bytes end, and   *)
(* what Ring_Read has copied are the first of them.                         *)
RxAligned ==
    /\ SamePlace(FirstByte + len, offset_write)
    /\ rpc \in {"commit1", "commit"} => dst = WindowOf(buf, FirstByte, taken)

PortInv == /\ TypeOK
           /\ half = "tx" => rpc = "idle" /\ TxInv /\ TxAligned
           /\ half = "rx" => wpc = "idle" /\ RxInv /\ RxAligned
           /\ half \in {"tx", "rx"}

(* The refinement mapping: what represents the variables of the queue. *)
Content == Window(FirstByte, len)
FifoVars == <<Content, IF half = "tx" THEN src ELSE line,
              IF half = "tx" THEN fetched ELSE got>>

(* The queue is a window of the buffer, before and after a step. *)
LEMMA ContentIsWindow ==
    /\ Content = WindowOf(buf, FirstByte, len)
    /\ Content' = WindowOf(buf', FirstByte', len')
BY DEF Content, Window, WindowOf

(* What the types say about the ring, in the form the lemmas on windows use. *)
LEMMA RingFacts ==
    ASSUME RingTypeOK
    PROVE  /\ buf \in Buffers /\ MaxLen \in Nat /\ MaxLen \in Int
           /\ len \in 0 .. MaxLen /\ len \in Nat /\ len \in Int
           /\ offset_read \in 0 .. MaxLen /\ offset_read \in Int
           /\ offset_write \in 0 .. MaxLen /\ offset_write \in Int
BY MaxLenAssumption DEF RingTypeOK, Buffers

(* A new port satisfies the invariant and holds no byte. *)
LEMMA PortInit ==
    ASSUME Init PROVE PortInv /\ Fifo!Init
<1>1. TxInv /\ RxInv
  BY TxInitInv, RxInitInv DEF Init
<1>2. TypeOK
  BY <1>1 DEF TxInv, RxInv, TypeOK
<1>3. /\ rpc = "idle" /\ wpc = "idle" /\ len = 0 /\ half \in {"tx", "rx"}
      /\ offset_read = 0 /\ offset_write = 0
      /\ src = << >> /\ line = << >> /\ fetched = << >> /\ got = << >>
  BY DEF Init, TxInit, RxInit, RingInit
<1>4. FirstByte = 0 /\ Pending = 0
  BY <1>3 DEF FirstByte, Pending
<1>5. TxAligned /\ RxAligned
  BY <1>3, <1>4 DEF TxAligned, RxAligned, SamePlace
<1>6. PortInv
  BY <1>1, <1>2, <1>3, <1>5 DEF PortInv
<1>7. Content = << >>
  <2>1. Content = [k \in 1 .. 0 |-> buf[(0 + k - 1) % MaxLen]]
    BY <1>3, <1>4 DEF Content, Window
  <2> QED BY <2>1
<1>8. Fifo!Init
  BY <1>3, <1>7 DEF Content, Fifo!Init
<1> QED BY <1>6, <1>8

(* A step that touches neither the ring nor the fetched bytes is a step in  *)
(* which the writer at most changes its mind.                               *)
LEMMA TxQuiet ==
    ASSUME PortInv, half = "tx", TxInv', UNCHANGED <<rxOwnVars, half>>,
           UNCHANGED ringVars, UNCHANGED fetched, wpc # "commit",
           wpc' # "commit"
    PROVE  Fifo!Offer /\ TxAligned'
<1>1. src' \in Seq(Byte)
  BY DEF TxInv, TxTypeOK
<1>2. UNCHANGED Content
  BY DEF Content, Window, FirstByte, ringVars, rxOwnVars, readVars
<1>3. Fifo!Offer
  BY <1>1, <1>2 DEF Fifo!Offer, Content
<1>4. TxAligned'
  BY DEF PortInv, TxAligned, Pending, ringVars, SamePlace
<1> QED BY <1>3, <1>4

(* Ring_Write before its atomic section: the copy lies behind what the ring *)
(* holds, so nothing enters the queue yet.                                  *)
LEMMA TxCopy ==
    ASSUME PortInv, half = "tx", TxInv', UNCHANGED <<rxOwnVars, half>>,
           RingWrite
    PROVE  UNCHANGED FifoVars /\ TxAligned'
<1> DEFINE w == written'
           data == SubSeq(src, 1, w)
<1>0. RingTypeOK /\ rpc = "idle" /\ rpc' = "idle" /\ src \in Seq(Byte)
  BY DEF PortInv, TxInv, TxTypeOK, rxOwnVars
<1>1. FirstByte = offset_read /\ FirstByte' = offset_read' /\ offset_read' = offset_read
  BY <1>0 DEF FirstByte, RingWrite
<1>2. /\ wpc = "write" /\ w = RoomFor(Len(src)) /\ UNCHANGED <<len, src, fetched>>
      /\ \/ w = 0 /\ wpc' = "clear" /\ UNCHANGED <<buf, offset_write>>
         \/ w # 0 /\ wpc' = "commit" /\ CopyIn(data)
  BY DEF RingWrite
<1> HIDE DEF w
<1>3. w \in 0 .. MaxLen /\ w <= Len(src) /\ len + w <= MaxLen
  BY <1>0, <1>2, RingFacts, RoomForBounds
<1>4. SamePlace(offset_read + len, offset_write)
  BY <1>2, RingFacts, <1>0 DEF PortInv, TxAligned, Pending
<1>5. CASE w = 0
  <2>1. UNCHANGED <<buf, offset_write>> /\ wpc' = "clear"
    BY <1>2, <1>5
  <2>2. UNCHANGED Content
    BY <1>1, <1>2, <2>1, ContentIsWindow
  <2>3. Pending' = 0
    BY <2>1 DEF Pending
  <2>4. TxAligned'
    BY <1>0, <1>1, <1>2, <1>4, <2>1, <2>3, RingFacts DEF TxAligned, SamePlace
  <2> QED BY <1>2, <2>2, <2>4 DEF FifoVars, rxOwnVars, readVars, bitVars
<1>6. CASE w # 0
  <2>1. wpc' = "commit" /\ CopyIn(data)
    BY <1>2, <1>6
  <2>2. data \in Seq(Byte) /\ Len(data) = w
    BY <1>0, <1>3, PrefixType
  <2>3. /\ buf' = Copied(buf, offset_write, data)
        /\ offset_write' = Advance(offset_write, w)
    BY <2>1, <2>2 DEF CopyIn, Copied
  <2> HIDE DEF data
  <2>4. WindowOf(buf', offset_read, len) = WindowOf(buf, offset_read, len)
    BY <1>0, <1>3, <1>4, <2>2, <2>3, RingFacts, CopyBehind
  <2>5. UNCHANGED Content
    BY <1>1, <1>2, <2>4, ContentIsWindow
  <2>6. /\ buf' \in Buffers
        /\ WindowOf(buf', offset_write, w) = data
    BY <1>0, <1>3, <2>2, <2>3, RingFacts, ReadBack
  <2>7. WindowOf(buf', offset_read + len, w) = data
    BY <1>0, <1>3, <1>4, <2>6, RingFacts, SameWindow
  <2>8. SamePlace(offset_read + (len + w), offset_write')
    <3> DEFINE e == offset_read + len
    <3>1. /\ e \in Int /\ w \in Int /\ offset_write \in Int
          /\ SamePlace(e, offset_write)
          /\ e + w = offset_read + (len + w)
      BY <1>0, <1>3, <1>4, RingFacts
    <3> HIDE DEF e
    <3>2. SamePlace(e + w, offset_write + w)
      BY ONLY <3>1, MoveBoth
    <3>3. SamePlace(offset_write', offset_write + w)
      BY <1>0, <1>3, <2>3, RingFacts, AdvancePlace
    <3> QED BY <3>1, <3>2, <3>3 DEF SamePlace
  <2>9. TxAligned'
    BY <1>1, <1>2, <2>1, <2>7, <2>8 DEF TxAligned, Pending, w, data, SamePlace
  <2> QED BY <1>2, <2>5, <2>9 DEF FifoVars, rxOwnVars, readVars, bitVars
<1> QED BY <1>5, <1>6

(* The atomic section of Ring_Write: the copied bytes enter the queue. *)
LEMMA TxCommit ==
    ASSUME PortInv, half = "tx", TxInv', UNCHANGED <<rxOwnVars, half>>,
           RingWriteLen
    PROVE  Fifo!Put /\ TxAligned'
<1>0. RingTypeOK /\ rpc = "idle" /\ rpc' = "idle" /\ src \in Seq(Byte)
  BY DEF PortInv, TxInv, TxTypeOK, rxOwnVars
<1>1. /\ wpc = "commit" /\ wpc' = "clear" /\ len' = len + written
      /\ src' = Drop(src, written)
      /\ UNCHANGED <<buf, offset_read, offset_write, fetched, half>>
  BY DEF RingWriteLen
<1>2. /\ written \in 1 .. Len(src) /\ written \in Nat
      /\ len + written <= MaxLen
  BY <1>0, <1>1 DEF PortInv, TxInv, CommitFits
<1>3. FirstByte = offset_read /\ FirstByte' = offset_read
  BY <1>0, <1>1 DEF FirstByte
<1>4. /\ SamePlace(offset_read + (len + written), offset_write)
      /\ WindowOf(buf, offset_read + len, written) = SubSeq(src, 1, written)
  BY <1>1 DEF PortInv, TxAligned, Pending
<1>5. Content' = Content \o SubSeq(src, 1, written)
  <2>1. Content' = WindowOf(buf, offset_read, len + written)
    BY <1>1, <1>3, ContentIsWindow
  <2>2. Content = WindowOf(buf, offset_read, len)
    BY <1>3, ContentIsWindow
  <2>3. buf \in Buffers /\ offset_read \in Int /\ len \in Nat
    BY <1>0, RingFacts
  <2>4. WindowOf(buf, offset_read, len + written)
          = WindowOf(buf, offset_read, len) \o WindowOf(buf, offset_read + len, written)
    BY ONLY <1>2, <2>3, JoinWindows
  <2> QED BY ONLY <1>4, <2>1, <2>2, <2>4
<1>6. Len(Content) = len
  BY <1>0, <1>3, RingFacts, WindowOfType, ContentIsWindow
<1>7. Fifo!Put
  BY <1>1, <1>2, <1>5, <1>6 DEF Fifo!Put, Fifo!Drop, Drop, Content
<1>8. TxAligned'
  <2>1. Pending' = 0 /\ offset_read' + (len' + 0) = offset_read + (len + written)
    BY <1>0, <1>1, <1>2, RingFacts DEF Pending
  <2> QED BY <1>1, <1>4, <2>1 DEF TxAligned, SamePlace
<1> QED BY <1>7, <1>8

(* Ring_Read of n bytes that the ring holds: what it returns and what it    *)
(* leaves, for both halves.                                                 *)
LEMMA TakeFirst ==
    ASSUME RingTypeOK, NEW o \in Int, NEW p \in Int, NEW n \in 0 .. len,
           SamePlace(p, o + n)
    PROVE  /\ WindowOf(buf, o, n) = SubSeq(WindowOf(buf, o, len), 1, n)
           /\ WindowOf(buf, p, len - n)
                  = SubSeq(WindowOf(buf, o, len), n + 1, len)
           /\ Len(WindowOf(buf, o, len)) = len
<1>1. len \in Nat /\ len - n \in Nat /\ o + n \in Int /\ buf \in Buffers
  BY RingFacts
<1>2. WindowOf(buf, p, len - n) = WindowOf(buf, o + n, len - n)
  BY <1>1, SameWindow
<1> QED BY ZenonT(60), <1>1, <1>2, SplitWindow, WindowOfType

(* UART_PortRead: the driver obtains the oldest bytes of the queue. *)
LEMMA TxFetch ==
    ASSUME PortInv, half = "tx", TxInv', UNCHANGED <<rxOwnVars, half>>,
           NEW n \in 1 .. MaxChunk, PortReadSome(n)
    PROVE  Fifo!Get /\ TxAligned'
<1> DEFINE r == Available(n)
           o == offset_read
<1>0. RingTypeOK /\ rpc = "idle" /\ rpc' = "idle"
  BY DEF PortInv, TxInv, TxTypeOK, rxOwnVars
<1>1. /\ fetched' = WindowOf(buf, o, r) /\ offset_read' = Advance(o, r)
      /\ len' = len - r /\ UNCHANGED <<buf, offset_write, src, written, half>>
      /\ wpc' = "commit" <=> wpc = "commit"
  BY DEF PortReadSome, CopyOut, PostRoom, AfterPend, Window, WindowOf
<1>2. r \in 0 .. len /\ r \in 0 .. MaxLen /\ r \in Int
  <2>1. n \in Nat
    BY TxAssumption
  <2> QED BY <1>0, <2>1, RingFacts, AvailableBounds
<1>3. FirstByte = o /\ FirstByte' = offset_read'
  BY <1>0 DEF FirstByte
<1> HIDE DEF r, o
<1>4. o \in Int /\ o \in 0 .. MaxLen /\ offset_read' \in Int
  BY <1>0, <1>1, <1>2, RingFacts, AdvanceType DEF o
<1>5. SamePlace(offset_read', o + r)
  BY <1>1, <1>2, <1>4, AdvancePlace
<1>6. /\ fetched' = SubSeq(Content, 1, r)
      /\ Content' = SubSeq(Content, r + 1, len) /\ Len(Content) = len
  BY ZenonT(60), <1>0, <1>1, <1>2, <1>3, <1>4, <1>5, TakeFirst, ContentIsWindow
<1>7. Fifo!Get
  BY <1>1, <1>2, <1>6 DEF Fifo!Get, Fifo!Drop, Content
<1>8. TxAligned'
  <2>1. Pending' = Pending /\ Pending \in Int
    BY <1>1, MaxLenAssumption DEF Pending, PortInv, TxInv, TxTypeOK
  <2>2. ASSUME NEW d \in Int
        PROVE  SamePlace(offset_read' + (len' + d), o + (len + d))
    <3> DEFINE f == (len - r) + d
               g == o + r
    <3>1. f \in Int /\ g \in Int /\ g + f = o + (len + d)
          /\ offset_read' + f = offset_read' + (len' + d)
      BY <1>0, <1>1, <1>2, <1>4, RingFacts
    <3>2. SamePlace(offset_read', g)
      BY <1>5
    <3> HIDE DEF f, g
    <3>3. SamePlace(offset_read' + f, g + f)
      BY <1>4, <3>1, <3>2, MoveBoth
    <3> QED BY <3>1, <3>3
  <2>3. SamePlace(offset_read' + (len' + Pending'), offset_write')
    <3>1. SamePlace(offset_read' + (len' + Pending), o + (len + Pending))
      BY <2>1, <2>2
    <3>2. SamePlace(o + (len + Pending), offset_write)
      BY DEF PortInv, TxAligned, o
    <3> QED BY <1>1, <2>1, <3>1, <3>2 DEF SamePlace
  <2>4. ASSUME wpc = "commit"
        PROVE  WindowOf(buf', offset_read' + len', written')
                   = SubSeq(src', 1, written')
    <3>1. offset_read' + len' \in Int /\ o + len \in Int /\ written \in Nat
      BY SMTT(60), <1>0, <1>1, <1>2, <1>4, RingFacts DEF PortInv, TxInv, TxTypeOK
    <3>2. SamePlace(offset_read' + len', o + len)
      <4>1. offset_read' + (len' + 0) = offset_read' + len'
            /\ o + (len + 0) = o + len
        BY <1>0, <1>1, <1>2, <1>4, RingFacts
      <4> QED BY <2>2, <4>1
    <3>3. WindowOf(buf, offset_read' + len', written)
              = WindowOf(buf, o + len, written)
      BY <1>0, <3>1, <3>2, RingFacts, SameWindow
    <3> QED BY <1>1, <2>4, <3>3 DEF PortInv, TxAligned, o
  <2> QED BY <1>1, <2>3, <2>4 DEF TxAligned, SamePlace
<1> QED BY <1>7, <1>8

(* UART_PortRead of an empty buffer obtains nothing. *)
LEMMA TxFetchNone ==
    ASSUME PortInv, half = "tx", TxInv', UNCHANGED <<rxOwnVars, half>>,
           PortReadNone
    PROVE  Fifo!Get /\ TxAligned'
<1>0. RingTypeOK /\ rpc = "idle" /\ rpc' = "idle"
  BY DEF PortInv, TxInv, TxTypeOK, rxOwnVars
<1>1. /\ fetched' = << >> /\ len = 0 /\ UNCHANGED ringVars
      /\ UNCHANGED <<src, written, half>>
      /\ wpc' = "commit" <=> wpc = "commit"
  BY DEF PortReadNone
<1>2. Content \in Seq(Byte) /\ Len(Content) = 0
  BY <1>0, <1>1, RingFacts, WindowOfType, ContentIsWindow DEF FirstByte
<1>3. UNCHANGED Content
  BY <1>0, <1>1 DEF Content, Window, FirstByte, ringVars
<1>4. Content = << >>
  BY <1>2, EmptySeq
<1>5. SubSeq(Content, 1, 0) = << >> /\ SubSeq(Content, 0 + 1, Len(Content)) = Content
  BY <1>4
<1>6. Fifo!Get
  BY <1>1, <1>2, <1>3, <1>5 DEF Fifo!Get, Fifo!Drop, Content
<1>7. TxAligned'
  BY <1>1 DEF PortInv, TxAligned, Pending, ringVars, SamePlace
<1> QED BY <1>6, <1>7

(* Every step of the sender is a step of the queue, or none. *)
LEMMA TxRefines ==
    ASSUME PortInv, Sender(TxNext)
    PROVE  PortInv' /\ (Fifo!Next \/ UNCHANGED FifoVars)
<1>1. half = "tx" /\ half' = "tx" /\ UNCHANGED <<rxOwnVars, half>> /\ TxNext
  BY DEF Sender
<1>2. TxInv'
  BY <1>1, TxStepInv DEF PortInv
<1>3. TxAligned' /\ (Fifo!Next \/ UNCHANGED FifoVars)
  <2>1. CASE RingWrite
    BY <1>1, <1>2, <2>1, TxCopy
  <2>2. CASE RingWriteLen
    BY <1>1, <1>2, <2>2, TxCommit DEF Fifo!Next
  <2>3. CASE \/ \E d \in Data, b \in BOOLEAN : AppWrite(d, b)
             \/ ForgetSent \/ StartSend \/ PendRoom \/ PendSent
             \/ TestFull \/ ClearWritable \/ WriteTimeout
    <3>1. UNCHANGED ringVars /\ UNCHANGED fetched /\ wpc # "commit"
          /\ wpc' # "commit"
      BY <2>3 DEF AppWrite, ForgetSent, StartSend, PendRoom, PendSent,
                  TestFull, ClearWritable, WriteTimeout, AfterPend
    <3> QED BY <1>1, <1>2, <3>1, TxQuiet DEF Fifo!Next
  <2>4. CASE PortReadNone
    BY <1>1, <1>2, <2>4, TxFetchNone DEF Fifo!Next
  <2>5. CASE \E n \in 1 .. MaxChunk : PortReadSome(n)
    BY <1>1, <1>2, <2>5, TxFetch DEF Fifo!Next
  <2> QED BY <1>1, <2>1, <2>2, <2>3, <2>4, <2>5
             DEF TxNext, WriterStep, PortRead
<1>4. RxTypeOK'
  <2>1. RxTypeOK /\ RingTypeOK'
    BY <1>2 DEF PortInv, TypeOK, TxInv, TxTypeOK
  <2> QED BY <1>1, <2>1 DEF RxTypeOK, rxOwnVars, readVars, bitVars
<1>5. PortInv'
  BY <1>1, <1>2, <1>3, <1>4 DEF PortInv, TypeOK, TxInv, rxOwnVars
<1> QED BY <1>3, <1>5
-----------------------------------------------------------------------------
(* A step of the receiver that touches neither the ring nor what was read. *)
LEMMA RxQuiet ==
    ASSUME PortInv, half = "rx", UNCHANGED half, RxInv',
           UNCHANGED ringVars, UNCHANGED <<got, line>>,
           rpc \notin {"commit1", "commit"}, rpc' \notin {"commit1", "commit"}
    PROVE  UNCHANGED FifoVars /\ RxAligned'
<1>1. FirstByte = offset_read /\ FirstByte' = offset_read
  BY DEF FirstByte, ringVars
<1>2. UNCHANGED Content
  BY <1>1, ContentIsWindow DEF ringVars
<1>3. UNCHANGED FifoVars
  BY <1>2 DEF FifoVars
<1>4. RxAligned'
  BY <1>1 DEF PortInv, RxAligned, ringVars, SamePlace
<1> QED BY <1>3, <1>4

(* Ring_Read before its atomic section: the position moves, but the bytes   *)
(* stay in the queue until len is changed.                                  *)
LEMMA RxCopy ==
    ASSUME PortInv, half = "rx", UNCHANGED half, RxInv', RingRead
    PROVE  UNCHANGED FifoVars /\ RxAligned'
<1> DEFINE t == taken'
           o == offset_read
<1>0. RingTypeOK /\ want \in Nat
  BY DEF PortInv, RxInv, RxTypeOK
<1>1. /\ t = Available(want) /\ dst' = WindowOf(buf, o, t)
      /\ offset_read' = Advance(o, t) /\ rpc \in {"read1", "read"}
      /\ rpc' \in {"commit1", "commit"}
      /\ UNCHANGED <<buf, offset_write, len, got, line>>
  BY DEF RingRead, CopyOut, Window, WindowOf
<1>2. FirstByte = o /\ FirstByte' = offset_read' - t
  BY <1>1 DEF FirstByte
<1> HIDE DEF t, o
<1>3. t \in 0 .. MaxLen /\ t \in Nat /\ t \in Int
  BY <1>0, <1>1, RingFacts, AvailableBounds
<1>4. o \in Int /\ o \in 0 .. MaxLen /\ offset_read' \in Int
      /\ FirstByte' \in Int /\ buf \in Buffers /\ len \in Nat
  BY <1>0, <1>1, <1>2, <1>3, RingFacts, AdvanceType DEF o
<1>5. SamePlace(FirstByte', o)
  <2> DEFINE g == o + t
             c == -t
  <2>1. g \in Int /\ c \in Int /\ g + c = o /\ offset_read' + c = FirstByte'
    BY <1>2, <1>3, <1>4
  <2>2. SamePlace(offset_read', g)
    BY <1>1, <1>3, <1>4, AdvancePlace
  <2> HIDE DEF g, c
  <2>3. SamePlace(offset_read' + c, g + c)
    BY <1>4, <2>1, <2>2, MoveBoth
  <2> QED BY <2>1, <2>3
<1>6. UNCHANGED Content
  <2>1. WindowOf(buf, FirstByte', len) = WindowOf(buf, o, len)
    BY <1>4, <1>5, SameWindow
  <2> QED BY <1>1, <1>2, <2>1, ContentIsWindow
<1>7. UNCHANGED FifoVars
  BY <1>1, <1>6 DEF FifoVars
<1>8. SamePlace(FirstByte' + len', offset_write')
  <2>1. SamePlace(FirstByte' + len, o + len)
    BY <1>4, <1>5, MoveBoth
  <2>2. SamePlace(o + len, offset_write)
    BY <1>2 DEF PortInv, RxAligned
  <2> QED BY <1>1, <2>1, <2>2 DEF SamePlace
<1>9. dst' = WindowOf(buf', FirstByte', taken')
  <2>1. WindowOf(buf, FirstByte', t) = WindowOf(buf, o, t)
    BY <1>3, <1>4, <1>5, SameWindow
  <2> QED BY <1>1, <2>1 DEF t
<1> QED BY <1>7, <1>8, <1>9 DEF RxAligned, SamePlace

(* The atomic section of Ring_Read: the reader has the oldest bytes. *)
LEMMA RxCommit ==
    ASSUME PortInv, half = "rx", UNCHANGED half, RxInv', RingReadLen
    PROVE  Fifo!Get /\ RxAligned'
<1>0. RingTypeOK /\ taken \in 0 .. MaxLen
  BY DEF PortInv, RxInv, RxTypeOK
<1>1. /\ rpc \in {"commit1", "commit"} /\ rpc' \notin {"commit1", "commit"}
      /\ len' = len - taken /\ got' = dst
      /\ UNCHANGED <<buf, offset_write, offset_read, line>>
  BY DEF RingReadLen
<1>2. taken \in 0 .. len /\ taken \in Int
  BY <1>0, <1>1, RingFacts DEF PortInv, RxInv, CommitIsThere
<1>3. FirstByte = offset_read - taken /\ FirstByte' = offset_read
  BY <1>1 DEF FirstByte
<1> DEFINE o == FirstByte
<1>4. o \in Int /\ offset_read \in Int /\ o + taken = offset_read
  BY <1>0, <1>2, <1>3, RingFacts
<1>5. dst = WindowOf(buf, o, taken) /\ SamePlace(o + len, offset_write)
  BY <1>1 DEF PortInv, RxAligned
<1>6. /\ Content = WindowOf(buf, o, len)
      /\ Content' = WindowOf(buf, offset_read, len - taken)
  BY <1>1, <1>3, ContentIsWindow
<1> HIDE DEF o
<1>7. /\ got' = SubSeq(Content, 1, taken)
      /\ Content' = SubSeq(Content, taken + 1, len) /\ Len(Content) = len
  <2>1. SamePlace(offset_read, o + taken)
    BY <1>4 DEF SamePlace
  <2> QED BY ZenonT(60), <1>0, <1>1, <1>2, <1>4, <1>5, <1>6, <2>1, TakeFirst
<1>8. Fifo!Get
  BY <1>1, <1>2, <1>7 DEF Fifo!Get, Fifo!Drop, Content
<1>9. RxAligned'
  <2>1. offset_read + (len - taken) = o + len
    BY <1>0, <1>2, <1>4, RingFacts
  <2> QED BY <1>1, <1>3, <1>5, <2>1 DEF RxAligned, SamePlace
<1> QED BY <1>8, <1>9

(* UART_PortWrite: what arrives enters the queue as far as there is room,   *)
(* whatever Ring_Read has half done.                                        *)
LEMMA RxArrive ==
    ASSUME PortInv, half = "rx", UNCHANGED half, RxInv',
           NEW d \in Chunks, PortWrite(d)
    PROVE  Fifo!Arrive /\ RxAligned'
<1> DEFINE n == RoomFor(Len(d))
           data == SubSeq(d, 1, n)
           o == FirstByte
<1>0. /\ RingTypeOK /\ taken \in 0 .. MaxLen /\ d \in Seq(Byte)
      /\ Len(d) \in Nat
  BY RxAssumption DEF PortInv, RxInv, RxTypeOK
<1>1. /\ line' = d /\ len' = len + n
      /\ IF n = 0 THEN UNCHANGED <<buf, offset_write>> ELSE CopyIn(data)
      /\ UNCHANGED <<offset_read, taken, dst, got>>
      /\ rpc' = rpc \/ (rpc = "wait" /\ rpc' = "read")
  BY DEF PortWrite, readVars
<1>2. FirstByte' = o
  BY <1>1 DEF FirstByte
<1>3. o \in Int
  BY <1>0, RingFacts DEF FirstByte
<1>4. SamePlace(o + len, offset_write)
  BY DEF PortInv, RxAligned
<1>5. rpc \in {"commit1", "commit"} =>
          dst = WindowOf(buf, o, taken) /\ taken <= len
  BY DEF PortInv, RxAligned, RxInv, CommitIsThere
<1>6. Content = WindowOf(buf, o, len)
  BY ContentIsWindow
<1> HIDE DEF n, o
<1>7. /\ n \in 0 .. MaxLen /\ n \in Nat /\ n <= Len(d) /\ len + n <= MaxLen
      /\ n = Len(d) \/ len + n = MaxLen
  BY <1>0, RingFacts, RoomForBounds DEF n
<1>8. data \in Seq(Byte) /\ Len(data) = n
  BY <1>0, <1>7, PrefixType
<1> HIDE DEF data
<1>9. /\ buf' \in Buffers
      /\ WindowOf(buf', o, len) = WindowOf(buf, o, len)
      /\ WindowOf(buf', o + len, n) = data
      /\ SamePlace(offset_write', offset_write + n)
  <2>1. CASE n = 0
    <3>1. data = << >> /\ UNCHANGED <<buf, offset_write>>
      BY <1>1, <1>8, <2>1, EmptySeq
    <3>2. /\ WindowOf(buf, o + len, n) \in Seq(Byte)
          /\ Len(WindowOf(buf, o + len, n)) = 0
      BY <1>0, <1>3, <2>1, RingFacts, WindowOfType
    <3>3. WindowOf(buf, o + len, n) = << >>
      BY <3>2, EmptySeq
    <3> QED BY <1>0, <2>1, <3>1, <3>3, RingFacts DEF SamePlace
  <2>2. CASE n # 0
    <3>1. /\ buf' = Copied(buf, offset_write, data)
          /\ offset_write' = Advance(offset_write, n)
      BY <1>1, <1>8, <2>2 DEF CopyIn, Copied
    <3>2. /\ buf \in Buffers /\ offset_write \in Int /\ len \in Nat
          /\ offset_write \in 0 .. MaxLen /\ o + len \in Int
      BY <1>0, <1>3, RingFacts
    <3>3. WindowOf(buf', o, len) = WindowOf(buf, o, len)
      BY ONLY <1>3, <1>4, <1>7, <1>8, <3>1, <3>2, CopyBehind
    <3>4. buf' \in Buffers /\ WindowOf(buf', offset_write, n) = data
      BY <1>0, <1>7, <1>8, <3>1, <3>2, RingFacts, ReadBack
    <3>5. WindowOf(buf', o + len, n) = WindowOf(buf', offset_write, n)
      BY <1>4, <1>7, <3>2, <3>4, SameWindow
    <3>6. SamePlace(offset_write', offset_write + n)
      BY <1>7, <3>1, <3>2, AdvancePlace
    <3> QED BY <3>3, <3>4, <3>5, <3>6
  <2> QED BY <2>1, <2>2
<1>10. Content' = Content \o data
  <2>1. Content' = WindowOf(buf', o, len + n)
    BY <1>1, <1>2, ContentIsWindow
  <2>2. len \in Nat
    BY <1>0, RingFacts
  <2> QED BY ONLY ZenonT(60), <1>3, <1>6, <1>7, <1>9, <2>1, <2>2, JoinWindows
<1>11. Len(Content) = len
  BY <1>0, <1>3, <1>6, RingFacts, WindowOfType
<1>12. Fifo!Arrive
  <2>1. /\ (IF half = "tx" THEN src ELSE line)' = d
        /\ UNCHANGED (IF half = "tx" THEN fetched ELSE got)
    BY <1>1
  <2>2. /\ n \in 0 .. Len(d) /\ Len(Content) + n <= MaxLen
        /\ Len(Content) + n = MaxLen \/ n = Len(d)
        /\ Content' = Content \o SubSeq(d, 1, n)
    BY <1>0, <1>7, <1>10, <1>11 DEF data
  <2> QED BY <1>0, <2>1, <2>2 DEF Fifo!Arrive, Content
<1>13. RxAligned'
  <2>1. SamePlace(o + (len + n), offset_write')
    <3> DEFINE e == o + len
    <3>1. /\ e \in Int /\ n \in Int /\ offset_write \in Int
          /\ SamePlace(e, offset_write) /\ e + n = o + (len + n)
      BY SMTT(60), <1>0, <1>3, <1>4, <1>7, RingFacts
    <3> HIDE DEF e
    <3>2. SamePlace(e + n, offset_write + n)
      BY ONLY <3>1, MoveBoth
    <3> QED BY <1>9, <3>1, <3>2 DEF SamePlace
  <2>2. ASSUME rpc' \in {"commit1", "commit"}
        PROVE  dst' = WindowOf(buf', o, taken')
    <3>1. dst = WindowOf(buf, o, taken) /\ taken <= len
      BY <1>1, <1>5, <2>2
    <3>2. taken \in 0 .. len /\ len \in Nat /\ buf \in Buffers
      BY <1>0, <3>1, RingFacts
    <3>3. /\ WindowOf(buf, o, taken) = SubSeq(WindowOf(buf, o, len), 1, taken)
          /\ WindowOf(buf', o, taken) = SubSeq(WindowOf(buf', o, len), 1, taken)
      BY <1>3, <1>9, <3>2, SplitWindow
    <3> QED BY <1>1, <1>9, <3>1, <3>3
  <2> QED BY <1>1, <1>2, <2>1, <2>2 DEF RxAligned, SamePlace
<1> QED BY <1>12, <1>13

(* Every step of the receiver is a step of the queue, or none. *)
LEMMA RxRefines ==
    ASSUME PortInv, Receiver(RxNext)
    PROVE  PortInv' /\ (Fifo!Next \/ UNCHANGED FifoVars)
<1>1. half = "rx" /\ half' = "rx" /\ UNCHANGED <<txOwnVars, half>> /\ RxNext
  BY DEF Receiver
<1>2. RxInv'
  BY <1>1, RxStepInv DEF PortInv
<1>3. RxAligned' /\ (Fifo!Next \/ UNCHANGED FifoVars)
  <2>1. CASE RingRead
    BY <1>1, <1>2, <2>1, RxCopy
  <2>2. CASE RingReadLen
    BY <1>1, <1>2, <2>2, RxCommit DEF Fifo!Next
  <2>3. CASE \/ \E n \in 1 .. MaxRead : AppRead(n)
             \/ WaitForLevel \/ PendData \/ ReadTimeout
             \/ RestoreTrigLevel \/ TestEmpty \/ ClearReadable
    <3>1. /\ UNCHANGED ringVars /\ UNCHANGED <<got, line>>
          /\ rpc \notin {"commit1", "commit"}
          /\ rpc' \notin {"commit1", "commit"}
      BY <2>3 DEF AppRead, WaitForLevel, SetTrigLevel, CheckLevel, PendData,
                  ReadTimeout, RestoreTrigLevel, TestEmpty, ClearReadable,
                  readVars, bitVars
    <3> QED BY <1>1, <1>2, <3>1, RxQuiet
  <2>4. CASE \E d \in Chunks : PortWrite(d)
    BY <1>1, <1>2, <2>4, RxArrive DEF Fifo!Next
  <2> QED BY <1>1, <2>1, <2>2, <2>3, <2>4 DEF RxNext, ReaderStep
<1>4. TxTypeOK'
  <2>1. TxTypeOK /\ RingTypeOK'
    BY <1>2 DEF PortInv, TypeOK, RxInv, RxTypeOK
  <2> QED BY <1>1, <2>1 DEF TxTypeOK, txOwnVars
<1>5. PortInv'
  BY <1>1, <1>2, <1>3, <1>4 DEF PortInv, TypeOK, RxInv, txOwnVars
<1> QED BY <1>3, <1>5
-----------------------------------------------------------------------------
(* Every step of a port keeps the invariant and is a step of the queue. *)
LEMMA PortStep ==
    ASSUME PortInv, [Next]_vars
    PROVE  PortInv' /\ (Fifo!Next \/ UNCHANGED FifoVars)
<1>1. CASE UNCHANGED vars
  <2>1. UNCHANGED FifoVars
    BY <1>1 DEF vars, txVars, rxVars, ringVars, readVars, bitVars, FifoVars,
                Content, Window, FirstByte
  <2>2. UNCHANGED <<buf, offset_write, offset_read, len, wpc, src, written,
            block, send_semp, block_semp, sending, writable, fetched, rpc, want,
            level, taken, dst, got, trig, recv_semp, readable, overrun, line,
            half>>
    BY <1>1 DEF vars, txVars, rxVars, ringVars, readVars, bitVars
  <2>3. TxInv => TxInv'
    BY <1>1, TxStepInv DEF vars
  <2>4. RxInv => RxInv'
    BY <1>1, RxStepInv DEF vars
  <2>5. TypeOK'
    BY <2>2 DEF PortInv, TypeOK, TxTypeOK, RxTypeOK, RingTypeOK
  <2>6. (TxAligned => TxAligned') /\ (RxAligned => RxAligned')
    BY <2>2 DEF TxAligned, RxAligned, Pending, SamePlace, FirstByte
  <2> QED BY <2>1, <2>2, <2>3, <2>4, <2>5, <2>6 DEF PortInv
<1> QED BY <1>1, TxRefines, RxRefines DEF Next

(* Every reachable state of a port satisfies the invariant. *)
THEOREM PortInvariance == Spec => []PortInv
<1>1. Init => PortInv
  BY PortInit
<1>2. PortInv /\ [Next]_vars => PortInv'
  BY PortStep
<1> QED BY <1>1, <1>2, PTL DEF Spec

(* The variables of both halves of a port keep their types, for every       *)
(* buffer size: no position leaves the buffer, len stays between 0 and      *)
(* max_len.                                                                 *)
THEOREM PortTypeCorrect == Spec => []TypeOK
<1>1. PortInv => TypeOK
  BY DEF PortInv
<1> QED BY <1>1, PortInvariance, PTL

(* In a port with both halves no writer and no reader sleeps for a level    *)
(* that was passed before it slept, and no stale "all sent" is believed.    *)
THEOREM NobodyIsForgotten ==
    Spec => [](WriterIsRemembered /\ BlockingMeansSent /\ ReaderIsRemembered)
<1>1. ASSUME PortInv
      PROVE  WriterIsRemembered /\ BlockingMeansSent /\ ReaderIsRemembered
  <2>1. CASE half = "tx"
    BY <1>1, <2>1 DEF PortInv, TxInv, ReaderIsRemembered
  <2>2. CASE half = "rx"
    BY <1>1, <2>2 DEF PortInv, RxInv, WriterIsRemembered, BlockingMeansSent
  <2> QED BY <1>1, <2>1, <2>2 DEF PortInv
<1> QED BY <1>1, PortInvariance, PTL

(* A port moves bytes as a bounded queue does: the driver fetches what the  *)
(* callers of UART_AppWrite wrote, and the callers of UART_AppRead obtain   *)
(* what arrived, in order, none twice and none missing but the end of what  *)
(* arrives at a full buffer, for every buffer size and content and at every *)
(* wrap-around of the two positions.                                        *)
THEOREM PortImplementsFifo == Spec => ImplementsFifo
<1>1. Spec => Fifo!Init
  BY PortInit DEF Spec
<1>2. PortInv /\ [Next]_vars => [Fifo!Next]_FifoVars
  BY PortStep
<1>3. Spec => [][Fifo!Next]_FifoVars
  BY <1>2, PortInvariance, PTL DEF Spec
<1> QED BY <1>1, <1>3, PTL DEF ImplementsFifo, Fifo!Spec, FifoVars, Content
=============================================================================
