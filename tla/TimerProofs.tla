----------------------------- MODULE TimerProofs -----------------------------
(* The timer thread's queue is in order and no timer is late, for every     *)
(* number of timers, every periods, length of a tick and of the message     *)
(* queue, duration of the hooks and delay of the thread.                    *)
EXTENDS Timer, SequenceTheorems, WellFoundedInduction, TLAPS

Deadlines == Int \cup {Never}

TimerTypeOK ==
    /\ queue \in Seq(Timers)
    /\ encount \in [Timers -> BOOLEAN]
    /\ reload \in [Timers -> BOOLEAN]
    /\ cycle \in [Timers -> Cycles]
    /\ deadline \in [Timers -> Deadlines]
    /\ owner \in [Timers -> {"free", "live", "deleted"}]
    /\ msgs \in Seq(Requests)
    /\ pc \in {"scan", "call", "recv", "timedout"}
    /\ wait \in Nat \cup {Forever}
    /\ phase \in 0 .. Precision - 1
    /\ spent \in Nat
    /\ delayed \in 0 .. MaxDelay

(* The requests in flight: nobody asks anything about a timer before its    *)
(* ADD nor after its REMOVE, and a timer that is not linked yet does not    *)
(* count.                                                                   *)
RequestsInOrder ==
    /\ \A i \in 1 .. Len(msgs) :
           /\ owner[msgs[i].timer] # "free"
           /\ msgs[i].type = "REMOVE" => owner[msgs[i].timer] = "deleted"
           /\ msgs[i].type = "ADD" => ~ encount[msgs[i].timer]
    /\ \A i, j \in 1 .. Len(msgs) :
           i < j /\ msgs[i].timer = msgs[j].timer
               => msgs[i].type # "REMOVE" /\ msgs[j].type # "ADD"

(* From the end of the scan on, what the thread will wait for is the first  *)
(* deadline or less, but for the delay; once it sleeps, it is the first     *)
(* deadline rounded up to the end of a tick.                                *)
Expects(t) == wait # Forever /\ deadline[t] >= wait - delayed

Rounded(t) ==
    /\ wait # Forever
    /\ deadline[t] + delayed > wait * Precision - phase - Precision

WaitIsEnough ==
    /\ pc = "call" =>
           \A t \in Queued :
               deadline[t] = Never \/ delayed = MaxDelay \/ Expects(t)
    /\ Sleeps =>
           /\ wait # 0
           /\ \A t \in Queued :
                  deadline[t] = Never \/ delayed = MaxDelay \/ Rounded(t)

TimerInv == /\ TimerTypeOK
            /\ QueueInOrder
            /\ RequestsInOrder
            /\ NeverLate
            /\ WaitIsEnough
-----------------------------------------------------------------------------
(* The operators on the queue.                                              *)
Linked(q) == {q[i] : i \in 1 .. Len(q)}

Ordered(q, dl) ==
    \A i, j \in 1 .. Len(q) :
        i < j => q[i] # q[j] /\ ~ Earlier(dl[q[j]], dl[q[i]])

(* A set of numbers from 1 on has a least one. *)
LEMMA LeastIndex ==
    ASSUME NEW T \in SUBSET Nat, T # {}
    PROVE  \E m \in T : \A k \in T : m <= k
<1> DEFINE R == {ss \in Nat \X Nat : ss[1] < ss[2]}
<1>1. IsWellFoundedOn(R, Nat)
  BY NatLessThanWellFounded DEF OpToRel
<1>2. PICK m \in T : \A k \in T : ~ (<<k, m>> \in R)
  BY <1>1, WFMin
<1>3. \A k \in T : ~(k < m)
  BY <1>2
<1> QED BY <1>2, <1>3

(* Linking t in front of the n-th timer. *)
LEMMA InsertedAt ==
    ASSUME NEW q \in Seq(Timers), NEW t \in Timers, NEW n \in 1 .. Len(q) + 1
    PROVE  /\ InsertAt(q, n, t) \in Seq(Timers)
           /\ Len(InsertAt(q, n, t)) = Len(q) + 1
           /\ \A i \in 1 .. Len(q) + 1 :
                  InsertAt(q, n, t)[i] = IF i < n THEN q[i]
                                         ELSE IF i = n THEN t ELSE q[i - 1]
<1> DEFINE a == SubSeq(q, 1, n - 1)
           b == SubSeq(q, n, Len(q))
           at == a \o <<t>>
           r == at \o b
<1>0. Len(q) \in Nat /\ n \in Nat /\ n - 1 \in 0 .. Len(q) /\ n - 1 \in Int
  OBVIOUS
<1>1. /\ a \in Seq(Timers) /\ Len(a) = n - 1
      /\ \A i \in 1 .. n - 1 : a[i] = q[i]
  BY <1>0, SubSeqProperties
<1>2. /\ b \in Seq(Timers) /\ Len(b) = Len(q) + 1 - n
      /\ \A i \in 1 .. Len(q) + 1 - n : b[i] = q[n + i - 1]
  BY <1>0, SubSeqProperties
<1> HIDE DEF a, b
<1>3. <<t>> \in Seq(Timers) /\ Len(<<t>>) = 1 /\ <<t>>[1] = t
  OBVIOUS
<1>4. /\ at \in Seq(Timers) /\ Len(at) = n
      /\ \A i \in 1 .. n : at[i] = IF i < n THEN q[i] ELSE t
  BY <1>0, <1>1, <1>3, ConcatProperties
<1> HIDE DEF at
<1>5. /\ r \in Seq(Timers) /\ Len(r) = Len(q) + 1
      /\ \A i \in 1 .. Len(q) + 1 : r[i] = IF i <= n THEN at[i] ELSE b[i - n]
  <2>1. Len(at) + Len(b) = Len(q) + 1
    BY <1>0, <1>2, <1>4
  <2>2. at \in Seq(Timers) /\ b \in Seq(Timers) /\ Len(at) = n
    BY <1>2, <1>4
  <2>3. /\ r \in Seq(Timers) /\ Len(r) = Len(at) + Len(b)
        /\ \A i \in 1 .. Len(at) + Len(b) :
               r[i] = IF i <= Len(at) THEN at[i] ELSE b[i - Len(at)]
    BY ONLY <2>2, ConcatProperties, Zenon
  <2> HIDE DEF r
  <2> QED BY ONLY <2>1, <2>2, <2>3, Zenon
<1> HIDE DEF r
<1>6. ASSUME NEW i \in 1 .. Len(q) + 1
      PROVE  r[i] = IF i < n THEN q[i] ELSE IF i = n THEN t ELSE q[i - 1]
  <2>1. CASE i <= n
    BY <1>0, <1>4, <1>5, <2>1
  <2>2. CASE ~(i <= n)
    <3>1. i - n \in 1 .. Len(q) + 1 - n /\ n + (i - n) - 1 = i - 1
      BY <1>0, <2>2
    <3>2. r[i] = b[i - n]
      BY <1>5, <2>2
    <3>3. b[i - n] = q[n + (i - n) - 1]
      BY <1>2, <3>1
    <3>4. ~(i < n) /\ i # n
      BY <1>0, <2>2
    <3> QED BY ONLY <3>1, <3>2, <3>3, <3>4
  <2> QED BY <2>1, <2>2
<1> QED BY <1>5, <1>6 DEF r, at, a, b, InsertAt

(* Unlinking the p-th timer. *)
LEMMA RemovedAt ==
    ASSUME NEW q \in Seq(Timers), NEW p \in 1 .. Len(q)
    PROVE  /\ RemoveAt(q, p) \in Seq(Timers)
           /\ Len(RemoveAt(q, p)) = Len(q) - 1
           /\ \A i \in 1 .. Len(q) - 1 :
                  RemoveAt(q, p)[i] = IF i < p THEN q[i] ELSE q[i + 1]
<1> DEFINE a == SubSeq(q, 1, p - 1)
           b == SubSeq(q, p + 1, Len(q))
           r == a \o b
<1>0. Len(q) \in Nat /\ p \in Nat /\ p - 1 \in 0 .. Len(q) /\ p - 1 \in Int
      /\ p + 1 \in 1 .. Len(q) + 1
  OBVIOUS
<1>1. /\ a \in Seq(Timers) /\ Len(a) = p - 1
      /\ \A i \in 1 .. p - 1 : a[i] = q[i]
  BY <1>0, SubSeqProperties
<1>2. /\ b \in Seq(Timers) /\ Len(b) = Len(q) - p
      /\ \A i \in 1 .. Len(q) - p : b[i] = q[p + i]
  BY <1>0, SubSeqProperties
<1> HIDE DEF a, b
<1>3. /\ r \in Seq(Timers) /\ Len(r) = Len(q) - 1
      /\ \A i \in 1 .. Len(q) - 1 :
             r[i] = IF i <= Len(a) THEN a[i] ELSE b[i - Len(a)]
  <2>1. Len(a) + Len(b) = Len(q) - 1
    BY <1>0, <1>1, <1>2
  <2>2. a \in Seq(Timers) /\ b \in Seq(Timers)
    BY <1>1, <1>2
  <2> QED BY ONLY <2>1, <2>2, ConcatProperties
<1> HIDE DEF r
<1>4. ASSUME NEW i \in 1 .. Len(q) - 1
      PROVE  r[i] = IF i < p THEN q[i] ELSE q[i + 1]
  <2>1. CASE i < p
    BY <1>0, <1>1, <1>3, <2>1
  <2>2. CASE ~(i < p)
    <3>1. i - (p - 1) \in 1 .. Len(q) - p /\ p + (i - (p - 1)) = i + 1
          /\ ~(i <= p - 1)
      BY <1>0, <2>2
    <3> QED BY SMTT(60), <1>0, <1>1, <1>2, <1>3, <2>2, <3>1
  <2> QED BY <2>1, <2>2
<1> QED BY <1>3, <1>4 DEF r, a, b, RemoveAt

(* __Timer_Remove takes the timer out and leaves the others in order. *)
LEMMA Removed ==
    ASSUME NEW q \in Seq(Timers), NEW dl, Ordered(q, dl), NEW t \in Linked(q)
    PROVE  /\ Without(q, t) \in Seq(Timers)
           /\ Linked(Without(q, t)) = Linked(q) \ {t}
           /\ Ordered(Without(q, t), dl)
<1>1. PICK p \in 1 .. Len(q) : q[p] = t /\ Without(q, t) = RemoveAt(q, p)
  <2> DEFINE I == {i \in 1 .. Len(q) : q[i] = t}
  <2>1. I # {} /\ I \in SUBSET Nat
    BY DEF Linked
  <2>2. PICK m \in I : \A k \in I : m <= k
    BY <2>1, LeastIndex
  <2>3. Min(I) \in I
    BY <2>2 DEF Min
  <2>4. Without(q, t) = RemoveAt(q, Min(I))
    BY <2>1 DEF Without, RemoveFirst, SelectInSeq
  <2> QED BY <2>3, <2>4
<1> DEFINE r == RemoveAt(q, p)
<1>2. /\ r \in Seq(Timers) /\ Len(r) = Len(q) - 1 /\ Len(q) \in Nat
      /\ \A i \in 1 .. Len(q) - 1 : r[i] = IF i < p THEN q[i] ELSE q[i + 1]
  <2>1. q \in Seq(Timers) /\ p \in 1 .. Len(q) /\ Len(q) \in Nat
    BY <1>1
  <2> QED BY ONLY <2>1, RemovedAt
<1> HIDE DEF r
<1>3. ASSUME NEW i \in 1 .. Len(q), i # p PROVE q[i] # t
  BY <1>1, <1>3 DEF Ordered
<1>4. Linked(r) = Linked(q) \ {t}
  <2>1. ASSUME NEW i \in 1 .. Len(r) PROVE r[i] \in Linked(q) \ {t}
    <3>1. CASE i < p
      BY SMTT(60), <1>1, <1>2, <1>3, <3>1 DEF Linked
    <3>2. CASE ~(i < p)
      <4>1. r[i] = q[i + 1] /\ i + 1 \in 1 .. Len(q) /\ i + 1 # p
        BY <1>2, <3>2
      <4> QED BY <1>3, <4>1 DEF Linked
    <3> QED BY <3>1, <3>2
  <2>2. ASSUME NEW i \in 1 .. Len(q), q[i] # t PROVE q[i] \in Linked(r)
    <3>1. CASE i < p
      <4>1. i \in 1 .. Len(r) /\ r[i] = q[i]
        BY <1>2, <3>1
      <4> QED BY <4>1 DEF Linked
    <3>2. CASE i > p
      <4>1. i - 1 \in 1 .. Len(r) /\ r[i - 1] = q[i]
        BY <1>2, <3>2
      <4> QED BY <4>1 DEF Linked
    <3> QED BY <1>1, <2>2, <3>1, <3>2
  <2>3. Linked(r) \subseteq Linked(q) \ {t}
    BY <2>1 DEF Linked
  <2>4. Linked(q) \ {t} \subseteq Linked(r)
    BY <2>2 DEF Linked
  <2> QED BY <2>3, <2>4
<1>5. Ordered(r, dl)
  <2> SUFFICES ASSUME NEW i \in 1 .. Len(r), NEW j \in 1 .. Len(r), i < j
               PROVE  r[i] # r[j] /\ ~ Earlier(dl[r[j]], dl[r[i]])
    BY DEF Ordered
  <2> DEFINE I == IF i < p THEN i ELSE i + 1
             J == IF j < p THEN j ELSE j + 1
  <2>1. /\ I \in 1 .. Len(q) /\ J \in 1 .. Len(q) /\ I < J
        /\ r[i] = q[I] /\ r[j] = q[J]
    BY SMTT(60), <1>2
  <2> HIDE DEF I, J
  <2> QED BY <2>1 DEF Ordered
<1> QED BY <1>1, <1>2, <1>4, <1>5 DEF r

(* Deadlines are ordered, and Never is the last of them. *)
LEMMA EarlierIsOrder ==
    ASSUME NEW x \in Deadlines, NEW y \in Deadlines, NEW z \in Deadlines
    PROVE  /\ Earlier(x, y) => ~ Earlier(y, x)
           /\ ~ Earlier(x, y) /\ ~ Earlier(y, z) => ~ Earlier(x, z)
           /\ ~ Earlier(Never, x)
BY TimerAssumption DEF Earlier, Deadlines

(* A timer linked at its place leaves the queue in order. *)
LEMMA LinkedAt ==
    ASSUME NEW q \in Seq(Timers), NEW t \in Timers \ Linked(q),
           NEW dl \in [Timers -> Deadlines], Ordered(q, dl),
           NEW n \in 1 .. Len(q) + 1,
           \A i \in 1 .. n - 1 : ~ Earlier(dl[t], dl[q[i]]),
           \A i \in n .. Len(q) : ~ Earlier(dl[q[i]], dl[t]),
           NEW r \in Seq(Timers), Len(r) = Len(q) + 1,
           \A i \in 1 .. Len(q) + 1 :
               r[i] = IF i < n THEN q[i] ELSE IF i = n THEN t ELSE q[i - 1]
    PROVE  Linked(r) = Linked(q) \cup {t} /\ Ordered(r, dl)
<1>0. Len(q) \in Nat /\ \A i \in 1 .. Len(q) : q[i] # t
  BY DEF Linked
<1>1. Linked(r) = Linked(q) \cup {t}
  <2>1. ASSUME NEW i \in 1 .. Len(r) PROVE r[i] \in Linked(q) \cup {t}
    <3>1. CASE i < n
      BY <1>0, <3>1 DEF Linked
    <3>2. CASE i > n
      <4>1. i - 1 \in 1 .. Len(q) /\ r[i] = q[i - 1]
        BY <1>0, <3>2
      <4> QED BY <4>1 DEF Linked
    <3> QED BY <1>0, <3>1, <3>2
  <2>2. ASSUME NEW i \in 1 .. Len(q) PROVE q[i] \in Linked(r)
    <3>1. CASE i < n
      <4>1. i \in 1 .. Len(r) /\ r[i] = q[i]
        BY <1>0, <3>1
      <4> QED BY <4>1 DEF Linked
    <3>2. CASE ~(i < n)
      <4>1. i + 1 \in 1 .. Len(r) /\ r[i + 1] = q[i]
        BY <1>0, <3>2
      <4> QED BY <4>1 DEF Linked
    <3> QED BY <3>1, <3>2
  <2>3. t \in Linked(r)
    <3>1. n \in 1 .. Len(r) /\ r[n] = t
      BY <1>0
    <3> QED BY <3>1 DEF Linked
  <2>4. Linked(r) \subseteq Linked(q) \cup {t}
    BY <2>1 DEF Linked
  <2>5. Linked(q) \cup {t} \subseteq Linked(r)
    BY <2>2, <2>3 DEF Linked
  <2> QED BY <2>4, <2>5
<1>2. Ordered(r, dl)
  <2> SUFFICES ASSUME NEW i \in 1 .. Len(r), NEW j \in 1 .. Len(r), i < j
               PROVE  r[i] # r[j] /\ ~ Earlier(dl[r[j]], dl[r[i]])
    BY DEF Ordered
  <2>1. CASE i = n
    <3>1. j - 1 \in n .. Len(q) /\ r[j] = q[j - 1] /\ r[i] = t
          /\ j - 1 \in 1 .. Len(q)
      BY <1>0, <2>1
    <3> QED BY <1>0, <3>1
  <2>2. CASE j = n
    <3>1. i \in 1 .. n - 1 /\ r[i] = q[i] /\ r[j] = t /\ i \in 1 .. Len(q)
      BY <1>0, <2>2
    <3> QED BY <1>0, <3>1
  <2>3. CASE i # n /\ j # n
    <3> DEFINE I == IF i < n THEN i ELSE i - 1
               J == IF j < n THEN j ELSE j - 1
    <3>1. /\ I \in 1 .. Len(q) /\ J \in 1 .. Len(q) /\ I < J
          /\ r[i] = q[I] /\ r[j] = q[J]
      BY SMTT(60), <1>0, <2>3
    <3> HIDE DEF I, J
    <3> QED BY <3>1 DEF Ordered
  <2> QED BY <2>1, <2>2, <2>3
<1> QED BY <1>1, <1>2

(* __Timer_Add links the timer at its place. *)
LEMMA Added ==
    ASSUME NEW q \in Seq(Timers), NEW t \in Timers \ Linked(q),
           NEW dl \in [Timers -> Deadlines], Ordered(q, dl)
    PROVE  /\ Add(q, t, dl) \in Seq(Timers)
           /\ Linked(Add(q, t, dl)) = Linked(q) \cup {t}
           /\ Ordered(Add(q, t, dl), dl)
<1> DEFINE Later == {i \in 1 .. Len(q) : ~ Earlier(dl[q[i]], dl[t])}
           n == IF Later = {} THEN Len(q) + 1
                ELSE CHOOSE i \in Later : \A j \in Later : i <= j
<1>0. Len(q) \in Nat /\ dl[t] \in Deadlines
      /\ \A i \in 1 .. Len(q) : q[i] \in Timers /\ dl[q[i]] \in Deadlines
  OBVIOUS
<1>1. Later # {} => n \in Later /\ \A j \in Later : n <= j
  <2>1. Later \in SUBSET Nat
    OBVIOUS
  <2>2. Later # {} => \E m \in Later : \A k \in Later : m <= k
    BY <2>1, LeastIndex
  <2> QED BY <2>2
<1>2. Later = {} => n = Len(q) + 1
  OBVIOUS
<1>3. \A i \in 1 .. Len(q) : i \in Later <=> ~ Earlier(dl[q[i]], dl[t])
  OBVIOUS
<1>4. Later \subseteq 1 .. Len(q)
  OBVIOUS
<1>5. Add(q, t, dl) = InsertAt(q, n, t)
  BY DEF Add
<1> HIDE DEF n, Later
<1>6. n \in 1 .. Len(q) + 1
  <2>1. CASE Later = {}
    BY <1>0, <1>2, <2>1
  <2>2. CASE Later # {}
    <3>1. n \in 1 .. Len(q)
      BY <1>1, <1>4, <2>2
    <3> QED BY <1>0, <3>1
  <2> QED BY <2>1, <2>2
<1>7. ASSUME NEW i \in 1 .. n - 1 PROVE ~ Earlier(dl[t], dl[q[i]])
  <2>1. i \in 1 .. Len(q) /\ i \notin Later
    BY <1>0, <1>1, <1>6
  <2>2. Earlier(dl[q[i]], dl[t])
    BY <1>3, <2>1
  <2> QED BY <1>0, <2>1, <2>2, EarlierIsOrder
<1>8. ASSUME NEW i \in n .. Len(q) PROVE ~ Earlier(dl[q[i]], dl[t])
  <2>1. n \in Later /\ i \in 1 .. Len(q) /\ n \in 1 .. Len(q)
    BY <1>0, <1>1, <1>6, <1>2, <1>4
  <2>2. ~ Earlier(dl[q[n]], dl[t])
    BY <1>3, <2>1
  <2>3. CASE i = n
    BY <2>2, <2>3
  <2>4. CASE i # n
    <3>1. ~ Earlier(dl[q[i]], dl[q[n]])
      <4>1. n < i
        BY <1>6, <2>1, <2>4
      <4> QED BY <2>1, <4>1 DEF Ordered
    <3> QED BY <1>0, <2>1, <2>2, <3>1, EarlierIsOrder
  <2> QED BY <2>3, <2>4
<1> DEFINE r == InsertAt(q, n, t)
<1>9. /\ r \in Seq(Timers) /\ Len(r) = Len(q) + 1
      /\ \A i \in 1 .. Len(q) + 1 :
             r[i] = IF i < n THEN q[i] ELSE IF i = n THEN t ELSE q[i - 1]
  BY <1>6, InsertedAt
<1> HIDE DEF r
<1>10. Linked(r) = Linked(q) \cup {t} /\ Ordered(r, dl)
  BY <1>6, <1>7, <1>8, <1>9, LinkedAt
<1> QED BY <1>5, <1>9, <1>10 DEF r

(* __Timer_AddLast may be used for a timer without deadline. *)
LEMMA AddedLast ==
    ASSUME NEW q \in Seq(Timers), NEW t \in Timers \ Linked(q),
           NEW dl \in [Timers -> Deadlines], Ordered(q, dl), dl[t] = Never
    PROVE  /\ Append(q, t) \in Seq(Timers)
           /\ Linked(Append(q, t)) = Linked(q) \cup {t}
           /\ Ordered(Append(q, t), dl)
<1> DEFINE n == Len(q) + 1
           r == Append(q, t)
<1>0. Len(q) \in Nat
      /\ \A i \in 1 .. Len(q) : q[i] \in Timers /\ dl[q[i]] \in Deadlines
  OBVIOUS
<1>1. /\ r \in Seq(Timers) /\ Len(r) = Len(q) + 1
      /\ \A i \in 1 .. Len(q) + 1 :
             r[i] = IF i < n THEN q[i] ELSE IF i = n THEN t ELSE q[i - 1]
  BY <1>0, AppendProperties
<1>2. n \in 1 .. Len(q) + 1 /\ \A i \in n .. Len(q) : FALSE
  BY <1>0
<1>3. \A i \in 1 .. n - 1 : ~ Earlier(dl[t], dl[q[i]])
  BY <1>0, EarlierIsOrder
<1> HIDE DEF n, r
<1>4. Linked(r) = Linked(q) \cup {t} /\ Ordered(r, dl)
  BY ZenonT(60), <1>1, <1>2, <1>3, LinkedAt
<1> QED BY <1>1, <1>4 DEF r

(* The order depends on the deadlines of the timers in the queue only. *)
LEMMA SameOrder ==
    ASSUME NEW q \in Seq(Timers), NEW dl, NEW dm, Ordered(q, dl),
           \A u \in Linked(q) : dm[u] = dl[u]
    PROVE  Ordered(q, dm)
BY DEF Ordered, Linked
-----------------------------------------------------------------------------
(* The requests in flight.                                                  *)
AddsIn(ms) == {ms[i].timer : i \in {j \in 1 .. Len(ms) : ms[j].type = "ADD"}}

Protocol(ms, own, en) ==
    /\ \A i \in 1 .. Len(ms) :
           /\ own[ms[i].timer] # "free"
           /\ ms[i].type = "REMOVE" => own[ms[i].timer] = "deleted"
           /\ ms[i].type = "ADD" => ~ en[ms[i].timer]
    /\ \A i, j \in 1 .. Len(ms) :
           i < j /\ ms[i].timer = ms[j].timer
               => ms[i].type # "REMOVE" /\ ms[j].type # "ADD"

(* A request names a timer, and its parameter is of the kind of its type. *)
LEMMA RequestFacts ==
    ASSUME NEW m \in Requests
    PROVE  /\ m.timer \in Timers
           /\ m.type = "SETCYCLE" => m.para \in Cycles
           /\ m.type = "SETRELOAD" => m.para \in BOOLEAN
<1>1. CASE m \in [timer : Timers, type : {"START", "PAUSE", "ADD", "REMOVE"}]
  BY <1>1
<1>2. CASE m \in [timer : Timers, type : {"SETCYCLE"}, para : Cycles]
  BY <1>2
<1>3. CASE m \in [timer : Timers, type : {"SETRELOAD"}, para : BOOLEAN]
  BY <1>3
<1> QED BY <1>1, <1>2, <1>3 DEF Requests

(* Sending a request. *)
LEMMA Sent ==
    ASSUME NEW ms \in Seq(Requests), NEW m \in Requests, NEW own, NEW en,
           Protocol(ms, own, en),
           own[m.timer] # "free",
           m.type = "REMOVE" => own[m.timer] = "deleted",
           m.type = "ADD" => ~ en[m.timer],
           \A i \in 1 .. Len(ms) :
               ms[i].timer = m.timer => ms[i].type # "REMOVE" /\ m.type # "ADD"
    PROVE  /\ Append(ms, m) \in Seq(Requests)
           /\ Protocol(Append(ms, m), own, en)
           /\ AddsIn(Append(ms, m)) = IF m.type = "ADD"
                                      THEN AddsIn(ms) \cup {m.timer}
                                      ELSE AddsIn(ms)
<1> DEFINE r == Append(ms, m)
           n == Len(ms)
<1>1. /\ r \in Seq(Requests) /\ Len(r) = n + 1 /\ n \in Nat
      /\ r[n + 1] = m /\ \A i \in 1 .. n : r[i] = ms[i]
  BY AppendProperties
<1> HIDE DEF r
<1>2. ASSUME NEW i \in 1 .. n + 1 PROVE i = n + 1 \/ i \in 1 .. n
  BY <1>1
<1>3. Protocol(r, own, en)
  <2>1. ASSUME NEW i \in 1 .. n + 1
        PROVE  /\ own[r[i].timer] # "free"
               /\ r[i].type = "REMOVE" => own[r[i].timer] = "deleted"
               /\ r[i].type = "ADD" => ~ en[r[i].timer]
    BY <1>1, <1>2 DEF Protocol
  <2>2. ASSUME NEW i \in 1 .. n + 1, NEW j \in 1 .. n + 1, i < j,
               r[i].timer = r[j].timer
        PROVE  r[i].type # "REMOVE" /\ r[j].type # "ADD"
    <3>1. i \in 1 .. n
      BY <1>1, <2>2
    <3>2. CASE j = n + 1
      BY <1>1, <2>2, <3>1, <3>2
    <3>3. CASE j \in 1 .. n
      BY <1>1, <2>2, <3>1, <3>3 DEF Protocol
    <3> QED BY <1>2, <3>2, <3>3
  <2> QED BY <1>1, <2>1, <2>2 DEF Protocol
<1>4. AddsIn(r) = IF m.type = "ADD" THEN AddsIn(ms) \cup {m.timer}
                                    ELSE AddsIn(ms)
  <2>1. ASSUME NEW x \in AddsIn(r)
        PROVE  x \in AddsIn(ms) \/ (m.type = "ADD" /\ x = m.timer)
    <3>1. PICK i \in 1 .. n + 1 : r[i].type = "ADD" /\ x = r[i].timer
      BY <1>1 DEF AddsIn
    <3>2. CASE i = n + 1
      BY <1>1, <3>1, <3>2
    <3>3. CASE i \in 1 .. n
      BY <1>1, <3>1, <3>3 DEF AddsIn
    <3> QED BY <1>2, <3>2, <3>3
  <2>2. ASSUME NEW x \in AddsIn(ms) PROVE x \in AddsIn(r)
    <3>1. PICK i \in 1 .. n : ms[i].type = "ADD" /\ x = ms[i].timer
      BY DEF AddsIn
    <3>2. i \in 1 .. Len(r) /\ r[i].type = "ADD" /\ x = r[i].timer
      BY <1>1, <3>1
    <3> QED BY <3>2 DEF AddsIn
  <2>3. m.type = "ADD" => m.timer \in AddsIn(r)
    <3>1. n + 1 \in 1 .. Len(r)
      BY <1>1
    <3> QED BY <1>1, <3>1 DEF AddsIn
  <2> QED BY <2>1, <2>2, <2>3
<1> QED BY <1>1, <1>3, <1>4 DEF r

(* Taking the first request. *)
LEMMA Taken ==
    ASSUME NEW ms \in Seq(Requests), ms # << >>, NEW own, NEW en,
           Protocol(ms, own, en)
    PROVE  LET m == Head(ms)
               t == m.timer
           IN  /\ m \in Requests
               /\ Tail(ms) \in Seq(Requests)
               /\ Protocol(Tail(ms), own, en)
               /\ own[t] # "free"
               /\ m.type = "REMOVE" => own[t] = "deleted"
               /\ m.type = "ADD" => ~ en[t] /\ t \in AddsIn(ms)
               /\ m.type # "ADD" => t \notin AddsIn(ms)
               /\ AddsIn(Tail(ms)) = AddsIn(ms) \ {t}
               /\ t \notin AddsIn(Tail(ms))
               /\ m.type = "REMOVE" =>
                      \A i \in 1 .. Len(Tail(ms)) : Tail(ms)[i].timer # t
<1> DEFINE m == Head(ms)
           t == m.timer
           r == Tail(ms)
           n == Len(ms)
<1>1. /\ r \in Seq(Requests) /\ Len(r) = n - 1 /\ n \in Nat \ {0}
      /\ m = ms[1] /\ m \in Requests /\ \A i \in 1 .. n - 1 : r[i] = ms[i + 1]
  <2>1. n \in Nat \ {0}
    BY EmptySeq
  <2>2. /\ r \in Seq(Requests) /\ Len(r) = n - 1
        /\ \A i \in 1 .. n - 1 : r[i] = ms[i + 1]
    BY HeadTailProperties
  <2>3. m = ms[1] /\ 1 \in 1 .. n
    BY <2>1
  <2> QED BY <2>1, <2>2, <2>3
<1> HIDE DEF m, r, n
<1>2. ASSUME NEW i \in 1 .. n - 1 PROVE i + 1 \in 2 .. n /\ i + 1 \in 1 .. n
  BY <1>1
<1>3. 1 \in 1 .. n /\ n = Len(ms)
  BY <1>1 DEF n
<1>4. ASSUME NEW j \in 2 .. n, ms[j].timer = t
      PROVE  m.type # "REMOVE" /\ ms[j].type # "ADD"
  <2>1. j \in 1 .. n /\ 1 < j
    BY <1>1
  <2> QED BY <1>1, <1>3, <1>4, <2>1 DEF Protocol
<1>5. Protocol(r, own, en)
  <2>1. ASSUME NEW i \in 1 .. n - 1
        PROVE  /\ own[r[i].timer] # "free"
               /\ r[i].type = "REMOVE" => own[r[i].timer] = "deleted"
               /\ r[i].type = "ADD" => ~ en[r[i].timer]
    BY SMTT(60), <1>1, <1>2, <1>3 DEF Protocol
  <2>2. ASSUME NEW i \in 1 .. n - 1, NEW j \in 1 .. n - 1, i < j,
               r[i].timer = r[j].timer
        PROVE  r[i].type # "REMOVE" /\ r[j].type # "ADD"
    <3>1. i + 1 \in 1 .. n /\ j + 1 \in 1 .. n /\ i + 1 < j + 1
      BY <1>1, <2>2
    <3> QED BY ZenonT(60), <1>1, <1>3, <2>2, <3>1 DEF Protocol
  <2> QED BY <1>1, <2>1, <2>2 DEF Protocol
<1>6. /\ own[t] # "free" /\ (m.type = "ADD" => ~ en[t] /\ t \in AddsIn(ms))
      /\ m.type = "REMOVE" => own[t] = "deleted"
  BY <1>1, <1>3 DEF Protocol, AddsIn
<1>7. m.type # "ADD" => t \notin AddsIn(ms)
  <2> SUFFICES ASSUME m.type # "ADD", t \in AddsIn(ms) PROVE FALSE
    OBVIOUS
  <2>1. PICK i \in 1 .. n : ms[i].type = "ADD" /\ t = ms[i].timer
    BY <1>3 DEF AddsIn
  <2>2. i # 1
    BY <1>1, <2>1
  <2>3. i \in 2 .. n
    BY <1>1, <2>1, <2>2
  <2> QED BY <1>4, <2>1, <2>3
<1>8. AddsIn(r) = AddsIn(ms) \ {t}
  <2>1. ASSUME NEW x \in AddsIn(r) PROVE x \in AddsIn(ms) \ {t}
    <3>1. PICK i \in 1 .. n - 1 : r[i].type = "ADD" /\ x = r[i].timer
      BY <1>1 DEF AddsIn
    <3>2. i + 1 \in 2 .. n /\ i + 1 \in 1 .. n /\ ms[i + 1].type = "ADD"
          /\ x = ms[i + 1].timer
      BY <1>1, <1>2, <3>1
    <3>3. x # t
      BY <1>4, <3>2
    <3> QED BY <1>3, <3>2, <3>3 DEF AddsIn
  <2>2. ASSUME NEW x \in AddsIn(ms), x # t PROVE x \in AddsIn(r)
    <3>1. PICK i \in 1 .. n : ms[i].type = "ADD" /\ x = ms[i].timer
      BY <1>3 DEF AddsIn
    <3>2. i # 1
      BY <1>1, <2>2, <3>1
    <3>3. i - 1 \in 1 .. n - 1 /\ (i - 1) + 1 = i
      BY <1>1, <3>1, <3>2
    <3>4. i - 1 \in 1 .. Len(r) /\ r[i - 1] = ms[i]
      BY <1>1, <3>3
    <3> QED BY <3>1, <3>4 DEF AddsIn
  <2> QED BY <2>1, <2>2
<1>9. m.type = "REMOVE" => \A i \in 1 .. Len(r) : r[i].timer # t
  BY <1>1, <1>2, <1>4
<1> QED BY <1>1, <1>5, <1>6, <1>7, <1>8, <1>9 DEF m, r
-----------------------------------------------------------------------------
(* Whole ticks.                                                             *)

(* A timeout is rounded up by less than one tick. *)
LEMMA RoundedUp ==
    ASSUME NEW w \in Nat
    PROVE  /\ Ticks(w) \in Nat /\ (w # 0 => Ticks(w) # 0)
           /\ Ticks(w) * Precision \in Nat
           /\ Ticks(w) * Precision < w + Precision
BY TimerAssumption DEF Ticks

(* The phase of the clock starts again with every tick. *)
LEMMA NextPhase ==
    ASSUME NEW f \in 0 .. Precision - 1
    PROVE  (f + 1) % Precision = IF f + 1 = Precision THEN 0 ELSE f + 1
BY TimerAssumption

(* One tick less. *)
LEMMA TickLess ==
    ASSUME NEW k \in Nat
    PROVE  /\ k * Precision \in Nat
           /\ (k - 1) * Precision = k * Precision - Precision
           /\ k # 0 => k * Precision >= Precision
BY TimerAssumption
-----------------------------------------------------------------------------
(* The invariant in terms of these operators, before and after a step. *)
Known(own, ms) == {t \in Timers : own[t] # "free"} \ AddsIn(ms)

(* Restating changes nothing. *)
LEMMA Restated ==
    /\ QueueInOrder <=> /\ Ordered(queue, deadline)
                        /\ Linked(queue) = Known(owner, msgs)
                        /\ \A t \in Timers : encount[t] \/ deadline[t] = Never
    /\ QueueInOrder' <=>
           /\ Ordered(queue', deadline')
           /\ Linked(queue') = Known(owner', msgs')
           /\ \A t \in Timers : encount'[t] \/ deadline'[t] = Never
    /\ RequestsInOrder <=> Protocol(msgs, owner, encount)
    /\ RequestsInOrder' <=> Protocol(msgs', owner', encount')
    /\ Queued = Linked(queue)
    /\ Queued' = Linked(queue')
BY DEF QueueInOrder, Ordered, Linked, Queued, Known, AddsIn, Asked,
       RequestsInOrder, Protocol

(* Before anything is created, there is nothing to order. *)
LEMMA TimerInit == ASSUME Init PROVE TimerInv
<1>1. TimerTypeOK
  <2>1. /\ << >> \in Seq(Timers) /\ << >> \in Seq(Requests)
        /\ Never \in Deadlines /\ 0 \in Nat /\ 0 \in 0 .. MaxDelay
        /\ 0 \in 0 .. Precision - 1
    BY TimerAssumption DEF Deadlines
  <2>2. encount \in [Timers -> BOOLEAN] /\ reload \in [Timers -> BOOLEAN]
    BY Zenon DEF Init
  <2> QED BY <2>1, <2>2 DEF Init, TimerTypeOK
<1>2. Len(queue) = 0 /\ Len(msgs) = 0
  BY DEF Init
<1>3. QueueInOrder
  BY <1>2 DEF Init, QueueInOrder, Queued, Asked
<1>4. RequestsInOrder /\ NeverLate /\ WaitIsEnough
  BY <1>2 DEF Init, RequestsInOrder, NeverLate, WaitIsEnough, Queued, Sleeps
<1> QED BY <1>1, <1>3, <1>4 DEF TimerInv

(* A request whose sender is entitled to it keeps the invariant, if nothing *)
(* but the request and cells that are not linked change.                    *)
LEMMA SendInv ==
    ASSUME TimerInv, NEW m \in Requests,
           msgs' = Append(msgs, m),
           UNCHANGED <<queue, pc, wait, phase, spent, delayed>>,
           encount' \in [Timers -> BOOLEAN], reload' \in [Timers -> BOOLEAN],
           cycle' \in [Timers -> Cycles], deadline' \in [Timers -> Deadlines],
           owner' \in [Timers -> {"free", "live", "deleted"}],
           Protocol(msgs, owner', encount'),
           owner'[m.timer] # "free",
           m.type = "REMOVE" => owner'[m.timer] = "deleted",
           m.type = "ADD" => ~ encount'[m.timer],
           \A i \in 1 .. Len(msgs) :
               msgs[i].timer = m.timer
                   => msgs[i].type # "REMOVE" /\ m.type # "ADD",
           \A u \in Linked(queue) : deadline'[u] = deadline[u],
           \A u \in Timers : encount'[u] \/ deadline'[u] = Never,
           Known(owner', Append(msgs, m)) = Known(owner, msgs)
    PROVE  TimerInv'
<1>0. msgs \in Seq(Requests) /\ queue \in Seq(Timers)
  BY DEF TimerInv, TimerTypeOK
<1>1. msgs' \in Seq(Requests) /\ Protocol(msgs', owner', encount')
  BY <1>0, Sent
<1>2. TimerTypeOK'
  BY <1>1 DEF TimerInv, TimerTypeOK
<1>3. Ordered(queue, deadline')
  BY <1>0, Restated, SameOrder DEF TimerInv
<1>4. QueueInOrder' /\ RequestsInOrder'
  BY <1>1, <1>3, Restated DEF TimerInv
<1>5. NeverLate'
  BY Restated DEF TimerInv, NeverLate
<1>6. WaitIsEnough'
  <2>1. ~ Sleeps'
    <3>1. msgs' # << >>
      BY <1>0, AppendProperties
    <3> QED BY <3>1 DEF Sleeps
  <2> QED BY <2>1, Restated DEF TimerInv, WaitIsEnough, Expects
<1> QED BY <1>2, <1>4, <1>5, <1>6 DEF TimerInv

(* Timer_Create keeps the invariant. *)
LEMMA CreateInv ==
    ASSUME TimerInv, ~ ReuseAtOnce,
           NEW t \in Timers, NEW c \in Cycles, Create(t, c)
    PROVE  TimerInv'
<1> DEFINE m == [timer |-> t, type |-> "ADD"]
<1>0. /\ msgs \in Seq(Requests) /\ owner[t] = "free"
      /\ owner \in [Timers -> {"free", "live", "deleted"}]
      /\ deadline \in [Timers -> Deadlines] /\ encount \in [Timers -> BOOLEAN]
      /\ Protocol(msgs, owner, encount)
      /\ \A i \in 1 .. Len(msgs) : msgs[i] \in Requests
  BY Restated DEF TimerInv, TimerTypeOK, Create, Allocatable
<1>1. m \in Requests /\ m.timer = t /\ m.type = "ADD"
  BY DEF Requests
<1>2. /\ msgs' = Append(msgs, m)
      /\ UNCHANGED <<queue, pc, wait, phase, spent, delayed>>
  BY DEF Create, Send, clockVars
<1>3. /\ encount' = [encount EXCEPT ![t] = FALSE]
      /\ owner' = [owner EXCEPT ![t] = "live"]
      /\ deadline' = [deadline EXCEPT ![t] = Never]
  BY DEF Create
<1>4. encount' \in [Timers -> BOOLEAN] /\ reload' \in [Timers -> BOOLEAN]
  BY Zenon DEF Create, TimerInv, TimerTypeOK
<1>5. /\ cycle' \in [Timers -> Cycles] /\ deadline' \in [Timers -> Deadlines]
      /\ owner' \in [Timers -> {"free", "live", "deleted"}]
  BY DEF Create, TimerInv, TimerTypeOK, Deadlines
<1>6. /\ owner'[t] = "live" /\ ~ encount'[t] /\ deadline'[t] = Never
      /\ \A u \in Timers : u # t => /\ owner'[u] = owner[u]
                                    /\ encount'[u] = encount[u]
                                    /\ deadline'[u] = deadline[u]
  BY <1>0, <1>3
<1>7. \A i \in 1 .. Len(msgs) : msgs[i].timer \in Timers /\ msgs[i].timer # t
  BY <1>0, RequestFacts DEF Protocol
<1>8. Protocol(msgs, owner', encount')
  BY ONLY <1>0, <1>6, <1>7 DEF Protocol
<1>9. Linked(queue) = Known(owner, msgs) /\ t \notin Linked(queue)
      /\ Linked(queue) \subseteq Timers
      /\ \A u \in Timers : encount[u] \/ deadline[u] = Never
  BY <1>0, Restated DEF TimerInv, Known
<1>10. Known(owner', Append(msgs, m)) = Known(owner, msgs)
  <2>1. AddsIn(Append(msgs, m)) = AddsIn(msgs) \cup {t}
    BY ONLY <1>0, <1>1, <1>6, <1>7, <1>8, Sent
  <2> QED BY ONLY <1>0, <1>6, <2>1 DEF Known
<1>11. \A u \in Linked(queue) : deadline'[u] = deadline[u]
  BY <1>6, <1>9
<1>12. \A u \in Timers : encount'[u] \/ deadline'[u] = Never
  BY <1>6, <1>9
<1> HIDE DEF m
<1> QED BY <1>1, <1>2, <1>4, <1>5, <1>6, <1>7, <1>8, <1>10, <1>11, <1>12,
           SendInv

(* Timer_Delete keeps the invariant. *)
LEMMA DeleteInv ==
    ASSUME TimerInv, NEW t \in Timers, Delete(t) PROVE TimerInv'
<1> DEFINE m == [timer |-> t, type |-> "REMOVE"]
<1>0. /\ msgs \in Seq(Requests) /\ owner[t] = "live"
      /\ owner \in [Timers -> {"free", "live", "deleted"}]
      /\ Protocol(msgs, owner, encount)
      /\ \A i \in 1 .. Len(msgs) : msgs[i] \in Requests
  BY Restated DEF TimerInv, TimerTypeOK, Delete
<1>1. m \in Requests /\ m.timer = t /\ m.type = "REMOVE"
  BY DEF Requests
<1>2. /\ msgs' = Append(msgs, m)
      /\ UNCHANGED <<queue, pc, wait, phase, spent, delayed>>
      /\ UNCHANGED <<encount, reload, cycle, deadline>>
      /\ owner' = [owner EXCEPT ![t] = "deleted"]
  BY DEF Delete, Send, timerVars, clockVars
<1>3. /\ encount' \in [Timers -> BOOLEAN] /\ reload' \in [Timers -> BOOLEAN]
      /\ cycle' \in [Timers -> Cycles] /\ deadline' \in [Timers -> Deadlines]
  BY <1>2 DEF TimerInv, TimerTypeOK
<1>4. /\ owner' \in [Timers -> {"free", "live", "deleted"}]
      /\ owner'[t] = "deleted"
      /\ \A u \in Timers : u # t => owner'[u] = owner[u]
  BY <1>0, <1>2
<1>5. \A i \in 1 .. Len(msgs) :
          /\ msgs[i].timer \in Timers
          /\ msgs[i].timer = t => msgs[i].type # "REMOVE"
  BY <1>0, RequestFacts DEF Protocol
<1>6. Protocol(msgs, owner', encount')
  <2>1. encount' = encount
    BY <1>2
  <2> QED BY ONLY <1>0, <1>4, <1>5, <2>1 DEF Protocol
<1>7. Known(owner', Append(msgs, m)) = Known(owner, msgs)
  <2>1. AddsIn(Append(msgs, m)) = AddsIn(msgs)
    BY ONLY <1>0, <1>1, <1>4, <1>5, <1>6, Sent
  <2> QED BY ONLY <1>0, <1>4, <2>1 DEF Known
<1>8. /\ \A u \in Linked(queue) : deadline'[u] = deadline[u]
      /\ \A u \in Timers : encount'[u] \/ deadline'[u] = Never
  BY <1>2, Restated DEF TimerInv
<1> HIDE DEF m
<1> QED BY <1>1, <1>2, <1>3, <1>4, <1>5, <1>6, <1>7, <1>8, SendInv

(* Timer_Ctrl keeps the invariant. *)
LEMMA CtrlInv ==
    ASSUME TimerInv, NEW m \in Requests, Ctrl(m) PROVE TimerInv'
<1>0. /\ msgs \in Seq(Requests) /\ owner[m.timer] = "live"
      /\ m.type \notin {"ADD", "REMOVE"}
      /\ Protocol(msgs, owner, encount)
  BY Restated DEF TimerInv, TimerTypeOK, Ctrl
<1>1. /\ msgs' = Append(msgs, m)
      /\ UNCHANGED <<queue, pc, wait, phase, spent, delayed>>
      /\ encount' = encount /\ reload' = reload /\ cycle' = cycle
      /\ deadline' = deadline /\ owner' = owner
  BY DEF Ctrl, Send, timerVars, clockVars
<1>2. /\ encount' \in [Timers -> BOOLEAN] /\ reload' \in [Timers -> BOOLEAN]
      /\ cycle' \in [Timers -> Cycles] /\ deadline' \in [Timers -> Deadlines]
      /\ owner' \in [Timers -> {"free", "live", "deleted"}]
  BY <1>1 DEF TimerInv, TimerTypeOK
<1>3. \A i \in 1 .. Len(msgs) :
          msgs[i].timer = m.timer => msgs[i].type # "REMOVE"
  BY <1>0 DEF Protocol
<1>4. Known(owner', Append(msgs, m)) = Known(owner, msgs)
  <2>1. AddsIn(Append(msgs, m)) = AddsIn(msgs)
    BY ONLY <1>0, <1>3, Sent, m \in Requests
  <2> QED BY <1>1, <2>1 DEF Known
<1>5. /\ \A u \in Linked(queue) : deadline'[u] = deadline[u]
      /\ \A u \in Timers : encount'[u] \/ deadline'[u] = Never
      /\ Protocol(msgs, owner', encount')
  BY <1>0, <1>1, Restated DEF TimerInv
<1> QED BY <1>0, <1>1, <1>2, <1>3, <1>4, <1>5, SendInv
-----------------------------------------------------------------------------
(* A linked timer with a new deadline can be put back at its place, or, if  *)
(* it is Never, at the end.                                                 *)
LEMMA PutBack ==
    ASSUME NEW q \in Seq(Timers), NEW dl \in [Timers -> Deadlines],
           Ordered(q, dl), NEW t \in Linked(q),
           NEW dm \in [Timers -> Deadlines],
           \A u \in Timers : u # t => dm[u] = dl[u], NEW r,
           \/ r = Add(Without(q, t), t, dm)
           \/ dm[t] = Never /\ r = Append(Without(q, t), t)
    PROVE  r \in Seq(Timers) /\ Linked(r) = Linked(q) /\ Ordered(r, dm)
<1> DEFINE w == Without(q, t)
<1>0. t \in Timers
  BY DEF Linked
<1>1. /\ dm \in [Timers -> Deadlines]
      /\ \A u \in Timers : u # t => dm[u] = dl[u]
  OBVIOUS
<1>2. w \in Seq(Timers) /\ Linked(w) = Linked(q) \ {t} /\ Ordered(w, dl)
  BY Removed
<1> HIDE DEF w
<1>3. Ordered(w, dm)
  <2>1. \A u \in Linked(w) : u \in Timers /\ dm[u] = dl[u]
    <3>1. Linked(q) \subseteq Timers
      BY DEF Linked
    <3> QED BY <1>1, <1>2, <3>1
  <2> QED BY ONLY <1>2, <2>1, SameOrder
<1>4. t \in Timers \ Linked(w)
  BY <1>0, <1>2
<1>5. CASE r = Add(w, t, dm)
  <2>1. r \in Seq(Timers) /\ Linked(r) = Linked(w) \cup {t} /\ Ordered(r, dm)
    BY ONLY <1>1, <1>2, <1>3, <1>4, <1>5, Added
  <2> QED BY <1>2, <2>1
<1>6. CASE dm[t] = Never /\ r = Append(w, t)
  <2>1. r \in Seq(Timers) /\ Linked(r) = Linked(w) \cup {t} /\ Ordered(r, dm)
    BY ONLY <1>1, <1>2, <1>3, <1>4, <1>6, AddedLast
  <2> QED BY <1>2, <2>1
<1> QED BY <1>5, <1>6 DEF w

(* What has to be shown of a step that ends before the next wait is         *)
(* computed, and changes the deadline of one linked timer at most.          *)
LEMMA ScanInv ==
    ASSUME TimerInv, NEW t \in Timers,
           TimerTypeOK', RequestsInOrder', pc' = "scan", delayed' = delayed,
           Linked(queue') \subseteq Linked(queue) \cup {t},
           Ordered(queue', deadline'),
           Linked(queue') = Known(owner', msgs'),
           \A u \in Timers : u # t => deadline'[u] = deadline[u],
           \/ t \in Linked(queue) /\ deadline'[t] = deadline[t]
           \/ deadline'[t] \in Nat \cup {Never},
           \A u \in Timers : encount'[u] \/ deadline'[u] = Never
    PROVE  TimerInv'
<1>1. QueueInOrder' /\ WaitIsEnough'
  BY Restated DEF WaitIsEnough, Sleeps
<1>2. NeverLate'
  <2> SUFFICES ASSUME NEW u \in Linked(queue'), deadline'[u] # Never,
                      delayed # MaxDelay
               PROVE  deadline'[u] + delayed > - Precision
    BY Restated DEF NeverLate
  <2>0. delayed \in Nat /\ Precision \in Nat \ {0}
    BY TimerAssumption DEF TimerInv, TimerTypeOK
  <2>1. \A v \in Linked(queue) :
            deadline[v] = Never \/ deadline[v] + delayed > - Precision
    BY Restated DEF TimerInv, NeverLate
  <2>2. CASE u = t /\ deadline'[t] \in Nat \cup {Never}
    BY <2>0, <2>2
  <2>3. CASE u = t /\ deadline'[t] \notin Nat \cup {Never}
    BY <2>1, <2>3
  <2>4. CASE u # t
    <3>1. u \in Linked(queue) /\ u \in Timers
      BY <2>4 DEF Known
    <3> QED BY <2>1, <2>4, <3>1
  <2> QED BY <2>2, <2>3, <2>4
<1> QED BY <1>1, <1>2 DEF TimerInv

(* __Timer_DealTimeout runs the hook of a timer that is due. *)
LEMMA FireInv == ASSUME TimerInv, Fire PROVE TimerInv'
<1> DEFINE t == Head(queue)
           d == IF reload[t] THEN cycle[t] ELSE Never
<1>0. /\ queue \in Seq(Timers) /\ queue # << >> /\ encount[t] /\ pc = "scan"
      /\ deadline \in [Timers -> Deadlines] /\ cycle \in [Timers -> Cycles]
      /\ Ordered(queue, deadline) /\ Linked(queue) = Known(owner, msgs)
  BY Restated DEF TimerInv, TimerTypeOK, Fire, HeadCounts
<1>1. /\ deadline' = [deadline EXCEPT ![t] = d]
      /\ queue' = IF reload[t] THEN Add(Without(queue, t), t, deadline')
                               ELSE Append(Without(queue, t), t)
      /\ UNCHANGED <<encount, reload, cycle, owner, msgs, pc, wait, delayed,
                     phase>>
      /\ spent' = 0
  BY DEF Fire, Steps
<1>2. t \in Linked(queue) /\ t \in Timers
  <2>1. t = queue[1] /\ 1 \in 1 .. Len(queue)
    BY <1>0, EmptySeq
  <2> QED BY <1>0, <2>1 DEF Linked
<1>3. d \in Nat \cup {Never} /\ d \in Deadlines /\ (~ reload[t] => d = Never)
  <2>1. cycle[t] \in Nat
    BY <1>0, <1>2, TimerAssumption
  <2>2. d = cycle[t] \/ d = Never
    OBVIOUS
  <2>3. ~ reload[t] => d = Never
    OBVIOUS
  <2> QED BY <2>1, <2>2, <2>3 DEF Deadlines
<1> HIDE DEF t, d
<1>4. /\ queue' \in Seq(Timers) /\ Linked(queue') = Linked(queue)
      /\ Ordered(queue', deadline')
  <2>1. \/ queue' = Add(Without(queue, t), t, deadline')
        \/ d = Never /\ queue' = Append(Without(queue, t), t)
    BY <1>1, <1>3
  <2> DEFINE dm == deadline'
             r == queue'
  <2>2. /\ dm \in [Timers -> Deadlines]
        /\ \A u \in Timers : u # t => dm[u] = deadline[u]
        /\ \/ r = Add(Without(queue, t), t, dm)
           \/ dm[t] = Never /\ r = Append(Without(queue, t), t)
    BY <1>0, <1>1, <1>2, <1>3, <2>1
  <2>3. /\ queue \in Seq(Timers) /\ deadline \in [Timers -> Deadlines]
        /\ Ordered(queue, deadline) /\ t \in Linked(queue)
    BY <1>0, <1>2
  <2> HIDE DEF dm, r
  <2>4. r \in Seq(Timers) /\ Linked(r) = Linked(queue) /\ Ordered(r, dm)
    BY ONLY <2>2, <2>3, PutBack
  <2> QED BY <2>4 DEF dm, r
<1>5. deadline' \in [Timers -> Deadlines]
      /\ \A u \in Timers : u # t => deadline'[u] = deadline[u]
  BY <1>0, <1>1, <1>2, <1>3
<1>6. TimerTypeOK' /\ RequestsInOrder'
  BY <1>1, <1>4, <1>5 DEF TimerInv, TimerTypeOK, RequestsInOrder
<1>7. Linked(queue') = Known(owner', msgs')
  BY <1>0, <1>1, <1>4 DEF Known
<1>8. \A u \in Timers : encount'[u] \/ deadline'[u] = Never
  <2>1. encount' = encount /\ encount[t]
    BY <1>0, <1>1 DEF t
  <2> QED BY <1>5, <2>1, Restated DEF TimerInv
<1>9. /\ pc' = "scan" /\ delayed' = delayed
      /\ Linked(queue') \subseteq Linked(queue) \cup {t}
      /\ deadline'[t] \in Nat \cup {Never}
  BY <1>0, <1>1, <1>2, <1>3, <1>4
<1> QED BY <1>2, <1>4, <1>5, <1>6, <1>7, <1>8, <1>9, ScanInv

(* The end of the scan: with the first deadline still to come, all are. *)
LEMMA ScanEndInv == ASSUME TimerInv, ScanEnd PROVE TimerInv'
<1> DEFINE t == Head(queue)
<1>0. /\ queue \in Seq(Timers) /\ deadline \in [Timers -> Deadlines]
      /\ Ordered(queue, deadline) /\ Linked(queue) = Known(owner, msgs)
      /\ \A u \in Timers : encount[u] \/ deadline[u] = Never
      /\ Precision \in Nat \ {0}
  BY Restated, TimerAssumption DEF TimerInv, TimerTypeOK
<1>1. /\ pc' = "call" /\ delayed' = 0
      /\ queue' = queue /\ encount' = encount /\ reload' = reload
      /\ cycle' = cycle /\ deadline' = deadline /\ owner' = owner
      /\ msgs' = msgs /\ phase' = phase /\ spent' = 0
  BY DEF ScanEnd, timerVars, Steps
<1>2. ASSUME NEW u \in Linked(queue)
      PROVE  /\ queue # << >> /\ t \in Timers /\ u \in Timers
             /\ ~ Earlier(deadline[u], deadline[t])
  <2>1. PICK i \in 1 .. Len(queue) : u = queue[i]
    BY DEF Linked
  <2>2. queue # << >> /\ Len(queue) \in Nat /\ 1 \in 1 .. Len(queue)
    BY <1>0, <2>1, EmptySeq
  <2>3. t = queue[1] /\ t \in Timers /\ u \in Timers
    BY <1>0, <2>1, <2>2
  <2>4. CASE i = 1
    BY <1>0, <2>1, <2>2, <2>3, <2>4, EarlierIsOrder
  <2>5. CASE i # 1
    BY <1>0, <2>1, <2>2, <2>3, <2>5 DEF Ordered
  <2> QED BY <2>2, <2>3, <2>4, <2>5
<1>3. ASSUME NEW u \in Linked(queue)
      PROVE  /\ deadline[u] = Never
                \/ (wait' # Forever /\ wait' \in Nat /\ deadline[u] >= wait')
  <2>1. /\ queue # << >> /\ t \in Timers /\ u \in Timers
        /\ ~ Earlier(deadline[u], deadline[t])
    BY <1>2
  <2>2. deadline[u] \in Deadlines /\ deadline[t] \in Deadlines
    BY <1>0, <2>1
  <2>3. CASE deadline[t] = Never
    BY <2>1, <2>2, <2>3 DEF Earlier
  <2>4. CASE deadline[t] # Never
    <3>1. HeadCounts
      BY <1>0, <2>1, <2>4 DEF HeadCounts
    <3>2. wait' = deadline[t] /\ ~ ChkTimeout(t)
      BY <2>4, <3>1 DEF ScanEnd
    <3>3. deadline[t] \in Int /\ deadline[t] >= Precision
      BY <1>0, <2>2, <2>4, <3>2 DEF ChkTimeout, Deadlines
    <3>4. wait' \in Nat /\ wait' # Forever
      BY <1>0, <3>2, <3>3, TimerAssumption
    <3>5. deadline[u] = Never \/ deadline[u] >= deadline[t]
      BY <2>1, <2>2, <2>4, <3>3 DEF Earlier, Deadlines
    <3> QED BY <3>2, <3>4, <3>5
  <2> QED BY <2>3, <2>4
<1>4. wait' \in Nat \cup {Forever}
  <2>1. CASE HeadCounts /\ deadline[t] # Never
    <3>1. t \in Linked(queue)
      <4>1. t = queue[1] /\ 1 \in 1 .. Len(queue)
        BY <1>0, <2>1, EmptySeq DEF HeadCounts
      <4> QED BY <4>1 DEF Linked
    <3> QED BY <1>3, <2>1, <3>1
  <2>2. CASE ~(HeadCounts /\ deadline[t] # Never)
    BY <2>2 DEF ScanEnd
  <2> QED BY <2>1, <2>2
<1>5. TimerTypeOK'
  <2>1. 0 \in 0 .. MaxDelay
    BY TimerAssumption
  <2> QED BY <1>1, <1>4, <2>1 DEF TimerInv, TimerTypeOK
<1>6. QueueInOrder' /\ RequestsInOrder'
  BY <1>1, Restated DEF TimerInv
<1>7. ASSUME NEW u \in Linked(queue)
      PROVE  /\ deadline[u] = Never
                \/ (/\ wait' # Forever /\ deadline[u] >= wait' - delayed'
                    /\ deadline[u] + delayed' > - Precision)
  <2>1. deadline[u] \in Deadlines
    BY <1>0, <1>2
  <2> QED BY <1>0, <1>1, <1>3, <2>1, TimerAssumption DEF Deadlines
<1>8. NeverLate' /\ WaitIsEnough'
  BY <1>1, <1>7, Restated DEF NeverLate, WaitIsEnough, Expects, Sleeps
<1> QED BY <1>5, <1>6, <1>8 DEF TimerInv

(* The call of MsgQ_Receive. *)
LEMMA ReceiveInv == ASSUME TimerInv, Receive PROVE TimerInv'
<1>0. /\ wait \in Nat \cup {Forever} /\ delayed \in Nat
      /\ phase \in 0 .. Precision - 1 /\ Precision \in Nat \ {0}
      /\ deadline \in [Timers -> Deadlines]
      /\ Forever \notin Int /\ Linked(queue) \subseteq Timers
  BY Restated, TimerAssumption DEF TimerInv, TimerTypeOK, Known
<1>1. /\ UNCHANGED <<queue, encount, reload, cycle, deadline, owner, msgs,
                     delayed, phase>>
      /\ spent' = 0 /\ pc = "call"
      /\ pc' = IF msgs = << >> /\ wait = 0 THEN "scan" ELSE "recv"
      /\ wait' = IF wait = Forever THEN Forever ELSE Ticks(wait)
  BY DEF Receive, Steps, timerVars
<1>2. /\ wait' \in Nat \cup {Forever}
      /\ wait # 0 => wait' # 0
      /\ wait \in Nat => /\ wait' \in Nat /\ wait' * Precision \in Nat
                         /\ wait' * Precision < wait + Precision
  <2>1. CASE wait = Forever
    BY <1>0, <1>1, <2>1
  <2>2. CASE wait \in Nat
    <3>1. wait' = Ticks(wait)
      BY <1>0, <1>1, <2>2
    <3> QED BY <1>0, <2>2, <3>1, RoundedUp
  <2> QED BY <1>0, <2>1, <2>2
<1>3. TimerTypeOK'
  BY <1>1, <1>2 DEF TimerInv, TimerTypeOK
<1>4. QueueInOrder' /\ RequestsInOrder' /\ NeverLate'
  BY <1>1, Restated DEF TimerInv, NeverLate
<1>5. ASSUME NEW u \in Linked(queue), deadline[u] # Never, delayed # MaxDelay
      PROVE  /\ wait' # Forever
             /\ deadline[u] + delayed > wait' * Precision - phase - Precision
  <2>1. wait # Forever /\ deadline[u] >= wait - delayed
    BY <1>1, <1>5, Restated DEF TimerInv, WaitIsEnough, Expects
  <2>2. wait \in Nat /\ deadline[u] \in Int
    BY <1>0, <1>5, <2>1 DEF Deadlines
  <2>3. /\ wait' \in Nat /\ wait' * Precision \in Nat
        /\ wait' * Precision < wait + Precision
    BY <1>2, <2>2
  <2>4. wait' # Forever
    BY <1>0, <2>3
  <2> DEFINE k == wait' * Precision
  <2>5. k \in Nat /\ k < wait + Precision
    BY <2>3
  <2> HIDE DEF k
  <2>6. deadline[u] + delayed > k - phase - Precision
    BY <1>0, <2>1, <2>2, <2>5
  <2> QED BY <2>4, <2>6 DEF k
<1>6. Sleeps' => wait' # 0
  BY <1>1, <1>2 DEF Sleeps
<1>7. WaitIsEnough'
  BY <1>1, <1>5, <1>6, Restated DEF WaitIsEnough, Rounded
<1> QED BY <1>3, <1>4, <1>7 DEF TimerInv

(* Its end without a message. *)
LEMMA TimeoutInv == ASSUME TimerInv, RecvTimeout PROVE TimerInv'
<1>1. /\ UNCHANGED <<queue, encount, reload, cycle, deadline, owner, msgs,
                     wait, delayed, phase>>
      /\ spent' = 0 /\ pc' = "scan"
  BY DEF RecvTimeout, Steps, timerVars
<1>2. TimerTypeOK'
  BY <1>1 DEF TimerInv, TimerTypeOK
<1>3. QueueInOrder' /\ RequestsInOrder' /\ NeverLate'
  BY <1>1, Restated DEF TimerInv, NeverLate
<1>4. WaitIsEnough'
  BY <1>1 DEF WaitIsEnough, Sleeps
<1> QED BY <1>2, <1>3, <1>4 DEF TimerInv

(* A timer that starts or gets another period, and one that is paused, is   *)
(* put back at its place.                                                   *)
LEMMA Relinked ==
    ASSUME TimerInv, NEW t \in Linked(queue), NEW d \in Nat \cup {Never},
           deadline' = [deadline EXCEPT ![t] = d],
           \/ queue' = Add(Without(queue, t), t, deadline')
           \/ d = Never /\ queue' = Append(Without(queue, t), t)
    PROVE  /\ queue' \in Seq(Timers) /\ Linked(queue') = Linked(queue)
           /\ Ordered(queue', deadline')
           /\ deadline' \in [Timers -> Deadlines] /\ deadline'[t] = d
           /\ \A u \in Timers : u # t => deadline'[u] = deadline[u]
<1> DEFINE dm == deadline'
           r == queue'
<1>1. /\ queue \in Seq(Timers) /\ deadline \in [Timers -> Deadlines]
      /\ Ordered(queue, deadline) /\ t \in Linked(queue) /\ t \in Timers
      /\ d \in Deadlines
  BY Restated DEF TimerInv, TimerTypeOK, Known, Deadlines
<1>2. /\ dm \in [Timers -> Deadlines] /\ dm[t] = d
      /\ \A u \in Timers : u # t => dm[u] = deadline[u]
  BY <1>1
<1>3. \/ r = Add(Without(queue, t), t, dm)
      \/ dm[t] = Never /\ r = Append(Without(queue, t), t)
  BY <1>2
<1> HIDE DEF dm, r
<1>4. r \in Seq(Timers) /\ Linked(r) = Linked(queue) /\ Ordered(r, dm)
  BY ONLY <1>1, <1>2, <1>3, PutBack
<1> QED BY <1>2, <1>4 DEF dm, r

(* Timer_VMTask handles a request. *)
LEMMA HandleInv == ASSUME TimerInv, HandleMsg PROVE TimerInv'
<1> DEFINE m == Head(msgs)
           t == m.timer
           ms == Tail(msgs)
<1>0. /\ queue \in Seq(Timers) /\ msgs \in Seq(Requests) /\ msgs # << >>
      /\ encount \in [Timers -> BOOLEAN] /\ reload \in [Timers -> BOOLEAN]
      /\ cycle \in [Timers -> Cycles] /\ deadline \in [Timers -> Deadlines]
      /\ owner \in [Timers -> {"free", "live", "deleted"}]
      /\ delayed \in 0 .. MaxDelay /\ phase \in 0 .. Precision - 1
      /\ Protocol(msgs, owner, encount)
      /\ Ordered(queue, deadline) /\ Linked(queue) = Known(owner, msgs)
      /\ \A u \in Timers : encount[u] \/ deadline[u] = Never
  BY Restated DEF TimerInv, TimerTypeOK, HandleMsg
<1>1. /\ Handle(t, m.type, m) /\ msgs' = ms /\ pc' = "scan" /\ wait' = 0
      /\ delayed' = delayed /\ phase' = phase /\ spent' = 0
  BY DEF HandleMsg, Steps
<1>2. /\ m \in Requests /\ ms \in Seq(Requests)
      /\ Protocol(ms, owner, encount)
      /\ owner[t] # "free"
      /\ m.type = "REMOVE" => owner[t] = "deleted"
      /\ m.type = "ADD" => ~ encount[t] /\ t \in AddsIn(msgs)
      /\ m.type # "ADD" => t \notin AddsIn(msgs)
      /\ AddsIn(ms) = AddsIn(msgs) \ {t} /\ t \notin AddsIn(ms)
      /\ m.type = "REMOVE" => \A i \in 1 .. Len(ms) : ms[i].timer # t
  BY <1>0, Taken
<1>3. /\ t \in Timers /\ (m.type = "SETCYCLE" => m.para \in Cycles)
      /\ (m.type = "SETRELOAD" => m.para \in BOOLEAN)
  BY <1>2, RequestFacts
<1> HIDE DEF m, t, ms
<1>4. m.type # "ADD" => t \in Linked(queue)
  BY <1>0, <1>2, <1>3 DEF Known
<1>5. m.type = "ADD" => t \notin Linked(queue)
  BY <1>0, <1>2 DEF Known
<1>6. \A i \in 1 .. Len(ms) : ms[i] \in Requests /\ ms[i].timer \in Timers
  BY <1>2, RequestFacts
<1>7. \A i \in 1 .. Len(ms) : ms[i].type = "ADD" => ms[i].timer # t
  BY <1>2 DEF AddsIn
<1>8. Known(owner, ms) = IF m.type = "ADD" THEN Linked(queue) \cup {t}
                                           ELSE Linked(queue)
  BY <1>0, <1>2, <1>3 DEF Known
<1>9. \A c \in Cycles : c \in Nat \cup {Never}
  BY TimerAssumption
<1>10. ASSUME encount' \in [Timers -> BOOLEAN], reload' \in [Timers -> BOOLEAN],
              cycle' \in [Timers -> Cycles],
              \A u \in Timers : u # t => encount'[u] = encount[u],
              owner' = owner, m.type # "ADD",
              queue' \in Seq(Timers), Linked(queue') = Linked(queue),
              Ordered(queue', deadline'), deadline' \in [Timers -> Deadlines],
              \A u \in Timers : u # t => deadline'[u] = deadline[u],
              deadline'[t] = deadline[t] \/ deadline'[t] \in Nat \cup {Never},
              encount'[t] \/ deadline'[t] = Never
       PROVE  TimerInv'
  <2>1. Protocol(ms, owner', encount')
    BY ONLY <1>2, <1>6, <1>7, <1>10 DEF Protocol
  <2>2. TimerTypeOK' /\ RequestsInOrder'
    BY <1>0, <1>1, <1>2, <1>10, <2>1, Restated DEF TimerTypeOK
  <2>3. Linked(queue') = Known(owner', msgs')
    BY <1>1, <1>8, <1>10
  <2>4. \A u \in Timers : encount'[u] \/ deadline'[u] = Never
    BY <1>0, <1>10
  <2> QED BY <1>1, <1>3, <1>4, <1>10, <2>2, <2>3, <2>4, ScanInv
<1>11. CASE m.type = "START" /\ ~ encount[t]
  <2>1. /\ encount' = [encount EXCEPT ![t] = TRUE]
        /\ deadline' = [deadline EXCEPT ![t] = cycle[t]]
        /\ queue' = Add(Without(queue, t), t, deadline')
        /\ reload' = reload /\ cycle' = cycle /\ owner' = owner
    BY <1>1, <1>11 DEF Handle, Restart
  <2>2. cycle[t] \in Nat \cup {Never} /\ t \in Linked(queue)
    BY <1>0, <1>3, <1>4, <1>9, <1>11
  <2>3. /\ queue' \in Seq(Timers) /\ Linked(queue') = Linked(queue)
        /\ Ordered(queue', deadline')
        /\ deadline' \in [Timers -> Deadlines] /\ deadline'[t] = cycle[t]
        /\ \A u \in Timers : u # t => deadline'[u] = deadline[u]
    BY <2>1, <2>2, Relinked
  <2>4. /\ encount' \in [Timers -> BOOLEAN] /\ encount'[t]
        /\ \A u \in Timers : u # t => encount'[u] = encount[u]
    BY <1>0, <1>3, <2>1, Zenon
  <2> QED BY <1>0, <1>10, <1>11, <2>1, <2>2, <2>3, <2>4
<1>12. CASE m.type = "PAUSE" /\ encount[t]
  <2>1. /\ encount' = [encount EXCEPT ![t] = FALSE]
        /\ deadline' = [deadline EXCEPT ![t] = Never]
        /\ queue' = Append(Without(queue, t), t)
        /\ reload' = reload /\ cycle' = cycle /\ owner' = owner
    BY <1>1, <1>12 DEF Handle
  <2>2. /\ queue' \in Seq(Timers) /\ Linked(queue') = Linked(queue)
        /\ Ordered(queue', deadline')
        /\ deadline' \in [Timers -> Deadlines] /\ deadline'[t] = Never
        /\ \A u \in Timers : u # t => deadline'[u] = deadline[u]
    BY <1>4, <1>12, <2>1, Relinked
  <2>3. /\ encount' \in [Timers -> BOOLEAN]
        /\ \A u \in Timers : u # t => encount'[u] = encount[u]
    BY <1>0, <1>3, <2>1, Zenon
  <2> QED BY <1>0, <1>10, <1>12, <2>1, <2>2, <2>3
<1>13. CASE m.type = "SETCYCLE" /\ encount[t]
  <2>1. /\ cycle' = [cycle EXCEPT ![t] = m.para]
        /\ deadline' = [deadline EXCEPT ![t] = m.para]
        /\ queue' = Add(Without(queue, t), t, deadline')
        /\ encount' = encount /\ reload' = reload /\ owner' = owner
    BY <1>1, <1>13 DEF Handle, Restart
  <2>2. m.para \in Nat \cup {Never} /\ t \in Linked(queue)
    BY <1>3, <1>4, <1>9, <1>13
  <2>3. /\ queue' \in Seq(Timers) /\ Linked(queue') = Linked(queue)
        /\ Ordered(queue', deadline')
        /\ deadline' \in [Timers -> Deadlines] /\ deadline'[t] = m.para
        /\ \A u \in Timers : u # t => deadline'[u] = deadline[u]
    BY <2>1, <2>2, Relinked
  <2>4. cycle' \in [Timers -> Cycles]
    BY <1>0, <1>3, <1>13, <2>1
  <2> QED BY <1>0, <1>10, <1>13, <2>1, <2>2, <2>3, <2>4
<1>14. CASE \/ m.type = "SETCYCLE" /\ ~ encount[t]
            \/ m.type = "SETRELOAD"
            \/ m.type = "START" /\ encount[t]
            \/ m.type = "PAUSE" /\ ~ encount[t]
  <2>1. /\ queue' = queue /\ deadline' = deadline /\ encount' = encount
        /\ owner' = owner
        /\ \/ cycle' = cycle
           \/ m.type = "SETCYCLE" /\ cycle' = [cycle EXCEPT ![t] = m.para]
        /\ \/ reload' = reload
           \/ m.type = "SETRELOAD" /\ reload' = [reload EXCEPT ![t] = m.para]
    BY <1>1, <1>14 DEF Handle, timerVars
  <2>2. cycle' \in [Timers -> Cycles]
    BY <1>0, <1>3, <2>1
  <2>3. reload' \in [Timers -> BOOLEAN]
    BY <1>0, <1>3, <2>1
  <2>4. m.type # "ADD" /\ (encount'[t] \/ deadline'[t] = Never)
    BY <1>0, <1>3, <1>14, <2>1
  <2> QED BY <1>0, <1>10, <2>1, <2>2, <2>3, <2>4
<1>15. CASE m.type = "ADD"
  <2>1. /\ queue' = Add(queue, t, deadline)
        /\ encount' = encount /\ reload' = reload /\ cycle' = cycle
        /\ deadline' = deadline /\ owner' = owner
    BY <1>1, <1>15 DEF Handle, timerVars
  <2>2. /\ queue' \in Seq(Timers) /\ Linked(queue') = Linked(queue) \cup {t}
        /\ Ordered(queue', deadline)
    BY <1>0, <1>3, <1>5, <1>15, <2>1, Added
  <2>3. Protocol(msgs', owner', encount')
    BY <1>1, <1>2, <2>1
  <2>4. TimerTypeOK' /\ RequestsInOrder'
    BY <1>0, <1>1, <1>2, <2>1, <2>2, <2>3, Restated DEF TimerTypeOK
  <2>5. Linked(queue') = Known(owner', msgs')
    BY <1>1, <1>8, <1>15, <2>1, <2>2
  <2>6. deadline'[t] = Never
    BY <1>0, <1>2, <1>3, <1>15, <2>1
  <2> QED BY <1>0, <1>1, <1>3, <2>1, <2>2, <2>4, <2>5, <2>6, ScanInv
<1>16. CASE m.type = "REMOVE"
  <2>1. /\ queue' = Without(queue, t)
        /\ owner' = [owner EXCEPT ![t] = "free"]
        /\ encount' = encount /\ reload' = reload /\ cycle' = cycle
        /\ deadline' = deadline
    BY <1>1, <1>2, <1>16 DEF Handle, timerVars
  <2>2. t \in Linked(queue)
    BY <1>4, <1>16
  <2>3. /\ queue' \in Seq(Timers) /\ Linked(queue') = Linked(queue) \ {t}
        /\ Ordered(queue', deadline)
    BY <1>0, <2>1, <2>2, Removed
  <2>4. /\ owner' \in [Timers -> {"free", "live", "deleted"}]
        /\ owner'[t] = "free"
        /\ \A u \in Timers : u # t => owner'[u] = owner[u]
    BY <1>0, <1>3, <2>1
  <2>5. Protocol(ms, owner', encount)
    <3>1. \A i \in 1 .. Len(ms) : ms[i].timer # t
      BY <1>2, <1>16
    <3> QED BY ONLY <1>2, <1>6, <2>4, <3>1 DEF Protocol
  <2>6. TimerTypeOK' /\ RequestsInOrder'
    BY <1>0, <1>1, <1>2, <2>1, <2>3, <2>4, <2>5, Restated DEF TimerTypeOK
  <2>7. Linked(queue') = Known(owner', msgs')
    <3>1. Known(owner', ms) = Known(owner, ms) \ {t}
      BY <2>4 DEF Known
    <3> QED BY <1>1, <1>8, <1>16, <2>3, <3>1
  <2> QED BY <1>0, <1>1, <1>3, <2>1, <2>2, <2>3, <2>6, <2>7, ScanInv
<1>17. m.type \in {"START", "PAUSE", "ADD", "REMOVE", "SETCYCLE", "SETRELOAD"}
  BY <1>2 DEF Requests
<1> QED BY <1>11, <1>12, <1>13, <1>14, <1>15, <1>16, <1>17

(* Time passes: all deadlines come nearer together.  While the thread       *)
(* sleeps, a tick that is complete takes a tick off its wait; while it does *)
(* not, its delay grows.                                                    *)
LEMMA TickInv == ASSUME TimerInv, Tick PROVE TimerInv'
<1>0. /\ queue \in Seq(Timers) /\ deadline \in [Timers -> Deadlines]
      /\ wait \in Nat \cup {Forever} /\ delayed \in 0 .. MaxDelay
      /\ phase \in 0 .. Precision - 1 /\ spent \in Nat
      /\ MaxDelay \in Nat /\ Precision \in Nat \ {0}
      /\ Never \notin Int /\ Forever \notin Int
      /\ Ordered(queue, deadline) /\ Linked(queue) = Known(owner, msgs)
      /\ \A u \in Timers : encount[u] \/ deadline[u] = Never
      /\ pc \in {"scan", "call", "recv", "timedout"}
  BY Restated, TimerAssumption DEF TimerInv, TimerTypeOK
<1>1. /\ UNCHANGED <<queue, encount, reload, cycle, owner, msgs>>
      /\ deadline' = [t \in Timers |-> IF t \in Linked(queue)
                                       THEN Less(deadline[t]) ELSE deadline[t]]
      /\ spent' = IF Sleeps THEN spent ELSE spent + 1
      /\ delayed' = IF Sleeps \/ delayed = MaxDelay THEN delayed
                                                    ELSE delayed + 1
  BY Restated DEF Tick
<1>2. phase' = IF phase + 1 = Precision THEN 0 ELSE phase + 1
  BY <1>0, NextPhase DEF Tick
<1>3. \/ /\ Sleeps /\ wait # Forever /\ phase' = 0
         /\ wait' = wait - 1
         /\ pc' = IF wait' = 0 THEN "timedout" ELSE pc
      \/ /\ ~(Sleeps /\ wait # Forever /\ phase' = 0)
         /\ wait' = wait /\ pc' = pc
  BY DEF Tick
<1>4. \A u \in Timers :
          /\ deadline'[u] \in Deadlines
          /\ deadline[u] = Never => deadline'[u] = Never
          /\ u \in Linked(queue) /\ deadline[u] # Never
                 => /\ deadline[u] \in Int /\ deadline'[u] = deadline[u] - 1
  <2> SUFFICES ASSUME NEW u \in Timers
               PROVE  /\ deadline'[u] \in Deadlines
                      /\ deadline[u] = Never => deadline'[u] = Never
                      /\ u \in Linked(queue) /\ deadline[u] # Never
                             => /\ deadline[u] \in Int
                                /\ deadline'[u] = deadline[u] - 1
    OBVIOUS
  <2>1. /\ deadline[u] \in Deadlines
        /\ deadline'[u] = IF u \in Linked(queue) THEN Less(deadline[u])
                                                 ELSE deadline[u]
    BY <1>0, <1>1
  <2>2. /\ deadline[u] = Never => Less(deadline[u]) = Never
        /\ deadline[u] # Never => /\ deadline[u] \in Int
                                  /\ Less(deadline[u]) = deadline[u] - 1
    BY <2>1 DEF Less, Deadlines
  <2> QED BY <2>1, <2>2 DEF Deadlines
<1>5. deadline' \in [Timers -> Deadlines]
  BY <1>1, <1>4
<1>6. Sleeps => wait # 0
  BY DEF TimerInv, WaitIsEnough
<1>7. wait' \in Nat \cup {Forever}
  BY <1>0, <1>3, <1>6
<1>8. /\ delayed' \in 0 .. MaxDelay /\ phase' \in 0 .. Precision - 1
      /\ spent' \in Nat /\ pc' \in {"scan", "call", "recv", "timedout"}
  BY <1>0, <1>1, <1>2, <1>3
<1>9. TimerTypeOK' /\ RequestsInOrder'
  BY <1>1, <1>5, <1>7, <1>8 DEF TimerInv, TimerTypeOK, RequestsInOrder
<1>10. Ordered(queue, deadline')
  <2> SUFFICES ASSUME NEW i \in 1 .. Len(queue), NEW j \in 1 .. Len(queue),
                      i < j
               PROVE  /\ queue[i] # queue[j]
                      /\ ~ Earlier(deadline'[queue[j]], deadline'[queue[i]])
    BY DEF Ordered
  <2> DEFINE u == queue[i]
             v == queue[j]
  <2>1. /\ u \in Timers /\ u \in Linked(queue)
        /\ v \in Timers /\ v \in Linked(queue)
        /\ u # v /\ ~ Earlier(deadline[v], deadline[u])
    BY <1>0 DEF Ordered, Linked
  <2> HIDE DEF u, v
  <2>2. ~ Earlier(deadline'[v], deadline'[u])
    BY <1>0, <1>4, <2>1 DEF Earlier, Deadlines
  <2> QED BY <2>1, <2>2 DEF u, v
<1>11. QueueInOrder'
  BY <1>0, <1>1, <1>4, <1>10, Restated
<1>12. ASSUME NEW u \in Linked(queue), deadline'[u] # Never
       PROVE  /\ deadline[u] \in Int /\ deadline'[u] = deadline[u] - 1
              /\ delayed = MaxDelay \/ deadline[u] + delayed > - Precision
              /\ pc = "call" => delayed = MaxDelay \/ Expects(u)
              /\ Sleeps => delayed = MaxDelay \/ Rounded(u)
  <2>1. u \in Timers
    BY <1>0 DEF Known
  <2>2. deadline[u] # Never
    BY <1>4, <1>12, <2>1
  <2> QED BY <1>4, <2>1, <2>2, Restated
             DEF TimerInv, NeverLate, WaitIsEnough
<1>13. ASSUME NEW u \in Linked(queue), deadline'[u] # Never,
              delayed' # MaxDelay, Sleeps
       PROVE  /\ deadline'[u] + delayed' > - Precision
              /\ wait' # Forever
              /\ wait' * Precision \in Int
              /\ deadline'[u] + delayed'
                     > wait' * Precision - phase' - Precision
  <2>1. /\ deadline[u] \in Int /\ deadline'[u] = deadline[u] - 1
        /\ delayed' = delayed /\ delayed # MaxDelay /\ Rounded(u)
    BY <1>1, <1>12, <1>13
  <2>2. wait \in Nat /\ wait # 0
    BY <1>0, <1>6, <1>13, <2>1 DEF Rounded
  <2> DEFINE k == wait * Precision
             n == wait' * Precision
  <2>3. k \in Nat /\ k >= Precision /\ (wait - 1) * Precision = k - Precision
    BY <2>2, TickLess
  <2>4. deadline[u] + delayed > k - phase - Precision
    BY <2>1 DEF Rounded
  <2>5. /\ phase + 1 = Precision => wait' = wait - 1
        /\ phase + 1 # Precision => wait' = wait
    BY <1>0, <1>2, <1>3, <1>13, <2>2
  <2>6. n = IF phase + 1 = Precision THEN k - Precision ELSE k
    BY <2>3, <2>5
  <2>7. wait' # Forever
    BY <1>0, <2>2, <2>5
  <2> HIDE DEF k, n
  <2>8. /\ deadline'[u] + delayed' > - Precision
        /\ n \in Int
        /\ deadline'[u] + delayed' > n - phase' - Precision
    BY <1>0, <1>2, <2>1, <2>3, <2>4, <2>6
  <2> QED BY <2>7, <2>8 DEF n
<1>14. ASSUME NEW u \in Linked(queue), deadline'[u] # Never,
              delayed' # MaxDelay, ~ Sleeps
       PROVE  /\ deadline'[u] + delayed' > - Precision
              /\ pc = "call" =>
                     wait' # Forever /\ deadline'[u] >= wait' - delayed'
  <2>1. /\ deadline[u] \in Int /\ deadline'[u] = deadline[u] - 1
        /\ delayed' = delayed + 1 /\ delayed # MaxDelay
        /\ deadline[u] + delayed > - Precision
        /\ pc = "call" => Expects(u)
        /\ wait' = wait
    BY <1>1, <1>3, <1>12, <1>14
  <2>2. deadline'[u] + delayed' > - Precision
    BY <1>0, <2>1
  <2>3. ASSUME pc = "call"
        PROVE  wait' # Forever /\ deadline'[u] >= wait' - delayed'
    <3>1. wait # Forever /\ wait \in Nat /\ deadline[u] >= wait - delayed
      BY <1>0, <2>1, <2>3 DEF Expects
    <3> QED BY <1>0, <2>1, <3>1
  <2> QED BY <2>2, <2>3
<1>15. NeverLate'
  BY <1>1, <1>13, <1>14, Restated DEF NeverLate
<1>16. /\ Sleeps' => Sleeps /\ wait' # 0
       /\ pc' = "call" => pc = "call" /\ ~ Sleeps
  BY <1>1, <1>3, <1>6 DEF Sleeps
<1>17. WaitIsEnough'
  BY <1>1, <1>13, <1>14, <1>16, Restated DEF WaitIsEnough, Expects, Rounded
<1> QED BY <1>9, <1>11, <1>15, <1>17 DEF TimerInv

(* Every step keeps the invariant. *)
LEMMA TimerStep ==
    ASSUME ~ ReuseAtOnce, TimerInv, [Next]_vars
    PROVE  TimerInv'
<1>1. CASE UNCHANGED vars
  <2>1. UNCHANGED <<queue, encount, reload, cycle, deadline, owner, msgs,
                    pc, wait, phase, spent, delayed>>
    BY <1>1 DEF vars, timerVars, clockVars
  <2>2. TimerTypeOK' /\ QueueInOrder' /\ RequestsInOrder'
    BY <2>1, Restated DEF TimerInv, TimerTypeOK
  <2>3. NeverLate' /\ WaitIsEnough'
    BY <2>1, Restated
       DEF TimerInv, NeverLate, WaitIsEnough, Expects, Rounded, Sleeps
  <2> QED BY <2>2, <2>3 DEF TimerInv
<1> QED BY <1>1, CreateInv, DeleteInv, CtrlInv, FireInv, ScanEndInv,
           ReceiveInv, TimeoutInv, HandleInv, TickInv DEF Next, VMTask

(* Every reachable state satisfies the invariant, if no cell is allocated   *)
(* again before it is unlinked.                                             *)
THEOREM TimerInvariance == ASSUME ~ ReuseAtOnce PROVE Spec => []TimerInv
<1>1. Init => TimerInv
  BY TimerInit
<1>2. TimerInv /\ [Next]_vars => TimerInv'
  BY TimerStep
<1> QED BY <1>1, <1>2, PTL DEF Spec

(* The list that __Timer_DealTimeout scans holds every timer that was added *)
(* and not removed, once and in the order of the deadlines, whatever        *)
(* requests are in flight; the timers that do not count are at its end.     *)
THEOREM TimersInOrder == ASSUME ~ ReuseAtOnce PROVE Spec => []QueueInOrder
<1>1. TimerInv => QueueInOrder
  BY DEF TimerInv
<1>2. Spec => []TimerInv
  BY TimerInvariance
<1> QED BY <1>1, <1>2, PTL

(* No timer is later, by a whole tick, than the time for which Timer_VMTask *)
(* was awake since the end of its last scan: the wait that it computes is   *)
(* rounded up to ticks by __Djy_AddToDelay, and that is all that is added.  *)
THEOREM TimersAreOnTime == ASSUME ~ ReuseAtOnce PROVE Spec => []NeverLate
<1>1. TimerInv => NeverLate
  BY DEF TimerInv
<1>2. Spec => []TimerInv
  BY TimerInvariance
<1> QED BY <1>1, <1>2, PTL
==============================================================================
