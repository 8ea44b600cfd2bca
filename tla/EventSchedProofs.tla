---------------------------- MODULE EventSchedProofs ---------------------------
(***************************************************************************)
(* The scheduler keeps its queues consistent and sorted for any number of  *)
(* events, block queues, interrupt lines, priorities and ticks.            *)
(***************************************************************************)
EXTENDS EventSched, FiniteSetTheorems, SequenceTheorems, WellFoundedInduction, TLAPS

(* A set of natural numbers has a least element. *)
LEMMA Least ==
  ASSUME NEW T \in SUBSET Nat, T # {}
  PROVE  \E m \in T : \A k \in T : m <= k
<1> DEFINE R == {ss \in Nat \X Nat : ss[1] < ss[2]}
<1>1. IsWellFoundedOn(R, Nat)
  BY NatLessThanWellFounded DEF OpToRel
<1>2. PICK m \in T : \A k \in T : ~ (<<k, m>> \in R)
  BY <1>1, WFMin
<1>3. \A k \in T : ~(k < m)
  BY <1>2
<1> QED
  BY <1>2, <1>3

(* The search of __Djy_EventReady and __Djy_AddToDelay ends somewhere: before *)
(* the first greater key, or at the tail.                                     *)
LEMMA InsertPosFound ==
  ASSUME NEW S, NEW q \in Seq(S), NEW key, NEW e \in S, \A x \in S : key[x] \in Nat
  PROVE  LET p == InsertPos(q, key, e)
         IN  /\ p \in 1..(Len(q) + 1)
             /\ p = Len(q) + 1 \/ key[q[p]] > key[e]
             /\ \A i \in 1..(p - 1) : key[q[i]] <= key[e]
<1> DEFINE T == {i \in 1..(Len(q) + 1) : i = Len(q) + 1 \/ key[q[i]] > key[e]}
<1>1. Len(q) \in Nat /\ \A i \in 1..Len(q) : q[i] \in S
  OBVIOUS
<1>2. T \in SUBSET Nat /\ Len(q) + 1 \in T
  BY <1>1
<1>3. PICK m \in T : \A k \in T : m <= k
  BY <1>2, Least
<1>4. \A i \in 1..(m - 1) : i \in 1..Len(q) /\ i \notin T
  BY <1>1, <1>3
<1>5. \A i \in 1..(m - 1) : key[q[i]] <= key[e]
  BY SMTT(60), <1>1, <1>4
<1>6. \E p \in 1..(Len(q) + 1) :
        /\ p = Len(q) + 1 \/ key[q[p]] > key[e]
        /\ \A i \in 1..(p - 1) : key[q[i]] <= key[e]
  BY <1>3, <1>5
<1> QED
  BY <1>6 DEF InsertPos

(* Linking an event into a queue at place p. *)
LEMMA InsertAt ==
  ASSUME NEW S, NEW q \in Seq(S), NEW e \in S, NEW p \in 1..(Len(q) + 1)
  PROVE  LET r == InsertAtPos(q, p, e)
         IN  /\ r \in Seq(S) /\ Len(r) = Len(q) + 1
             /\ \A i \in 1..Len(r) :
                  r[i] = IF i < p THEN q[i] ELSE IF i = p THEN e ELSE q[i - 1]
<1> DEFINE r == InsertAtPos(q, p, e)
<1>1. Len(q) \in Nat /\ \A i \in 1..Len(q) : q[i] \in S
  OBVIOUS
<1>2. \A i \in 1..(Len(q) + 1) :
        (IF i < p THEN q[i] ELSE IF i = p THEN e ELSE q[i - 1]) \in S
  BY <1>1
<1>3. r \in [1..(Len(q) + 1) -> S]
  BY <1>2 DEF InsertAtPos
<1>4. r \in Seq(S) /\ Len(r) = Len(q) + 1
  BY <1>1, <1>3
<1> QED
  BY <1>1, <1>4 DEF InsertAtPos

(* What insertion into a sorted queue does: one more event, still sorted,    *)
(* and the tail stays the tail if its key is greater.                        *)
LEMMA Inserted ==
  ASSUME NEW S, NEW q \in Seq(S), NEW key, NEW e \in S, \A x \in S : key[x] \in Nat,
         NoDuplicates(q), SortedBy(q, key), e \notin Elements(q)
  PROVE  LET r == InsertSorted(q, key, e)
         IN  /\ r \in Seq(S) /\ Len(r) = Len(q) + 1
             /\ NoDuplicates(r) /\ SortedBy(r, key)
             /\ Elements(r) = Elements(q) \union {e}
             /\ Len(q) > 0 /\ key[e] < key[q[Len(q)]] => r[Len(r)] = q[Len(q)]
<1> DEFINE p == InsertPos(q, key, e)
           r == InsertSorted(q, key, e)
<1>1. /\ Len(q) \in Nat /\ key[e] \in Nat
      /\ \A i \in 1..Len(q) : q[i] \in S /\ q[i] # e /\ key[q[i]] \in Nat
  BY DEF Elements
<1>2. /\ p \in 1..(Len(q) + 1)
      /\ p = Len(q) + 1 \/ key[q[p]] > key[e]
      /\ \A i \in 1..(p - 1) : key[q[i]] <= key[e]
  BY InsertPosFound
<1> HIDE DEF p
<1>3. /\ r \in Seq(S) /\ Len(r) = Len(q) + 1
      /\ \A i \in 1..Len(r) : r[i] = IF i < p THEN q[i] ELSE IF i = p THEN e ELSE q[i - 1]
  BY <1>2, InsertAt DEF InsertSorted, p
<1> HIDE DEF r
<1> DEFINE Old(i) == IF i < p THEN i ELSE i - 1
<1>9. /\ p \in 1..Len(r) /\ r[p] = e
      /\ \A i \in 1..Len(r) : i # p => Old(i) \in 1..Len(q) /\ r[i] = q[Old(i)]
  <2>1. p \in 1..Len(r) /\ r[p] = e
    BY <1>1, <1>2, <1>3
  <2>2. ASSUME NEW i \in 1..Len(r), i # p PROVE Old(i) \in 1..Len(q) /\ r[i] = q[Old(i)]
    <3>1. r[i] = IF i < p THEN q[i] ELSE IF i = p THEN e ELSE q[i - 1]
      BY <1>3
    <3> QED
      BY <1>1, <1>2, <1>3, <2>2, <3>1
  <2> QED
    BY <2>1, <2>2
<1>10. \A i, j \in 1..Len(r) : i # p /\ j # p =>
         (i < j => Old(i) < Old(j)) /\ (Old(i) = Old(j) => i = j)
  BY <1>1, <1>2, <1>3
<1> HIDE DEF Old
<1>4. NoDuplicates(r)
  <2> SUFFICES ASSUME NEW i \in 1..Len(r), NEW j \in 1..Len(r), r[i] = r[j] PROVE i = j
    BY DEF NoDuplicates
  <2>1. CASE i = p \/ j = p
    BY <1>1, <1>9, <2>1
  <2>2. CASE i # p /\ j # p
    BY ZenonT(60), <1>9, <1>10, <2>2 DEF NoDuplicates
  <2> QED
    BY <2>1, <2>2
<1>5. \A i \in 1..Len(q) : i >= p => key[q[i]] > key[e]
  <2> SUFFICES ASSUME NEW i \in 1..Len(q), i >= p PROVE key[q[i]] > key[e]
    OBVIOUS
  <2>1. p \in 1..Len(q) /\ key[q[p]] > key[e]
    BY <1>1, <1>2
  <2>2. CASE i = p
    BY <2>1, <2>2
  <2>3. CASE i > p
    <3>1. key[q[p]] <= key[q[i]]
      BY <2>1, <2>3 DEF SortedBy
    <3> QED
      BY SMTT(60), <1>1, <2>1, <3>1
  <2> QED
    BY <1>2, <2>2, <2>3
<1>6. SortedBy(r, key)
  <2> SUFFICES ASSUME NEW i \in 1..Len(r), NEW j \in 1..Len(r), i < j
               PROVE  key[r[i]] <= key[r[j]]
    BY DEF SortedBy
  <2>1. CASE i = p
    <3>1. r[i] = e /\ r[j] = q[j - 1] /\ j - 1 \in 1..Len(q) /\ j - 1 >= p
      BY <1>1, <1>2, <1>3, <2>1
    <3>2. key[q[j - 1]] > key[e] /\ key[q[j - 1]] \in Nat
      BY <1>1, <1>5, <3>1
    <3> QED
      BY SMTT(60), <1>1, <3>1, <3>2
  <2>2. CASE j = p
    <3>1. r[j] = e /\ r[i] = q[i] /\ i \in 1..(p - 1)
      BY <1>1, <1>2, <1>3, <2>2
    <3> QED
      BY <1>2, <3>1
  <2>3. CASE i # p /\ j # p
    <3>1. \E k, l \in 1..Len(q) : k < l /\ r[i] = q[k] /\ r[j] = q[l]
      BY <1>9, <1>10, <2>3
    <3> QED
      BY <3>1 DEF SortedBy
  <2> QED
    BY <2>1, <2>2, <2>3
<1>7. Elements(r) = Elements(q) \union {e}
  <2>1. Elements(r) \subseteq Elements(q) \union {e}
    BY <1>9 DEF Elements
  <2>2. e \in Elements(r)
    BY <1>9 DEF Elements
  <2>3. ASSUME NEW i \in 1..Len(q) PROVE q[i] \in Elements(r)
    <3>1. CASE i < p
      BY SMTT(60), <1>1, <1>2, <1>3, <3>1 DEF Elements
    <3>2. CASE i >= p
      <4>1. i + 1 \in 1..Len(r) /\ r[i + 1] = q[i]
        BY <1>1, <1>2, <1>3, <3>2
      <4> QED
        BY <4>1 DEF Elements
    <3> QED
      BY <1>2, <3>1, <3>2
  <2> QED
    BY <2>1, <2>2, <2>3 DEF Elements
<1>8. Len(q) > 0 /\ key[e] < key[q[Len(q)]] => r[Len(r)] = q[Len(q)]
  BY <1>1, <1>2, <1>3
<1> QED
  BY <1>3, <1>4, <1>6, <1>7, <1>8 DEF r

(* Unlinking an event. *)
LEMMA Cut ==
  ASSUME NEW S, NEW q \in Seq(S), NEW e, NoDuplicates(q), e \in Elements(q)
  PROVE  LET r == CutFrom(q, e)
         IN  /\ r \in Seq(S) /\ Len(r) = Len(q) - 1
             /\ NoDuplicates(r) /\ Elements(r) = Elements(q) \ {e}
             /\ \A key : SortedBy(q, key) => SortedBy(r, key)
             /\ q[Len(q)] # e => Len(r) > 0 /\ r[Len(r)] = q[Len(q)]
<1> DEFINE p == CHOOSE i \in 1..Len(q) : q[i] = e
           r == CutFrom(q, e)
<1>1. Len(q) \in Nat /\ \A i \in 1..Len(q) : q[i] \in S
  OBVIOUS
<1>2. p \in 1..Len(q) /\ q[p] = e
  BY DEF Elements
<1>3. r = [i \in 1..(Len(q) - 1) |-> IF i < p THEN q[i] ELSE q[i + 1]]
  BY DEF CutFrom
<1> HIDE DEF p, r
<1>4. /\ r \in Seq(S) /\ Len(r) = Len(q) - 1
      /\ \A i \in 1..Len(r) : r[i] = IF i < p THEN q[i] ELSE q[i + 1]
  <2>1. \A i \in 1..(Len(q) - 1) : (IF i < p THEN q[i] ELSE q[i + 1]) \in S
    BY <1>1, <1>2
  <2>2. r \in [1..(Len(q) - 1) -> S]
    BY <1>3, <2>1
  <2>3. r \in Seq(S) /\ Len(r) = Len(q) - 1
    BY SMTT(60), <1>1, <1>2, <2>2
  <2> QED
    BY <1>3, <2>3
<1>5. NoDuplicates(r)
  BY SMTT(60), <1>1, <1>2, <1>4 DEF NoDuplicates
<1>6. Elements(r) = Elements(q) \ {e}
  <2>1. Elements(r) \subseteq Elements(q) \ {e}
    BY SMTT(60), <1>1, <1>2, <1>4 DEF Elements, NoDuplicates
  <2>2. ASSUME NEW i \in 1..Len(q), q[i] # e PROVE q[i] \in Elements(r)
    <3>1. CASE i < p
      BY SMTT(60), <1>1, <1>2, <1>4, <3>1 DEF Elements
    <3>2. CASE i > p
      <4>1. i - 1 \in 1..Len(r) /\ r[i - 1] = q[i]
        BY <1>1, <1>2, <1>4, <3>2
      <4> QED
        BY <4>1 DEF Elements
    <3> QED
      BY <1>2, <2>2, <3>1, <3>2
  <2> QED
    BY <2>1, <2>2 DEF Elements
<1>7. \A key : SortedBy(q, key) => SortedBy(r, key)
  <2> SUFFICES ASSUME NEW key, SortedBy(q, key),
                      NEW i \in 1..Len(r), NEW j \in 1..Len(r), i < j
               PROVE  key[r[i]] <= key[r[j]]
    BY DEF SortedBy
  <2>1. \E k, l \in 1..Len(q) : k < l /\ r[i] = q[k] /\ r[j] = q[l]
    <3>1. r[i] = (IF i < p THEN q[i] ELSE q[i + 1]) /\ r[j] = (IF j < p THEN q[j] ELSE q[j + 1])
      BY <1>4
    <3>2. /\ i \in 1..Len(q) /\ i + 1 \in 1..Len(q) /\ j \in 1..Len(q) /\ j + 1 \in 1..Len(q)
          /\ i < j /\ i < j + 1 /\ i + 1 < j + 1 /\ p \in Int
      BY <1>1, <1>2, <1>4
    <3>3. CASE i < p /\ j < p
      BY ONLY <3>1, <3>2, <3>3
    <3>4. CASE i < p /\ ~(j < p)
      BY ONLY <3>1, <3>2, <3>4
    <3>5. CASE ~(i < p)
      <4>1. ~(j < p)
        BY ONLY <3>2, <3>5, i \in 1..Len(r), j \in 1..Len(r)
      <4> QED
        BY ONLY <3>1, <3>2, <3>5, <4>1
    <3> QED
      BY <3>3, <3>4, <3>5
  <2> QED
    BY <2>1 DEF SortedBy
<1>8. q[Len(q)] # e => Len(r) > 0 /\ r[Len(r)] = q[Len(q)]
  BY <1>1, <1>2, <1>4
<1> QED
  BY <1>4, <1>5, <1>6, <1>7, <1>8 DEF r

(* Taking the head of a queue is unlinking it. *)
LEMMA TailIsCut ==
  ASSUME NEW S, NEW q \in Seq(S), NoDuplicates(q), q # << >>
  PROVE  Tail(q) = CutFrom(q, Head(q)) /\ Head(q) \in Elements(q) /\ Head(q) = q[1]
<1>1. /\ Len(q) \in Nat /\ Len(q) >= 1 /\ Head(q) = q[1]
      /\ Tail(q) \in Seq(S) /\ Len(Tail(q)) = Len(q) - 1
      /\ \A i \in 1..(Len(q) - 1) : Tail(q)[i] = q[i + 1]
  OBVIOUS
<1>2. (CHOOSE i \in 1..Len(q) : q[i] = Head(q)) = 1
  BY <1>1 DEF NoDuplicates
<1>3. CutFrom(q, Head(q)) = [i \in 1..(Len(q) - 1) |-> IF i < 1 THEN q[i] ELSE q[i + 1]]
  BY <1>2 DEF CutFrom
<1>4. Head(q) \in Elements(q)
  BY <1>1 DEF Elements
<1>5. CutFrom(q, Head(q)) \in Seq(S) /\ Len(CutFrom(q, Head(q))) = Len(q) - 1
  BY <1>4, Cut
<1>6. Tail(q) = CutFrom(q, Head(q))
  <2>1. \A i \in 1..Len(Tail(q)) : Tail(q)[i] = CutFrom(q, Head(q))[i]
    BY <1>1, <1>3
  <2> QED
    BY ZenonT(60), <1>1, <1>5, <2>1, SeqEqual
<1> QED
  BY <1>1, <1>4, <1>6

(* A queue whose keys do not change stays sorted. *)
LEMMA SameKeys ==
  ASSUME NEW q, NEW k1, NEW k2, \A x \in Elements(q) : k1[x] = k2[x], SortedBy(q, k1)
  PROVE  SortedBy(q, k2)
  BY DEF SortedBy, Elements
--------------------------------------------------------------------------------
(***************************************************************************)
(* The inductive invariant, one queue after the other.                     *)
(***************************************************************************)
(* The service event keeps its priority, below that of all others. *)
PrioOK(pr) ==
  /\ pr \in [Events -> Nat]
  /\ \A e \in Events \ {Service} : pr[e] \in Prios
  /\ pr[Service] = ServicePrio

(* The ready queue is never empty: the service event is its tail.  That is  *)
(* why __Djy_Schedule always finds an event, and why __Djy_EventReady never *)
(* inserts at the tail.                                                     *)
ReadyOK(q, pr) ==
  /\ q \in Seq(Events) /\ NoDuplicates(q) /\ SortedBy(q, pr)
  /\ Len(q) > 0 /\ q[Len(q)] = Service

(* The alarm queue; outside the tick interrupt no alarm is overdue. *)
DelayOK(q, rm, tick) ==
  /\ q \in Seq(Events) /\ NoDuplicates(q) /\ SortedBy(q, rm)
  /\ rm \in [Events -> 0..MaxTicks]
  /\ ~tick => \A e \in Elements(q) : rm[e] > 0

(* The block queues. *)
QueuesOK(qu, pr) ==
  /\ qu \in [Syncs -> Seq(Events)]
  /\ \A s \in Syncs : NoDuplicates(qu[s])
  /\ \A s, r \in Syncs : s # r => Elements(qu[s]) \intersect Elements(qu[r]) = {}
  /\ \A s \in PrioOrder : SortedBy(qu[s], pr)

Waiting == {"WAIT", "WAIT_TIMEOUT"}
Timed == {"DELAY", "WAIT_TIMEOUT"}

(* OnePlace: every event is where its status says; the service event never  *)
(* waits.                                                                   *)
StatusOK ==
  /\ event_status \in [Events -> Statuses] /\ event_status[Service] = "READY"
  /\ sync_event \in [Lines -> Events \union {NULL}]
  /\ \A e \in Events : e \in Elements(delay) <=> event_status[e] \in Timed
  /\ \A e \in Events : event_status[e] \in Waiting <=> \E s \in Syncs : e \in Elements(queue[s])
  /\ \A e \in Events :
       e \in Elements(ready)
         <=> \/ event_status[e] = "READY"
             \/ event_status[e] = "ASYN_SIGNAL" /\ \A l \in Lines : sync_event[l] # e
  /\ \A l \in Lines : sync_event[l] # NULL => event_status[sync_event[l]] = "ASYN_SIGNAL"
  /\ \A l, k \in Lines : sync_event[l] = sync_event[k] /\ sync_event[l] # NULL => l = k

(* Where the running event is. *)
RunningOK ==
  /\ isr \in BOOLEAN /\ phase \in Nat
  /\ \E p \in 1..Len(ready) :
       /\ ready[p] = running
       /\ ~isr => p = 1
       /\ \A i \in 1..(p - 1) : prio[ready[i]] < prio[running]

SchedInv ==
  /\ PrioOK(prio) /\ PrioOK(prio_base)
  /\ ReadyOK(ready, prio) /\ DelayOK(delay, remain, isr) /\ QueuesOK(queue, prio)
  /\ StatusOK /\ RunningOK
--------------------------------------------------------------------------------
(* __Djy_CutReadyEvent of any event but the service event. *)
LEMMA ReadyCut ==
  ASSUME NEW q, NEW pr, ReadyOK(q, pr), NEW e \in Elements(q), e # Service
  PROVE  ReadyOK(CutFrom(q, e), pr) /\ Elements(CutFrom(q, e)) = Elements(q) \ {e}
<1>1. q[Len(q)] # e
  BY DEF ReadyOK
<1> QED
  BY <1>1, Cut DEF ReadyOK

(* __Djy_EventReady: the service event stays the tail. *)
LEMMA ReadyInsert ==
  ASSUME NEW q, NEW pr, ReadyOK(q, pr), PrioOK(pr),
         NEW e \in Events \ {Service}, e \notin Elements(q)
  PROVE  /\ ReadyOK(InsertSorted(q, pr, e), pr)
         /\ Elements(InsertSorted(q, pr, e)) = Elements(q) \union {e}
<1>1. \A x \in Events : pr[x] \in Nat
  BY DEF PrioOK
<1>2. pr[e] < pr[q[Len(q)]]
  BY SchedAssumption DEF PrioOK, ReadyOK, SchedAssumption
<1>3. q \in Seq(Events) /\ NoDuplicates(q) /\ SortedBy(q, pr) /\ Len(q) > 0
  BY DEF ReadyOK
<1>4. /\ InsertSorted(q, pr, e) \in Seq(Events) /\ Len(InsertSorted(q, pr, e)) = Len(q) + 1
      /\ NoDuplicates(InsertSorted(q, pr, e)) /\ SortedBy(InsertSorted(q, pr, e), pr)
      /\ Elements(InsertSorted(q, pr, e)) = Elements(q) \union {e}
      /\ InsertSorted(q, pr, e)[Len(InsertSorted(q, pr, e))] = q[Len(q)]
  BY <1>1, <1>2, <1>3, Inserted
<1> QED
  BY <1>3, <1>4 DEF ReadyOK

(* An event is cut, gets another priority and is made ready again. *)
LEMMA ReadyReprioritise ==
  ASSUME NEW q, NEW pr, NEW pr2, ReadyOK(q, pr), PrioOK(pr2),
         NEW e \in Elements(q), e # Service,
         \A x \in Events \ {e} : pr2[x] = pr[x]
  PROVE  /\ ReadyOK(InsertSorted(CutFrom(q, e), pr2, e), pr2)
         /\ Elements(InsertSorted(CutFrom(q, e), pr2, e)) = Elements(q)
<1> DEFINE c == CutFrom(q, e)
<1>1. ReadyOK(c, pr) /\ Elements(c) = Elements(q) \ {e}
  BY ReadyCut
<1>2. Elements(q) \subseteq Events
  BY DEF ReadyOK, Elements
<1>3. SortedBy(c, pr2)
  BY <1>1, <1>2, SameKeys DEF ReadyOK
<1>4. ReadyOK(c, pr2)
  BY <1>1, <1>3 DEF ReadyOK
<1>5. e \in Events \ {Service} /\ e \notin Elements(c)
  BY <1>1, <1>2
<1> HIDE DEF c
<1>6. ReadyOK(InsertSorted(c, pr2, e), pr2) /\ Elements(InsertSorted(c, pr2, e)) = Elements(c) \union {e}
  BY <1>4, <1>5, ReadyInsert
<1> QED
  BY <1>1, <1>6 DEF c

(* Round robin, in Djy_EventDelay(0) and in Djy_IsrTick.  The service event *)
(* has nobody behind it.                                                    *)
LEMMA ReadyRotate ==
  ASSUME NEW q, NEW pr, ReadyOK(q, pr), PrioOK(pr), NEW e \in Elements(q), HasPeer(q, pr, e)
  PROVE  /\ ReadyOK(InsertSorted(CutFrom(q, e), pr, e), pr)
         /\ Elements(InsertSorted(CutFrom(q, e), pr, e)) = Elements(q)
<1>1. PosOf(q, e) \in 1..Len(q) /\ q[PosOf(q, e)] = e /\ PosOf(q, e) < Len(q)
  BY DEF PosOf, Elements, HasPeer
<1>2. e # Service
  BY <1>1 DEF ReadyOK, NoDuplicates
<1> QED
  BY <1>2, ReadyReprioritise

(* An event enters the alarm queue. *)
LEMMA DelayInsert ==
  ASSUME NEW q, NEW rm, NEW rm2, NEW tick, DelayOK(q, rm, tick),
         NEW e \in Events, e \notin Elements(q),
         rm2 \in [Events -> 0..MaxTicks], rm2[e] > 0,
         \A x \in Events \ {e} : rm2[x] = rm[x]
  PROVE  /\ DelayOK(InsertSorted(q, rm2, e), rm2, tick)
         /\ Elements(InsertSorted(q, rm2, e)) = Elements(q) \union {e}
<1>1. Elements(q) \subseteq Events
  BY SMTT(60) DEF DelayOK, Elements
<1>2. \A x \in Elements(q) : rm2[x] = rm[x]
  BY <1>1
<1>3. \A x \in Events : rm2[x] \in Nat
  BY SchedAssumption DEF SchedAssumption
<1>4. q \in Seq(Events) /\ NoDuplicates(q) /\ SortedBy(q, rm2)
  BY <1>2, SameKeys DEF DelayOK
<1>5. /\ InsertSorted(q, rm2, e) \in Seq(Events)
      /\ NoDuplicates(InsertSorted(q, rm2, e)) /\ SortedBy(InsertSorted(q, rm2, e), rm2)
      /\ Elements(InsertSorted(q, rm2, e)) = Elements(q) \union {e}
  BY <1>3, <1>4, Inserted
<1>6. ~tick => \A x \in Elements(q) \union {e} : rm2[x] > 0
  BY <1>2 DEF DelayOK
<1> QED
  BY <1>2, <1>5, <1>6 DEF DelayOK

(* __Djy_ResumeDelay, or nothing for an event that is not in the queue. *)
LEMMA DelayCut ==
  ASSUME NEW q, NEW rm, NEW rm2, NEW tick, DelayOK(q, rm, tick), NEW e \in Events,
         rm2 \in [Events -> 0..MaxTicks], \A x \in Events \ {e} : rm2[x] = rm[x],
         NEW r, r = IF e \in Elements(q) THEN CutFrom(q, e) ELSE q
  PROVE  DelayOK(r, rm2, tick) /\ Elements(r) = Elements(q) \ {e}
<1>1. r \in Seq(Events) /\ NoDuplicates(r) /\ SortedBy(r, rm) /\ Elements(r) = Elements(q) \ {e}
  BY SMTT(60), Cut DEF DelayOK
<1>2. Elements(q) \subseteq Events
  BY SMTT(60) DEF DelayOK, Elements
<1>3. \A x \in Elements(r) : rm2[x] = rm[x]
  BY <1>1, <1>2
<1>4. SortedBy(r, rm2)
  BY <1>1, <1>3, SameKeys
<1> QED
  BY <1>1, <1>3, <1>4 DEF DelayOK
(* The block queue of s changes, the other block queues do not. *)
LEMMA QueueReplaced ==
  ASSUME NEW qu, NEW pr, QueuesOK(qu, pr), NEW s \in Syncs, NEW q \in Seq(Events),
         NoDuplicates(q), s \in PrioOrder => SortedBy(q, pr),
         \A r \in Syncs \ {s} : Elements(q) \intersect Elements(qu[r]) = {}
  PROVE  /\ QueuesOK([qu EXCEPT ![s] = q], pr)
         /\ [qu EXCEPT ![s] = q][s] = q
         /\ \A r \in Syncs \ {s} : [qu EXCEPT ![s] = q][r] = qu[r]
<1> DEFINE n == [qu EXCEPT ![s] = q]
<1>1. n \in [Syncs -> Seq(Events)] /\ n[s] = q /\ \A r \in Syncs \ {s} : n[r] = qu[r]
  BY DEF QueuesOK
<1> HIDE DEF n
<1>2. \A r \in Syncs : NoDuplicates(n[r])
  BY <1>1 DEF QueuesOK
<1>3. ASSUME NEW r \in Syncs, NEW u \in Syncs, r # u
      PROVE  Elements(n[r]) \intersect Elements(n[u]) = {}
  <2>1. CASE r = s
    BY <1>1, <1>3, <2>1
  <2>2. CASE u = s
    BY <1>1, <1>3, <2>2
  <2>3. CASE r # s /\ u # s
    BY <1>1, <1>3, <2>3 DEF QueuesOK
  <2> QED
    BY <2>1, <2>2, <2>3
<1>4. \A r \in PrioOrder : SortedBy(n[r], pr)
  BY <1>1, SchedAssumption DEF QueuesOK, SchedAssumption
<1>5. QueuesOK(n, pr)
  BY <1>1, <1>2, <1>3, <1>4 DEF QueuesOK
<1> QED
  BY <1>1, <1>5 DEF n

(* An event at the tail of a queue. *)
LEMMA Appended ==
  ASSUME NEW S, NEW q \in Seq(S), NEW e \in S, NoDuplicates(q), e \notin Elements(q)
  PROVE  /\ Append(q, e) \in Seq(S) /\ NoDuplicates(Append(q, e))
         /\ Elements(Append(q, e)) = Elements(q) \union {e}
<1> DEFINE r == Append(q, e)
<1>1. /\ Len(q) \in Nat /\ r \in Seq(S) /\ Len(r) = Len(q) + 1
      /\ r[Len(q) + 1] = e /\ \A i \in 1..Len(q) : r[i] = q[i]
  OBVIOUS
<1>2. \A i \in 1..Len(q) : q[i] # e
  BY DEF Elements
<1> HIDE DEF r
<1>3. NoDuplicates(r)
  BY <1>1, <1>2 DEF NoDuplicates
<1>4. Elements(r) = Elements(q) \union {e}
  BY <1>1 DEF Elements
<1> QED
  BY <1>1, <1>3, <1>4 DEF r

(* __Djy_AddRunningToBlock: by priority or at the tail. *)
LEMMA QueueEnter ==
  ASSUME NEW qu, NEW pr, QueuesOK(qu, pr), PrioOK(pr), NEW s \in Syncs, NEW e \in Events,
         \A r \in Syncs : e \notin Elements(qu[r])
  PROVE  LET n == [qu EXCEPT ![s] = IF s \in PrioOrder THEN InsertSorted(@, pr, e)
                                    ELSE Append(@, e)]
         IN  /\ QueuesOK(n, pr)
             /\ Elements(n[s]) = Elements(qu[s]) \union {e}
             /\ \A r \in Syncs \ {s} : n[r] = qu[r]
<1> DEFINE q == IF s \in PrioOrder THEN InsertSorted(qu[s], pr, e) ELSE Append(qu[s], e)
<1>1. qu[s] \in Seq(Events) /\ NoDuplicates(qu[s]) /\ e \notin Elements(qu[s])
  BY DEF QueuesOK
<1>2. \A x \in Events : pr[x] \in Nat
  BY DEF PrioOK
<1>3. /\ q \in Seq(Events) /\ NoDuplicates(q) /\ Elements(q) = Elements(qu[s]) \union {e}
      /\ s \in PrioOrder => SortedBy(q, pr)
  <2>1. CASE s \in PrioOrder
    <3>1. SortedBy(qu[s], pr)
      BY <2>1 DEF QueuesOK
    <3> QED
      BY <1>1, <1>2, <2>1, <3>1, Inserted
  <2>2. CASE s \notin PrioOrder
    BY <1>1, <2>2, Appended
  <2> QED
    BY <2>1, <2>2
<1>4. [qu EXCEPT ![s] = IF s \in PrioOrder THEN InsertSorted(@, pr, e) ELSE Append(@, e)]
        = [qu EXCEPT ![s] = q]
  BY DEF QueuesOK
<1> HIDE DEF q
<1>5. \A r \in Syncs \ {s} : Elements(q) \intersect Elements(qu[r]) = {}
  BY <1>3 DEF QueuesOK
<1>6. /\ QueuesOK([qu EXCEPT ![s] = q], pr)
      /\ [qu EXCEPT ![s] = q][s] = q
      /\ \A r \in Syncs \ {s} : [qu EXCEPT ![s] = q][r] = qu[r]
  BY <1>3, <1>5, QueueReplaced
<1> QED
  BY <1>3, <1>4, <1>6

(* The head of a block queue leaves it. *)
LEMMA QueueLeave ==
  ASSUME NEW qu, NEW pr, QueuesOK(qu, pr), NEW s \in Syncs, qu[s] # << >>
  PROVE  LET n == [qu EXCEPT ![s] = Tail(@)]
         IN  /\ QueuesOK(n, pr)
             /\ Head(qu[s]) \in Elements(qu[s]) /\ Head(qu[s]) \in Events
             /\ Elements(n[s]) = Elements(qu[s]) \ {Head(qu[s])}
             /\ \A r \in Syncs \ {s} : n[r] = qu[r]
<1> DEFINE q == Tail(qu[s])
           e == Head(qu[s])
<1>1. qu[s] \in Seq(Events) /\ NoDuplicates(qu[s])
  BY DEF QueuesOK
<1>2. q = CutFrom(qu[s], e) /\ e \in Elements(qu[s])
  BY <1>1, TailIsCut
<1>3. e \in Events
  BY <1>1
<1> HIDE DEF e
<1>4. /\ q \in Seq(Events) /\ NoDuplicates(q) /\ Elements(q) = Elements(qu[s]) \ {e}
      /\ s \in PrioOrder => SortedBy(q, pr)
  <2>1. s \in PrioOrder => SortedBy(qu[s], pr)
    BY DEF QueuesOK
  <2> QED
    BY <1>1, <1>2, <2>1, Cut
<1>5. [qu EXCEPT ![s] = Tail(@)] = [qu EXCEPT ![s] = q]
  BY DEF QueuesOK
<1> HIDE DEF q
<1>6. \A r \in Syncs \ {s} : Elements(q) \intersect Elements(qu[r]) = {}
  BY <1>4 DEF QueuesOK
<1>7. /\ QueuesOK([qu EXCEPT ![s] = q], pr)
      /\ [qu EXCEPT ![s] = q][s] = q
      /\ \A r \in Syncs \ {s} : [qu EXCEPT ![s] = q][r] = qu[r]
  BY <1>4, <1>6, QueueReplaced
<1> QED
  BY <1>2, <1>3, <1>4, <1>5, <1>7 DEF e

(* A timeout takes an event out of whatever block queue it is in. *)
LEMMA QueueCut ==
  ASSUME NEW qu, NEW pr, QueuesOK(qu, pr), NEW e,
         NEW n, n = [s \in Syncs |-> IF e \in Elements(qu[s]) THEN CutFrom(qu[s], e) ELSE qu[s]]
  PROVE  /\ QueuesOK(n, pr)
         /\ \A s \in Syncs : Elements(n[s]) = Elements(qu[s]) \ {e}
<1>1. ASSUME NEW s \in Syncs
      PROVE  /\ n[s] \in Seq(Events) /\ NoDuplicates(n[s]) /\ Elements(n[s]) = Elements(qu[s]) \ {e}
             /\ s \in PrioOrder => SortedBy(n[s], pr)
  <2>1. qu[s] \in Seq(Events) /\ NoDuplicates(qu[s]) /\ (s \in PrioOrder => SortedBy(qu[s], pr))
    BY DEF QueuesOK
  <2>2. CASE e \in Elements(qu[s])
    <3>1. n[s] = CutFrom(qu[s], e)
      BY <2>2
    <3> QED
      BY <2>1, <2>2, <3>1, Cut
  <2>3. CASE e \notin Elements(qu[s])
    <3>1. n[s] = qu[s]
      BY <2>3
    <3> QED
      BY <2>1, <2>3, <3>1
  <2> QED
    BY <2>2, <2>3
<1>2. n \in [Syncs -> Seq(Events)]
  BY <1>1
<1>3. \A s, r \in Syncs : s # r => Elements(n[s]) \intersect Elements(n[r]) = {}
  BY <1>1 DEF QueuesOK
<1>4. \A s \in PrioOrder : SortedBy(n[s], pr)
  BY <1>1, SchedAssumption DEF SchedAssumption
<1> QED
  BY <1>1, <1>2, <1>3, <1>4 DEF QueuesOK

(* The priority of an event that is in no block queue changes. *)
LEMMA QueuesReprioritise ==
  ASSUME NEW qu, NEW pr, NEW pr2, QueuesOK(qu, pr), NEW e,
         \A s \in Syncs : e \notin Elements(qu[s]), \A x \in Events \ {e} : pr2[x] = pr[x]
  PROVE  QueuesOK(qu, pr2)
<1>1. \A s \in Syncs : Elements(qu[s]) \subseteq Events \ {e}
  BY DEF QueuesOK, Elements
<1>2. \A s \in PrioOrder : SortedBy(qu[s], pr2)
  BY <1>1, SameKeys, SchedAssumption DEF QueuesOK, SchedAssumption
<1> QED
  BY <1>2 DEF QueuesOK
--------------------------------------------------------------------------------
(* The start: every event is ready, in an order of priorities that puts the *)
(* service event last.                                                      *)
LEMMA SchedInit == Init => SchedInv
<1> SUFFICES ASSUME Init PROVE SchedInv
  OBVIOUS
<1> USE SchedAssumption DEF SchedAssumption
<1> DEFINE n == Cardinality(Events)
<1>1. PrioOK(prio) /\ PrioOK(prio_base)
  BY DEF Init, PrioOK
<1>2. n \in Nat /\ IsFiniteSet(1..n) /\ Cardinality(1..n) = n
  BY FS_CardinalityType, FS_Interval
<1>3. ready \in [1..n -> Events] /\ NoDuplicates(ready) /\ SortedBy(ready, prio)
  BY DEF Init
<1> HIDE DEF n
<1>4. ready \in Seq(Events) /\ Len(ready) = n
  BY <1>2, <1>3
<1>5. ready \in Injection(1..n, Events)
  BY <1>3, <1>4 DEF Injection, IsInjective, NoDuplicates
<1>6. ready \in Surjection(1..n, Events)
  BY <1>2, <1>5, FS_Injection DEF n
<1>7. Elements(ready) = Events
  BY <1>3, <1>4, <1>6 DEF Surjection, Elements
<1>8. Len(ready) > 0 /\ ready[Len(ready)] = Service
  <2>1. PICK k \in 1..n : ready[k] = Service
    BY <1>4, <1>7 DEF Elements
  <2>2. CASE k = n
    BY <1>2, <1>4, <2>1, <2>2
  <2>3. CASE k < n
    <3>1. prio[ready[k]] <= prio[ready[n]]
      BY <1>2, <1>3, <1>4, <2>3 DEF SortedBy
    <3>2. ready[n] \in Events /\ ready[n] # Service
      BY <1>2, <1>3, <1>4, <2>1, <2>3 DEF NoDuplicates
    <3> QED
      BY <1>1, <2>1, <3>1, <3>2 DEF PrioOK
  <2> QED
    BY <1>2, <2>2, <2>3
<1>9. ReadyOK(ready, prio)
  BY <1>3, <1>4, <1>8 DEF ReadyOK
<1>10. Elements(delay) = {} /\ \A s \in Syncs : Elements(queue[s]) = {}
  BY DEF Init, Elements
<1>11. DelayOK(delay, remain, isr)
  <2>1. delay \in Seq(Events)
    BY DEF Init
  <2> QED
    BY <1>10, <2>1 DEF Init, DelayOK, NoDuplicates, SortedBy
<1>12. QueuesOK(queue, prio)
  <2>1. queue \in [Syncs -> Seq(Events)] /\ \A s \in Syncs : queue[s] = << >>
    BY DEF Init
  <2>2. \A s \in Syncs : Len(queue[s]) = 0
    BY <2>1
  <2>3. \A s \in Syncs : NoDuplicates(queue[s]) /\ SortedBy(queue[s], prio)
    BY <2>2 DEF NoDuplicates, SortedBy
  <2> QED
    BY <1>10, <2>1, <2>3 DEF QueuesOK
<1>13. StatusOK
  BY <1>7, <1>10 DEF Init, StatusOK, Statuses, Timed, Waiting
<1>14. RunningOK
  <2>1. running = Head(ready) /\ isr = FALSE /\ phase = 0
    BY DEF Init
  <2>2. Head(ready) = ready[1] /\ 1 \in 1..Len(ready)
    BY <1>2, <1>4, <1>8
  <2>3. isr \in BOOLEAN /\ phase \in Nat
    BY <2>1, Zenon
  <2>4. \A i \in 1..(1 - 1) : prio[ready[i]] < prio[running]
    OBVIOUS
  <2> QED
    BY <2>1, <2>2, <2>3, <2>4 DEF RunningOK
<1> QED
  BY <1>1, <1>9, <1>11, <1>12, <1>13, <1>14 DEF SchedInv

(* The running event is ready; one that executes waits for nothing. *)
LEMMA RunningFacts ==
  ASSUME SchedInv
  PROVE  /\ running \in Events /\ running \in Elements(ready)
         /\ InThread => /\ event_status[running] = "READY"
                        /\ running \notin Elements(delay)
                        /\ \A s \in Syncs : running \notin Elements(queue[s])
                        /\ \A l \in Lines : sync_event[l] # running
<1>1. running \in Elements(ready) /\ running \in Events
  BY DEF SchedInv, RunningOK, ReadyOK, Elements
<1>2. ASSUME InThread PROVE event_status[running] = "READY"
  BY <1>2 DEF InThread
<1>3. \A l \in Lines : sync_event[l] = running => event_status[running] = "ASYN_SIGNAL"
  BY <1>1, SchedAssumption DEF SchedInv, StatusOK, SchedAssumption
<1> QED
  BY <1>1, <1>2, <1>3 DEF SchedInv, StatusOK, Timed, Waiting

(* The head of the ready queue is where RunningOK wants the running event. *)
LEMMA HeadRuns ==
  ASSUME ReadyOK(ready', prio'), running' = Head(ready'), isr' \in BOOLEAN, phase' \in Nat
  PROVE  RunningOK'
<1>1. Len(ready') \in Nat /\ Len(ready') >= 1 /\ Head(ready') = ready'[1]
  BY DEF ReadyOK
<1> QED
  BY <1>1 DEF RunningOK

(* The order of the ready queue changes and nothing else. *)
LEMMA StatusSame ==
  ASSUME StatusOK, Elements(ready') = Elements(ready),
         UNCHANGED <<delay, queue, sync_event, event_status>>
  PROVE  StatusOK'
  BY DEF StatusOK

(* A step of a thread that only reorders the ready queue, or of an interrupt *)
(* that ends, and lets the head run.                                         *)
LEMMA Reordered ==
  ASSUME SchedInv, PrioOK(prio'), PrioOK(prio_base'), ReadyOK(ready', prio'),
         QueuesOK(queue, prio'), DelayOK(delay, remain, isr'),
         Elements(ready') = Elements(ready), Dispatch, isr' \in BOOLEAN,
         UNCHANGED <<delay, remain, queue, sync_event, event_status, phase>>
  PROVE  SchedInv'
<1>1. StatusOK'
  BY StatusSame DEF SchedInv
<1>2. RunningOK'
  BY HeadRuns DEF SchedInv, RunningOK, Dispatch
<1> QED
  BY <1>1, <1>2 DEF SchedInv

(* Djy_EventDelay(0). *)
LEMMA YieldInv == ASSUME SchedInv, Yield PROVE SchedInv'
<1>1. ReadyOK(ready', prio) /\ Elements(ready') = Elements(ready)
  BY RunningFacts, ReadyRotate DEF Yield, SchedInv
<1> QED
  BY <1>1, Reordered DEF Yield, SchedInv, RunningOK

(* A ready event other than the service event gets priority p. *)
LEMMA ReprioritiseOK ==
  ASSUME SchedInv, NEW e \in Events \ {Service}, NEW p \in Prios, event_status[e] = "READY",
         Reprioritise(e, p)
  PROVE  /\ PrioOK(prio') /\ ReadyOK(ready', prio') /\ QueuesOK(queue, prio')
         /\ Elements(ready') = Elements(ready)
<1>1. /\ prio' = [prio EXCEPT ![e] = p]
      /\ ready' = InsertSorted(CutFrom(ready, e), prio', e)
  BY DEF Reprioritise
<1>2. PrioOK(prio') /\ \A x \in Events \ {e} : prio'[x] = prio[x]
  BY <1>1, SchedAssumption DEF SchedInv, PrioOK, SchedAssumption
<1>3. e \in Elements(ready) /\ \A s \in Syncs : e \notin Elements(queue[s])
  BY DEF SchedInv, StatusOK, Waiting
<1>4. QueuesOK(queue, prio')
  BY <1>2, <1>3, QueuesReprioritise DEF SchedInv
<1>5. ReadyOK(ready, prio)
  BY DEF SchedInv
<1>6. /\ ReadyOK(InsertSorted(CutFrom(ready, e), prio', e), prio')
      /\ Elements(InsertSorted(CutFrom(ready, e), prio', e)) = Elements(ready)
  BY <1>2, <1>3, <1>5, ReadyReprioritise
<1> QED
  BY <1>1, <1>2, <1>4, <1>6

(* Djy_SetEventPrio, Djy_RaiseTempPrio and Djy_RestorePrio. *)
LEMMA SetEventPrioInv ==
  ASSUME SchedInv, NEW e \in Events, NEW p \in Prios, SetEventPrio(e, p)
  PROVE  SchedInv'
<1>1. e \in Events \ {Service} /\ prio_base' = [prio_base EXCEPT ![e] = p]
  BY DEF SetEventPrio
<1>2. PrioOK(prio_base')
  BY <1>1, SchedAssumption DEF SchedInv, PrioOK, SchedAssumption
<1>3. PrioOK(prio') /\ ReadyOK(ready', prio') /\ QueuesOK(queue, prio')
      /\ Elements(ready') = Elements(ready)
  BY <1>1, ReprioritiseOK DEF SetEventPrio, SchedInv
<1> QED
  BY <1>2, <1>3, Reordered DEF SetEventPrio, SchedInv, RunningOK

(* Djy_RaiseTempPrio never raises anybody to the priority of the service    *)
(* event.                                                                   *)
LEMMA RaiseTempPrioInv ==
  ASSUME SchedInv, NEW e \in Events, RaiseTempPrio(e)
  PROVE  SchedInv'
<1>1. e \in Events \ {Service} /\ running \in Events
  BY RunningFacts DEF RaiseTempPrio
<1>2. prio[running] < prio[e] => prio[running] \in Prios
  BY <1>1, SchedAssumption DEF SchedInv, PrioOK, SchedAssumption
<1>3. PrioOK(prio') /\ ReadyOK(ready', prio') /\ QueuesOK(queue, prio')
      /\ Elements(ready') = Elements(ready)
  BY <1>1, <1>2, ReprioritiseOK DEF RaiseTempPrio, SchedInv
<1> QED
  BY <1>3, Reordered DEF RaiseTempPrio, SchedInv, RunningOK

(* Djy_RestorePrio by the service event does nothing. *)
LEMMA RestorePrioInv ==
  ASSUME SchedInv, RestorePrio
  PROVE  SchedInv'
<1>1. running \in Events /\ event_status[running] = "READY"
  BY RunningFacts DEF RestorePrio
<1>2. prio[running] # prio_base[running] =>
        running \in Events \ {Service} /\ prio_base[running] \in Prios
  BY <1>1 DEF SchedInv, PrioOK
<1>3. PrioOK(prio') /\ ReadyOK(ready', prio') /\ QueuesOK(queue, prio')
      /\ Elements(ready') = Elements(ready)
  BY <1>1, <1>2, ReprioritiseOK DEF RestorePrio, SchedInv
<1> QED
  BY <1>3, Reordered DEF RestorePrio, SchedInv, RunningOK
--------------------------------------------------------------------------------
(* The running event leaves the ready queue. *)
LEMMA RunningCut ==
  ASSUME SchedInv, running # Service
  PROVE  /\ ReadyOK(CutFrom(ready, running), prio)
         /\ Elements(CutFrom(ready, running)) = Elements(ready) \ {running}
  BY RunningFacts, ReadyCut DEF SchedInv

(* The running event enters the alarm queue. *)
LEMMA RunningDelayed ==
  ASSUME SchedInv, InThread, NEW t \in 1..MaxTicks,
         remain' = [remain EXCEPT ![running] = t],
         delay' = InsertSorted(delay, remain', running)
  PROVE  /\ DelayOK(delay', remain', isr)
         /\ Elements(delay') = Elements(delay) \union {running}
<1>1. DelayOK(delay, remain, isr) /\ running \in Events /\ running \notin Elements(delay)
  BY RunningFacts DEF SchedInv
<1>2. /\ remain' \in [Events -> 0..MaxTicks] /\ remain'[running] > 0
      /\ \A x \in Events \ {running} : remain'[x] = remain[x]
  BY <1>1, SchedAssumption DEF DelayOK, SchedAssumption
<1>3. /\ DelayOK(InsertSorted(delay, remain', running), remain', isr)
      /\ Elements(InsertSorted(delay, remain', running)) = Elements(delay) \union {running}
  BY ONLY <1>1, <1>2, DelayInsert
<1> QED
  BY <1>3

(* Djy_EventDelay. *)
LEMMA DelayInv == ASSUME SchedInv, NEW t \in 1..MaxTicks, Delay(t) PROVE SchedInv'
<1>1. /\ InThread /\ running # Service
      /\ remain' = [remain EXCEPT ![running] = t]
      /\ ready' = CutFrom(ready, running)
      /\ delay' = InsertSorted(delay, remain', running)
      /\ event_status' = [event_status EXCEPT ![running] = "DELAY"]
      /\ running' = Head(ready')
      /\ UNCHANGED <<queue, sync_event, prio, prio_base, phase, isr>>
  BY DEF Delay, Dispatch
<1>2. ReadyOK(ready', prio') /\ Elements(ready') = Elements(ready) \ {running}
  BY <1>1, RunningCut
<1>3. DelayOK(delay', remain', isr') /\ Elements(delay') = Elements(delay) \union {running}
  BY <1>1, RunningDelayed
<1>4. RunningOK'
  BY <1>1, <1>2, HeadRuns DEF SchedInv, RunningOK
<1>5. StatusOK'
  <2>1. /\ event_status' \in [Events -> Statuses] /\ event_status'[running] = "DELAY"
        /\ \A e \in Events \ {running} : event_status'[e] = event_status[e]
    BY <1>1, RunningFacts DEF SchedInv, StatusOK, Statuses
  <2>2. UNCHANGED <<queue, sync_event>>
    BY <1>1
  <2>3. InThread /\ running # Service
    BY <1>1
  <2> QED
    BY ONLY SchedInv, <1>2, <1>3, <2>1, <2>2, <2>3, RunningFacts, SchedAssumption
       DEF SchedInv, StatusOK, Timed, Waiting, SchedAssumption
<1> QED
  BY <1>1, <1>2, <1>3, <1>4, <1>5 DEF SchedInv

(* __Djy_AddRunningToBlock, whatever happens to the rest of the ready queue. *)
LEMMA EnterBlockOK ==
  ASSUME SchedInv, InThread, running # Service, NEW s \in Syncs,
         NEW t \in {Forever} \union 1..MaxTicks, EnterBlockQueue(s, t),
         Elements(ready') = Elements(ready) \ {running}, sync_event' = sync_event
  PROVE  /\ QueuesOK(queue', prio) /\ DelayOK(delay', remain', isr) /\ StatusOK'
         /\ Elements(queue'[s]) = Elements(queue[s]) \union {running}
         /\ \A r \in Syncs \ {s} : queue'[r] = queue[r]
<1>1. /\ QueuesOK(queue', prio)
      /\ Elements(queue'[s]) = Elements(queue[s]) \union {running}
      /\ \A r \in Syncs \ {s} : queue'[r] = queue[r]
  <2>1. /\ running \in Events /\ \A r \in Syncs : running \notin Elements(queue[r])
        /\ QueuesOK(queue, prio) /\ PrioOK(prio)
    BY RunningFacts DEF SchedInv
  <2> DEFINE n == [queue EXCEPT ![s] = IF s \in PrioOrder THEN InsertSorted(@, prio, running)
                                       ELSE Append(@, running)]
  <2>2. queue' = n
    BY DEF EnterBlockQueue
  <2>3. /\ QueuesOK(n, prio)
        /\ Elements(n[s]) = Elements(queue[s]) \union {running}
        /\ \A r \in Syncs \ {s} : n[r] = queue[r]
    BY <2>1, QueueEnter
  <2> HIDE DEF n
  <2> QED
    BY <2>2, <2>3
<1>2. /\ event_status' \in [Events -> Statuses]
      /\ event_status'[running] = IF t = Forever THEN "WAIT" ELSE "WAIT_TIMEOUT"
      /\ \A e \in Events \ {running} : event_status'[e] = event_status[e]
  BY RunningFacts DEF EnterBlockQueue, SchedInv, StatusOK, Statuses
<1>3. CASE t = Forever
  <2>1. delay' = delay /\ remain' = remain
    BY <1>3 DEF EnterBlockQueue
  <2>2. StatusOK'
    BY <1>1, <1>2, <1>3, <2>1, RunningFacts, SchedAssumption
       DEF SchedInv, StatusOK, Timed, Waiting, SchedAssumption
  <2> QED
    BY <1>1, <2>1, <2>2 DEF SchedInv
<1>4. CASE t # Forever
  <2>1. t \in 1..MaxTicks /\ remain' = [remain EXCEPT ![running] = t]
        /\ delay' = InsertSorted(delay, remain', running)
    BY <1>4 DEF EnterBlockQueue
  <2>2. DelayOK(delay', remain', isr) /\ Elements(delay') = Elements(delay) \union {running}
    BY <2>1, RunningDelayed
  <2>3. StatusOK'
    BY <1>1, <1>2, <1>4, <2>2, RunningFacts, SchedAssumption
       DEF SchedInv, StatusOK, Timed, Waiting, SchedAssumption
  <2> QED
    BY <1>1, <2>2, <2>3
<1> QED
  BY <1>3, <1>4

(* __Djy_AddRunningToBlock and the switch. *)
LEMMA BlockInv ==
  ASSUME SchedInv, NEW s \in Syncs, NEW t \in {Forever} \union 1..MaxTicks, Block(s, t)
  PROVE  SchedInv'
<1>1. /\ InThread /\ running # Service /\ EnterBlockQueue(s, t)
      /\ ready' = CutFrom(ready, running) /\ running' = Head(ready')
      /\ UNCHANGED <<sync_event, prio, prio_base, phase, isr>>
  BY DEF Block, Dispatch
<1>2. ReadyOK(ready', prio') /\ Elements(ready') = Elements(ready) \ {running}
  BY <1>1, RunningCut
<1>3. QueuesOK(queue', prio') /\ DelayOK(delay', remain', isr') /\ StatusOK'
  BY <1>1, <1>2, EnterBlockOK
<1>4. RunningOK'
  BY <1>1, <1>2, HeadRuns DEF SchedInv, RunningOK
<1> QED
  BY <1>1, <1>2, <1>3, <1>4 DEF SchedInv

(* The head of a block queue is an event that waits, hence not ready. *)
LEMMA HeadWaits ==
  ASSUME SchedInv, NEW s \in Syncs, queue[s] # << >>
  PROVE  /\ Head(queue[s]) \in Events \ {Service} /\ Head(queue[s]) \in Elements(queue[s])
         /\ event_status[Head(queue[s])] \in Waiting
         /\ Head(queue[s]) \notin Elements(ready)
<1>1. Head(queue[s]) \in Events /\ Head(queue[s]) \in Elements(queue[s])
  BY QueueLeave DEF SchedInv
<1>2. event_status[Head(queue[s])] \in Waiting
  BY <1>1 DEF SchedInv, StatusOK
<1> QED
  BY <1>1, <1>2 DEF SchedInv, StatusOK, Waiting

(* The post takes the head out of the block queue and, if it has a timeout,  *)
(* out of the alarm queue.                                                   *)
LEMMA LeaveBlockOK ==
  ASSUME SchedInv, NEW s \in Syncs, queue[s] # << >>, LeaveBlockQueue(s),
         Elements(ready') = Elements(ready) \union {Head(queue[s])}, sync_event' = sync_event
  PROVE  /\ QueuesOK(queue', prio) /\ DelayOK(delay', remain', isr) /\ StatusOK'
         /\ Elements(queue'[s]) = Elements(queue[s]) \ {Head(queue[s])}
         /\ \A r \in Syncs \ {s} : queue'[r] = queue[r]
<1> DEFINE e == Head(queue[s])
<1>1. /\ QueuesOK(queue', prio)
      /\ Elements(queue'[s]) = Elements(queue[s]) \ {e}
      /\ \A r \in Syncs \ {s} : queue'[r] = queue[r]
  <2> DEFINE n == [queue EXCEPT ![s] = Tail(@)]
  <2>1. queue' = n
    BY DEF LeaveBlockQueue
  <2>2. /\ QueuesOK(n, prio) /\ Elements(n[s]) = Elements(queue[s]) \ {e}
        /\ \A r \in Syncs \ {s} : n[r] = queue[r]
    BY QueueLeave DEF SchedInv
  <2> HIDE DEF n
  <2> QED
    BY <2>1, <2>2
<1>2. /\ e \in Events \ {Service} /\ e \in Elements(queue[s])
      /\ event_status[e] \in Waiting
  BY HeadWaits
<1>3. /\ delay' = IF event_status[e] = "WAIT_TIMEOUT" THEN CutFrom(delay, e) ELSE delay
      /\ remain' = [remain EXCEPT ![e] = 0]
      /\ event_status' = [event_status EXCEPT ![e] = "READY"]
  BY DEF LeaveBlockQueue
<1> HIDE DEF e
<1>4. delay' = IF e \in Elements(delay) THEN CutFrom(delay, e) ELSE delay
  BY <1>2, <1>3 DEF SchedInv, StatusOK, Timed, Waiting
<1>5. remain' \in [Events -> 0..MaxTicks] /\ \A x \in Events \ {e} : remain'[x] = remain[x]
  BY <1>2, <1>3, SchedAssumption DEF SchedInv, DelayOK, SchedAssumption
<1>6. DelayOK(delay', remain', isr) /\ Elements(delay') = Elements(delay) \ {e}
  BY <1>2, <1>4, <1>5, DelayCut DEF SchedInv
<1>7. /\ event_status' \in [Events -> Statuses] /\ event_status'[e] = "READY"
      /\ \A x \in Events \ {e} : event_status'[x] = event_status[x]
  BY <1>2, <1>3 DEF SchedInv, StatusOK, Statuses
<1>8. Elements(ready') = Elements(ready) \union {e}
  BY DEF e
<1>9. \A r \in Syncs \ {s} : e \notin Elements(queue[r])
  BY <1>2 DEF SchedInv, QueuesOK
<1>10. \A x \in Events : event_status'[x] \in Waiting <=> \E r \in Syncs : x \in Elements(queue'[r])
  BY <1>1, <1>2, <1>7, <1>9 DEF SchedInv, StatusOK, Waiting
<1>11. \A l \in Lines : sync_event[l] # e
  BY <1>2, SchedAssumption DEF SchedInv, StatusOK, Waiting, SchedAssumption
<1>12. StatusOK'
  BY <1>2, <1>6, <1>7, <1>8, <1>10, <1>11, SchedAssumption
     DEF SchedInv, StatusOK, Timed, Waiting, SchedAssumption
<1> QED
  BY <1>1, <1>6, <1>12 DEF e

(* Lock_SempPost with a waiter. *)
LEMMA WakeInv == ASSUME SchedInv, NEW s \in Syncs, Wake(s) PROVE SchedInv'
<1>1. /\ queue[s] # << >> /\ LeaveBlockQueue(s)
      /\ ready' = InsertSorted(ready, prio, Head(queue[s])) /\ running' = Head(ready')
      /\ UNCHANGED <<sync_event, prio, prio_base, phase, isr>>
  BY DEF Wake, Dispatch
<1>2. ReadyOK(ready', prio') /\ Elements(ready') = Elements(ready) \union {Head(queue[s])}
  BY <1>1, HeadWaits, ReadyInsert DEF SchedInv
<1>3. QueuesOK(queue', prio') /\ DelayOK(delay', remain', isr') /\ StatusOK'
  BY <1>1, <1>2, LeaveBlockOK
<1>4. RunningOK'
  BY <1>1, <1>2, HeadRuns DEF SchedInv, RunningOK
<1> QED
  BY <1>1, <1>2, <1>3, <1>4 DEF SchedInv
--------------------------------------------------------------------------------
(* Djy_IsrTick begins: the order of the alarms stays. *)
LEMMA TickBeginInv == ASSUME SchedInv, TickBegin PROVE SchedInv'
<1>1. /\ isr' = TRUE
      /\ remain' = [e \in Events |-> IF remain[e] > 0 THEN remain[e] - 1 ELSE 0]
      /\ UNCHANGED <<ready, running, delay, queue, sync_event, prio, prio_base, event_status>>
  BY DEF TickBegin
<1>2. remain \in [Events -> 0..MaxTicks] /\ MaxTicks \in Nat
  BY SchedAssumption DEF SchedInv, DelayOK, SchedAssumption
<1>3. remain' \in [Events -> 0..MaxTicks]
  BY <1>1, <1>2
<1>4. \A x, y \in Events : remain[x] <= remain[y] => remain'[x] <= remain'[y]
  BY <1>1, <1>2
<1>5. DelayOK(delay', remain', isr')
  <2>1. \A i \in 1..Len(delay) : delay[i] \in Events
    BY DEF SchedInv, DelayOK
  <2>2. SortedBy(delay, remain')
    BY <1>4, <2>1 DEF SchedInv, DelayOK, SortedBy
  <2> QED
    BY <1>1, <1>3, <2>2 DEF SchedInv, DelayOK
<1>6. phase' \in Nat
  <2>1. Slice \in Nat /\ phase \in Nat
    BY SchedAssumption DEF SchedInv, RunningOK, SchedAssumption
  <2>2. CASE Slice = 0
    BY <2>2 DEF TickBegin
  <2>3. CASE Slice # 0
    <3>1. phase' = (phase + 1) % Slice
      BY <2>3 DEF TickBegin
    <3> QED
      BY <2>1, <2>3, <3>1
  <2> QED
    BY <2>2, <2>3
<1>7. RunningOK'
  <2>1. isr' \in BOOLEAN
    BY <1>1, Zenon
  <2> QED
    BY <1>1, <1>6, <2>1 DEF SchedInv, RunningOK
<1>8. StatusOK'
  BY <1>1, StatusSame DEF SchedInv
<1> QED
  BY <1>1, <1>5, <1>7, <1>8 DEF SchedInv

(* Whoever is the first of its priority stays it when another event is made *)
(* ready: __Djy_EventReady inserts behind equals.                           *)
LEMMA InsertKeepsFirst ==
  ASSUME NEW q \in Seq(Events), NEW pr, PrioOK(pr), SortedBy(q, pr), NEW e \in Events,
         NEW p \in 1..Len(q), \A i \in 1..(p - 1) : pr[q[i]] < pr[q[p]]
  PROVE  LET r == InsertSorted(q, pr, e)
         IN  \E k \in 1..Len(r) : r[k] = q[p] /\ \A i \in 1..(k - 1) : pr[r[i]] < pr[q[p]]
<1> DEFINE r == InsertSorted(q, pr, e)
           n == InsertPos(q, pr, e)
<1>1. /\ Len(q) \in Nat /\ pr[e] \in Nat
      /\ \A i \in 1..Len(q) : q[i] \in Events /\ pr[q[i]] \in Nat
  BY DEF PrioOK
<1>2. \A x \in Events : pr[x] \in Nat
  BY DEF PrioOK
<1>3. n \in 1..(Len(q) + 1) /\ (n = Len(q) + 1 \/ pr[q[n]] > pr[e])
  BY <1>2, InsertPosFound
<1> HIDE DEF n
<1>4. /\ r \in Seq(Events) /\ Len(r) = Len(q) + 1
      /\ \A i \in 1..Len(r) : r[i] = IF i < n THEN q[i] ELSE IF i = n THEN e ELSE q[i - 1]
  BY <1>3, InsertAt DEF InsertSorted, n
<1> HIDE DEF r
<1>5. CASE p < n
  <2>1. p \in 1..Len(r) /\ r[p] = q[p] /\ \A i \in 1..(p - 1) : r[i] = q[i]
    BY <1>1, <1>3, <1>4, <1>5
  <2>2. \E k \in 1..Len(r) : r[k] = q[p] /\ \A i \in 1..(k - 1) : pr[r[i]] < pr[q[p]]
    BY <2>1
  <2> QED
    BY <2>2 DEF r
<1>6. CASE n <= p
  <2>1. pr[e] < pr[q[p]]
    <3>1. pr[q[n]] > pr[e] /\ n \in 1..Len(q) /\ pr[q[n]] <= pr[q[p]]
      BY <1>1, <1>3, <1>6 DEF SortedBy
    <3> QED
      BY <1>1, <3>1
  <2>2. p + 1 \in 1..Len(r) /\ r[p + 1] = q[p]
    BY SMTT(60), <1>1, <1>3, <1>4, <1>6
  <2>3. ASSUME NEW i \in 1..((p + 1) - 1) PROVE pr[r[i]] < pr[q[p]]
    <3>1. CASE i = n
      BY <1>1, <1>3, <1>4, <2>1, <3>1
    <3>2. CASE i # n
      <4>1. \E j \in 1..(p - 1) : r[i] = q[j]
        <5>1. r[i] = IF i < n THEN q[i] ELSE IF i = n THEN e ELSE q[i - 1]
          BY <1>1, <1>4
        <5>2. CASE i < n
          BY <1>3, <1>6, <5>1, <5>2
        <5>3. CASE i > n
          BY <1>3, <1>6, <5>1, <5>3
        <5> QED
          BY <1>3, <3>2, <5>2, <5>3
      <4> QED
        BY <4>1
    <3> QED
      BY <3>1, <3>2
  <2>4. \E k \in 1..Len(r) : r[k] = q[p] /\ \A i \in 1..(k - 1) : pr[r[i]] < pr[q[p]]
    BY <2>2, <2>3
  <2> QED
    BY <2>4 DEF r
<1> QED
  BY <1>1, <1>3, <1>5, <1>6

(* An alarm: the event leaves the alarm queue and the block queue. *)
LEMMA TickWakeInv == ASSUME SchedInv, TickWake PROVE SchedInv'
<1> DEFINE e == Head(delay)
           n == [s \in Syncs |-> IF e \in Elements(queue[s]) THEN CutFrom(queue[s], e) ELSE queue[s]]
<1>1. /\ isr /\ delay # << >>
      /\ queue' = n
      /\ ready' = InsertSorted(ready, prio, e)
      /\ event_status' = [event_status EXCEPT ![e] = "READY"]
      /\ delay' = Tail(delay)
      /\ UNCHANGED <<running, remain, sync_event, prio, prio_base, phase, isr>>
  BY DEF TickWake, AlarmDue
<1>2. Tail(delay) = CutFrom(delay, e) /\ e \in Elements(delay) /\ e \in Events
  BY <1>1, TailIsCut DEF SchedInv, DelayOK
<1>3. event_status[e] \in Timed /\ e # Service /\ e \notin Elements(ready)
  BY <1>2 DEF SchedInv, StatusOK, Timed
<1>4. QueuesOK(n, prio) /\ \A s \in Syncs : Elements(n[s]) = Elements(queue[s]) \ {e}
  BY QueueCut DEF SchedInv
<1> HIDE DEF e, n
<1>5. DelayOK(delay', remain', isr') /\ Elements(delay') = Elements(delay) \ {e}
  <2>1. delay' = CutFrom(delay, e) /\ DelayOK(delay, remain, isr) /\ remain' = remain /\ isr' = isr
    BY <1>1, <1>2 DEF SchedInv
  <2>2. remain \in [Events -> 0..MaxTicks]
    BY DEF SchedInv, DelayOK
  <2> QED
    BY <1>2, <2>1, <2>2, DelayCut
<1>6. ReadyOK(ready', prio) /\ Elements(ready') = Elements(ready) \union {e}
  BY <1>1, <1>2, <1>3, ReadyInsert DEF SchedInv
<1>7. RunningOK'
  <2>1. PICK p \in 1..Len(ready) :
          ready[p] = running /\ \A i \in 1..(p - 1) : prio[ready[i]] < prio[ready[p]]
    BY DEF SchedInv, RunningOK
  <2>2. ready \in Seq(Events) /\ SortedBy(ready, prio) /\ PrioOK(prio)
    BY DEF SchedInv, ReadyOK
  <2>3. \E k \in 1..Len(ready') : ready'[k] = ready[p]
                                 /\ \A i \in 1..(k - 1) : prio[ready'[i]] < prio[ready[p]]
    BY <1>1, <1>2, <2>1, <2>2, InsertKeepsFirst
  <2> QED
    BY SMTT(60), <1>1, <2>1, <2>3 DEF SchedInv, RunningOK
<1>8. /\ event_status' \in [Events -> Statuses] /\ event_status'[e] = "READY"
      /\ \A x \in Events \ {e} : event_status'[x] = event_status[x]
  BY <1>1, <1>2 DEF SchedInv, StatusOK, Statuses
<1>9. \A l \in Lines : sync_event[l] # e
  BY <1>2, <1>3, SchedAssumption DEF SchedInv, StatusOK, Timed, SchedAssumption
<1>10. StatusOK'
  <2>1. \A s \in Syncs : Elements(queue'[s]) = Elements(queue[s]) \ {e}
    BY <1>1, <1>4
  <2>2. sync_event' = sync_event /\ sync_event \in [Lines -> Events \union {NULL}]
        /\ event_status'[Service] = "READY"
    BY <1>1, <1>3, <1>8, SchedAssumption DEF SchedInv, StatusOK, SchedAssumption
  <2>3. \A x \in Events : x \in Elements(delay') <=> event_status'[x] \in Timed
    BY <1>5, <1>8 DEF SchedInv, StatusOK, Timed
  <2>4. \A x \in Events : event_status'[x] \in Waiting <=> \E s \in Syncs : x \in Elements(queue'[s])
    BY SMTT(60), <1>8, <2>1 DEF SchedInv, StatusOK, Waiting
  <2>5. \A x \in Events :
          x \in Elements(ready')
            <=> \/ event_status'[x] = "READY"
                \/ event_status'[x] = "ASYN_SIGNAL" /\ \A l \in Lines : sync_event[l] # x
    BY <1>6, <1>8 DEF SchedInv, StatusOK
  <2>6. \A l \in Lines : sync_event[l] # NULL => event_status'[sync_event[l]] = "ASYN_SIGNAL"
    BY <1>8, <1>9, <2>2 DEF SchedInv, StatusOK
  <2>7. \A l, k \in Lines : sync_event[l] = sync_event[k] /\ sync_event[l] # NULL => l = k
    BY DEF SchedInv, StatusOK
  <2> QED
    BY <1>8, <2>2, <2>3, <2>4, <2>5, <2>6, <2>7 DEF StatusOK
<1> QED
  BY <1>1, <1>4, <1>5, <1>6, <1>7, <1>10 DEF SchedInv

(* Djy_IsrTick ends when the head of the alarm queue is not due: then none is. *)
LEMMA TickEndInv == ASSUME SchedInv, TickEnd PROVE SchedInv'
<1>1. /\ ~AlarmDue /\ isr' = FALSE /\ Dispatch
      /\ UNCHANGED <<delay, remain, queue, sync_event, prio, prio_base, event_status, phase>>
  BY DEF TickEnd
<1>2. ReadyOK(ready', prio) /\ Elements(ready') = Elements(ready)
  BY RunningFacts, ReadyRotate DEF TickEnd, SchedInv
<1>3. DelayOK(delay, remain, FALSE)
  <2> SUFFICES ASSUME NEW i \in 1..Len(delay) PROVE remain[delay[i]] > 0
    BY DEF SchedInv, DelayOK, Elements
  <2>1. delay \in Seq(Events) /\ remain \in [Events -> 0..MaxTicks] /\ MaxTicks \in Nat
    BY SchedAssumption DEF SchedInv, DelayOK, SchedAssumption
  <2>2. delay # << >> /\ Head(delay) = delay[1] /\ 1 \in 1..Len(delay)
    BY <2>1
  <2>3. remain[delay[1]] > 0
    <3>1. delay[1] \in Events
      BY <2>1, <2>2
    <3>2. remain[delay[1]] # 0
      BY <1>1, <2>2 DEF AlarmDue
    <3> QED
      BY <2>1, <3>1, <3>2
  <2>4. i = 1 \/ remain[delay[1]] <= remain[delay[i]]
    BY <2>2 DEF SchedInv, DelayOK, SortedBy
  <2> QED
    BY <2>1, <2>3, <2>4
<1>4. isr' \in BOOLEAN /\ DelayOK(delay, remain, isr')
  BY <1>1, <1>3
<1> QED
  BY <1>1, <1>2, <1>4, Reordered DEF SchedInv
(* Int_AsynSignalSync: the running event waits for a line nobody waits for. *)
LEMMA AsynSignalSyncInv == ASSUME SchedInv, NEW l \in Lines, AsynSignalSync(l) PROVE SchedInv'
<1>1. /\ InThread /\ running # Service /\ sync_event[l] = NULL
      /\ ready' = CutFrom(ready, running)
      /\ sync_event' = [sync_event EXCEPT ![l] = running]
      /\ event_status' = [event_status EXCEPT ![running] = "ASYN_SIGNAL"]
      /\ running' = Head(ready')
      /\ UNCHANGED <<delay, remain, queue, prio, prio_base, phase, isr>>
  BY DEF AsynSignalSync, Dispatch
<1>2. ReadyOK(ready', prio') /\ Elements(ready') = Elements(ready) \ {running}
  BY <1>1, RunningCut
<1>3. RunningOK'
  BY <1>1, <1>2, HeadRuns DEF SchedInv, RunningOK
<1>4. /\ event_status' \in [Events -> Statuses] /\ event_status'[running] = "ASYN_SIGNAL"
      /\ \A e \in Events \ {running} : event_status'[e] = event_status[e]
  BY <1>1, RunningFacts DEF SchedInv, StatusOK, Statuses
<1>5. /\ sync_event' \in [Lines -> Events \union {NULL}] /\ sync_event'[l] = running
      /\ \A k \in Lines \ {l} : sync_event'[k] = sync_event[k]
  BY <1>1, RunningFacts DEF SchedInv, StatusOK
<1>6. StatusOK'
  <2>1. InThread /\ running # Service /\ UNCHANGED <<delay, queue>>
    BY <1>1
  <2>2. /\ event_status[running] = "READY" /\ running \in Events /\ running # NULL
        /\ \A k \in Lines : sync_event[k] # running
    BY <2>1, RunningFacts, SchedAssumption DEF SchedAssumption
  <2>3. \A x \in Events : x \in Elements(delay') <=> event_status'[x] \in Timed
    BY <1>4, <2>1, <2>2 DEF SchedInv, StatusOK, Timed
  <2>4. \A x \in Events : event_status'[x] \in Waiting <=> \E s \in Syncs : x \in Elements(queue'[s])
    BY <1>4, <2>1, <2>2 DEF SchedInv, StatusOK, Waiting
  <2>5. \A x \in Events \ {running} :
          (\A k \in Lines : sync_event'[k] # x) <=> (\A k \in Lines : sync_event[k] # x)
    <3>1. \A x \in Events \ {running} : sync_event[l] # x /\ sync_event'[l] # x
      BY <1>1, <1>5, SchedAssumption DEF SchedAssumption
    <3> QED
      BY <1>5, <3>1
  <2>6. \A x \in Events :
          x \in Elements(ready')
            <=> \/ event_status'[x] = "READY"
                \/ event_status'[x] = "ASYN_SIGNAL" /\ \A k \in Lines : sync_event'[k] # x
    BY <1>2, <1>4, <1>5, <2>5 DEF SchedInv, StatusOK
  <2>7. \A k \in Lines : sync_event'[k] # NULL => event_status'[sync_event'[k]] = "ASYN_SIGNAL"
    BY <1>4, <1>5, <2>2 DEF SchedInv, StatusOK
  <2>8. \A m, k \in Lines : sync_event'[m] = sync_event'[k] /\ sync_event'[m] # NULL => m = k
    BY <1>5, <2>2 DEF SchedInv, StatusOK
  <2>9. event_status'[Service] = "READY"
    BY <1>4, <2>1, SchedAssumption DEF SchedInv, StatusOK, SchedAssumption
  <2> QED
    BY <1>4, <1>5, <2>3, <2>4, <2>6, <2>7, <2>8, <2>9 DEF StatusOK
<1> QED
  BY <1>1, <1>2, <1>3, <1>6 DEF SchedInv

(* __Int_EngineAsynSignal: the event that waits for the line becomes ready. *)
LEMMA EngineAsynSignalInv == ASSUME SchedInv, NEW l \in Lines, EngineAsynSignal(l) PROVE SchedInv'
<1> DEFINE e == sync_event[l]
<1>1. /\ e # NULL
      /\ ready' = InsertSorted(ready, prio, e)
      /\ sync_event' = [sync_event EXCEPT ![l] = NULL]
      /\ running' = Head(ready')
      /\ UNCHANGED <<delay, remain, queue, prio, prio_base, event_status, phase, isr>>
  BY DEF EngineAsynSignal, Dispatch
<1>2. e \in Events /\ event_status[e] = "ASYN_SIGNAL" /\ e = sync_event[l]
  BY <1>1 DEF SchedInv, StatusOK
<1> HIDE DEF e
<1>3. e # Service /\ e \notin Elements(ready)
  BY <1>2 DEF SchedInv, StatusOK
<1>4. ReadyOK(ready', prio') /\ Elements(ready') = Elements(ready) \union {e}
  BY <1>1, <1>2, <1>3, ReadyInsert DEF SchedInv
<1>5. RunningOK'
  BY <1>1, <1>4, HeadRuns DEF SchedInv, RunningOK
<1>6. /\ sync_event' \in [Lines -> Events \union {NULL}] /\ sync_event'[l] = NULL
      /\ \A k \in Lines \ {l} : sync_event'[k] = sync_event[k]
  BY <1>1 DEF SchedInv, StatusOK
<1>7. \A k \in Lines : sync_event'[k] # e
  BY <1>1, <1>2, <1>6 DEF SchedInv, StatusOK
<1>8. StatusOK'
  <2>1. UNCHANGED <<delay, queue, event_status>>
    BY <1>1
  <2> QED
    BY ONLY SchedInv, l \in Lines, <1>2, <1>4, <1>6, <1>7, <2>1, SchedAssumption
       DEF SchedInv, StatusOK, SchedAssumption
<1> QED
  BY <1>1, <1>4, <1>5, <1>8 DEF SchedInv

(* The tail of Int_AsynSignalSync. *)
LEMMA AsynSignalReturnInv == ASSUME SchedInv, AsynSignalReturn PROVE SchedInv'
<1>1. /\ event_status[running] = "ASYN_SIGNAL"
      /\ event_status' = [event_status EXCEPT ![running] = "READY"]
      /\ UNCHANGED <<ready, running, delay, remain, queue, sync_event, prio, prio_base, phase, isr>>
  BY DEF AsynSignalReturn
<1>2. running \in Events /\ running \in Elements(ready)
  BY RunningFacts
<1>3. \A l \in Lines : sync_event[l] # running
  BY <1>1, <1>2 DEF SchedInv, StatusOK
<1>4. /\ event_status' \in [Events -> Statuses] /\ event_status'[running] = "READY"
      /\ \A e \in Events \ {running} : event_status'[e] = event_status[e]
  BY <1>1, <1>2 DEF SchedInv, StatusOK, Statuses
<1>5. StatusOK'
  <2>1. UNCHANGED <<ready, delay, queue, sync_event>>
    BY <1>1
  <2> QED
    BY ONLY SchedInv, <1>1, <1>2, <1>3, <1>4, <2>1, SchedAssumption
       DEF SchedInv, StatusOK, Timed, Waiting, SchedAssumption
<1>6. RunningOK'
  BY <1>1 DEF SchedInv, RunningOK
<1> QED
  BY <1>1, <1>5, <1>6 DEF SchedInv
--------------------------------------------------------------------------------
(* Every step of the scheduler keeps the inductive invariant. *)
LEMMA SchedStep == SchedInv /\ [Next]_schedVars => SchedInv'
<1> SUFFICES ASSUME SchedInv, [Next]_schedVars PROVE SchedInv'
  OBVIOUS
<1>1. CASE Yield
  BY <1>1, YieldInv
<1>2. ASSUME NEW t \in 1..MaxTicks, Delay(t) PROVE SchedInv'
  BY <1>2, DelayInv
<1>3. ASSUME NEW s \in Syncs, NEW t \in {Forever} \union 1..MaxTicks, Block(s, t) PROVE SchedInv'
  BY <1>3, BlockInv
<1>4. ASSUME NEW s \in Syncs, Wake(s) PROVE SchedInv'
  BY <1>4, WakeInv
<1>5. ASSUME NEW e \in Events, NEW p \in Prios, SetEventPrio(e, p) PROVE SchedInv'
  BY <1>5, SetEventPrioInv
<1>6. ASSUME NEW e \in Events, RaiseTempPrio(e) PROVE SchedInv'
  BY <1>6, RaiseTempPrioInv
<1>7. CASE RestorePrio
  BY <1>7, RestorePrioInv
<1>8. CASE TickBegin
  BY <1>8, TickBeginInv
<1>9. CASE TickWake
  BY <1>9, TickWakeInv
<1>10. CASE TickEnd
  BY <1>10, TickEndInv
<1>11. ASSUME NEW l \in Lines, AsynSignalSync(l) PROVE SchedInv'
  BY <1>11, AsynSignalSyncInv
<1>12. ASSUME NEW l \in Lines, EngineAsynSignal(l) PROVE SchedInv'
  BY <1>12, EngineAsynSignalInv
<1>13. CASE AsynSignalReturn
  BY <1>13, AsynSignalReturnInv
<1>14. CASE UNCHANGED schedVars
  BY <1>14 DEF schedVars, SchedInv, StatusOK, RunningOK
<1> QED
  BY <1>1, <1>2, <1>3, <1>4, <1>5, <1>6, <1>7, <1>8, <1>9, <1>10, <1>11, <1>12, <1>13, <1>14
     DEF Next

(* The inductive invariant holds of every behaviour of the scheduler. *)
THEOREM SchedInvariance == Spec => []SchedInv
  BY SchedInit, SchedStep, PTL DEF Spec
(* The variables of the scheduler keep their types. *)
LEMMA SchedInvTyped == SchedInv => TypeOK
<1> SUFFICES ASSUME SchedInv PROVE TypeOK
  OBVIOUS
<1>1. /\ prio \in [Events -> Prios \union {ServicePrio}]
      /\ prio_base \in [Events -> Prios \union {ServicePrio}]
  BY DEF SchedInv, PrioOK
<1>2. running \in Events
  BY RunningFacts
<1>3. ready \in Seq(Events) /\ delay \in Seq(Events) /\ queue \in [Syncs -> Seq(Events)]
  BY DEF SchedInv, ReadyOK, DelayOK, QueuesOK
<1>4. remain \in [Events -> 0..MaxTicks]
  BY DEF SchedInv, DelayOK
<1>5. isr \in BOOLEAN /\ phase \in Nat
  BY DEF SchedInv, RunningOK
<1> QED
  BY <1>1, <1>2, <1>3, <1>4, <1>5 DEF SchedInv, StatusOK, TypeOK

(* Type correctness: no operation links anything but an event, gives an      *)
(* event a priority that is none, or lets an alarm run below zero.           *)
THEOREM SchedTypeCorrect == Spec => []TypeOK
  BY SchedInvariance, SchedInvTyped, PTL

(* The queues an event is in determine its status and are determined by it. *)
LEMMA SchedInvOnePlace == SchedInv => OnePlace
<1> SUFFICES ASSUME SchedInv PROVE OnePlace
  OBVIOUS
<1>1. /\ NoDuplicates(ready) /\ NoDuplicates(delay)
      /\ \A s \in Syncs : NoDuplicates(queue[s])
  BY DEF SchedInv, ReadyOK, DelayOK, QueuesOK
<1>2. ASSUME NEW e \in Events
      PROVE  LET waits == {s \in Syncs : e \in Elements(queue[s])}
                 lines == {l \in Lines : sync_event[l] = e}
             IN  /\ e \in Elements(delay) <=> event_status[e] \in {"DELAY", "WAIT_TIMEOUT"}
                 /\ Cardinality(waits)
                      = IF event_status[e] \in {"WAIT", "WAIT_TIMEOUT"} THEN 1 ELSE 0
                 /\ e \in Elements(ready)
                      <=> \/ event_status[e] = "READY"
                          \/ event_status[e] = "ASYN_SIGNAL" /\ lines = {}
                 /\ Cardinality(lines) <= 1
                 /\ lines # {} => event_status[e] = "ASYN_SIGNAL"
  <2> DEFINE waits == {s \in Syncs : e \in Elements(queue[s])}
             lines == {l \in Lines : sync_event[l] = e}
  <2>1. e \in Elements(delay) <=> event_status[e] \in {"DELAY", "WAIT_TIMEOUT"}
    BY DEF SchedInv, StatusOK, Timed
  <2>2. \A s, r \in waits : s = r
    BY DEF SchedInv, QueuesOK
  <2>3. event_status[e] \in {"WAIT", "WAIT_TIMEOUT"} <=> waits # {}
    BY DEF SchedInv, StatusOK, Waiting
  <2>4. Cardinality(waits) = IF event_status[e] \in {"WAIT", "WAIT_TIMEOUT"} THEN 1 ELSE 0
    <3>1. CASE waits = {}
      BY <2>3, <3>1, FS_EmptySet
    <3>2. CASE waits # {}
      <4>1. \E s : waits = {s}
        BY <2>2, <3>2
      <4> QED
        BY <2>3, <3>2, <4>1, FS_Singleton
    <3> QED
      BY <3>1, <3>2
  <2>5. e \in Elements(ready)
          <=> \/ event_status[e] = "READY"
              \/ event_status[e] = "ASYN_SIGNAL" /\ lines = {}
    BY DEF SchedInv, StatusOK
  <2>6. lines # {} => event_status[e] = "ASYN_SIGNAL"
    BY SchedAssumption DEF SchedInv, StatusOK, SchedAssumption
  <2>7. \A l, k \in lines : l = k
    BY SchedAssumption DEF SchedInv, StatusOK, SchedAssumption
  <2>8. Cardinality(lines) <= 1
    <3>1. CASE lines = {}
      BY <3>1, FS_EmptySet
    <3>2. CASE lines # {}
      <4>1. \E l : lines = {l}
        BY <2>7, <3>2
      <4> QED
        BY <4>1, FS_Singleton
    <3> QED
      BY <3>1, <3>2
  <2> QED
    BY <2>1, <2>4, <2>5, <2>6, <2>8
<1> QED
  BY <1>1, <1>2 DEF OnePlace

(* Every control block is linked exactly where its status says, and once,   *)
(* whatever timeouts, posts and interrupts race.                            *)
THEOREM EveryEventHasOnePlace == Spec => []OnePlace
  BY SchedInvariance, SchedInvOnePlace, PTL

(* The position of the running event. *)
LEMMA SchedInvRunning == SchedInv => RunningIsFirst
<1> SUFFICES ASSUME SchedInv PROVE RunningIsFirst
  OBVIOUS
<1>1. PICK p \in 1..Len(ready) :
        /\ ready[p] = running /\ (~isr => p = 1)
        /\ \A i \in 1..(p - 1) : prio[ready[i]] < prio[running]
  BY DEF SchedInv, RunningOK
<1>2. PosOf(ready, running) = p
  BY <1>1 DEF SchedInv, ReadyOK, NoDuplicates, PosOf
<1>3. SortedBy(ready, prio) /\ ready[Len(ready)] = Service /\ ready \in Seq(Events) /\ Len(ready) > 0
  BY DEF SchedInv, ReadyOK
<1>4. Head(ready) = ready[1]
  BY <1>3
<1>5. running \in Elements(ready)
  BY <1>1 DEF Elements
<1> QED
  BY <1>1, <1>2, <1>3, <1>4, <1>5 DEF RunningIsFirst

(* Outside the tick the head of the sorted ready queue runs; inside it the   *)
(* interrupted event is still the first of its priority.                     *)
THEOREM DispatchIsByPriority == Spec => []RunningIsFirst
  BY SchedInvariance, SchedInvRunning, PTL

(* Djy_IsrTick may look at the head of the alarm queue only: no alarm is     *)
(* ever overdue behind it.                                                   *)
THEOREM AlarmsAreOnTime == Spec => []NoMissedAlarm
<1>1. SchedInv => NoMissedAlarm
  BY DEF SchedInv, DelayOK, NoMissedAlarm, Elements
<1> QED
  BY <1>1, SchedInvariance, PTL

(* Block queues in priority order stay sorted although priorities change:    *)
(* only ready events change theirs.                                          *)
THEOREM PriorityQueuesSorted == Spec => []BlockQueuesSorted
<1>1. SchedInv => BlockQueuesSorted
  BY DEF SchedInv, QueuesOK, BlockQueuesSorted
<1> QED
  BY <1>1, SchedInvariance, PTL
================================================================================
