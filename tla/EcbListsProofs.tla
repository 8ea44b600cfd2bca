---------------------------- MODULE EcbListsProofs ---------------------------
(***************************************************************************)
(* The linked lists of djyos.c implement the queues of EventSched, for any *)
(* number of events, block queues, interrupt lines and priorities: every   *)
(* list operation, pointer by pointer, does what the operation on the      *)
(* sequence says, and no two lists that share a pair of pointers ever get  *)
(* entangled.                                                              *)
(***************************************************************************)
EXTENDS EcbLists, FiniteSetTheorems, SequenceTheorems, WellFoundedInduction, TLAPS

(* The scheduler over sequences, with what is proved about it. *)
Abs == INSTANCE EventSchedProofs WITH
         ready <- ReadyQueue, delay <- AlarmQueue, queue <- BlockQueue

(* The assumptions under which that is proved hold here. *)
LEMMA AbsAssumption == Abs!SchedAssumption
<1>1. IsFiniteSet(Events) => Abs!IsFiniteSet(Events)
  BY DEF IsFiniteSet, Abs!IsFiniteSet
<1> QED
  BY <1>1, EcbAssumption DEF EcbAssumption, Abs!SchedAssumption

(***************************************************************************)
(* Induction, over a set of numbers.                                       *)
(***************************************************************************)
LEMMA UpTo ==
  ASSUME NEW n \in Nat, NEW T \in SUBSET (0..n), 0 \in T,
         \A k \in T : k < n => k + 1 \in T
  PROVE  T = 0..n
<1> SUFFICES ASSUME (0..n) \ T # {} PROVE FALSE
  OBVIOUS
<1> DEFINE U == (0..n) \ T
<1>1. U \in SUBSET Nat /\ U # {}
  OBVIOUS
<1>2. PICK m \in U : \A k \in U : m <= k
  BY <1>1, AbsAssumption, Abs!Least DEF Abs!SchedAssumption
<1>3. m \in Nat /\ m # 0 /\ m <= n /\ m - 1 \in 0..n
  BY <1>2
<1>4. m - 1 \in T
  BY <1>2, <1>3
<1> QED
  BY <1>2, <1>3, <1>4
--------------------------------------------------------------------------------
(***************************************************************************)
(* A circular list, by the sequence of its events.                         *)
(***************************************************************************)
Succ(q, i) == IF i = Len(q) THEN 1 ELSE i + 1
Pred(q, i) == IF i = 1 THEN Len(q) ELSE i - 1

IsQueue(q) == q \in Seq(Events) /\ Abs!NoDuplicates(q)

IsRing(nxt, prv, q) ==
  \A i \in 1..Len(q) : nxt[q[i]] = q[Succ(q, i)] /\ prv[q[i]] = q[Pred(q, i)]

(* The places of a queue. *)
LEMMA Places ==
  ASSUME NEW q, IsQueue(q)
  PROVE  /\ Len(q) \in Nat
         /\ \A i \in 1..Len(q) :
              /\ q[i] \in Events /\ q[i] \in Abs!Elements(q)
              /\ Succ(q, i) \in 1..Len(q) /\ Pred(q, i) \in 1..Len(q)
              /\ Pred(q, Succ(q, i)) = i /\ Succ(q, Pred(q, i)) = i
         /\ \A i, j \in 1..Len(q) : q[i] = q[j] => i = j
         /\ \A e \in Abs!Elements(q) : \E i \in 1..Len(q) : q[i] = e
         /\ Abs!Elements(q) \subseteq Events
  BY DEF IsQueue, Abs!NoDuplicates, Abs!Elements, Succ, Pred

(* Links that are not touched. *)
LEMMA SameRing ==
  ASSUME NEW nxt, NEW prv, NEW n2, NEW p2, NEW q, IsRing(nxt, prv, q),
         \A e \in Abs!Elements(q) : n2[e] = nxt[e] /\ p2[e] = prv[e]
  PROVE  IsRing(n2, p2, q)
  BY DEF IsRing, Abs!Elements

(* Where an event is linked so that it becomes the p-th. *)
Before(q, p) == IF p = Len(q) + 1 THEN q[1] ELSE q[p]

(***************************************************************************)
(* The four assignments that link e in front of x.  In front of the first  *)
(* event is also behind the last one.                                      *)
(***************************************************************************)
LEMMA LinkRing ==
  ASSUME NEW nxt, NEW prv, NEW q, IsQueue(q), IsRing(nxt, prv, q), Len(q) > 0,
         NEW e \in Events, e \notin Abs!Elements(q), NEW p \in 1..(Len(q) + 1),
         NEW n2, NEW p2, NEW x, NEW y, x = Before(q, p), y = prv[x],
         n2[e] = x, n2[y] = e, p2[e] = y, p2[x] = e,
         \A z \in Abs!Elements(q) : /\ z # y => n2[z] = nxt[z]
                                    /\ z # x => p2[z] = prv[z]
  PROVE  IsRing(n2, p2, Abs!InsertAtPos(q, p, e))
<1> DEFINE r == Abs!InsertAtPos(q, p, e)
           b == IF p = 1 THEN Len(q) ELSE p - 1
           a == IF p = Len(q) + 1 THEN 1 ELSE p
<1>1. /\ Len(q) \in Nat /\ p \in Nat
      /\ r \in Seq(Events) /\ Len(r) = Len(q) + 1
      /\ \A i \in 1..Len(r) : r[i] = IF i < p THEN q[i] ELSE IF i = p THEN e ELSE q[i - 1]
  BY AbsAssumption, Abs!InsertAt DEF IsQueue, Abs!SchedAssumption
<1> HIDE DEF r
<1>2. a \in 1..Len(q) /\ b \in 1..Len(q) /\ x = q[a] /\ y = q[b]
  BY <1>1 DEF Before, IsRing, Pred
<1>3. /\ \A i, j \in 1..Len(q) : q[i] = q[j] => i = j
      /\ \A i \in 1..Len(q) : q[i] \in Abs!Elements(q)
  BY SMTT(60), Places
<1>4. \A i \in 1..Len(q) : /\ i # b => n2[q[i]] = q[Succ(q, i)]
                           /\ i # a => p2[q[i]] = q[Pred(q, i)]
  BY SMTT(60), <1>2, <1>3 DEF IsRing
<1>5. n2[q[b]] = e /\ n2[e] = q[a] /\ p2[q[a]] = e /\ p2[e] = q[b]
  BY <1>2
<1>6. ASSUME NEW i \in 1..Len(r) PROVE n2[r[i]] = r[Succ(r, i)]
  <2>1. CASE i = p
    BY SMTT(60), <1>1, <1>2, <1>5, <2>1 DEF Succ
  <2>2. CASE i < p
    <3>1. i \in 1..Len(q) /\ r[i] = q[i]
      BY <1>1, <2>2
    <3>2. CASE i = p - 1
      BY <1>1, <1>5, <2>2, <3>1, <3>2 DEF Succ
    <3>3. CASE i # p - 1
      BY <1>1, <1>4, <2>2, <3>1, <3>3 DEF Succ
    <3> QED
      BY <3>2, <3>3
  <2>3. CASE i > p
    <3>1. i - 1 \in 1..Len(q) /\ r[i] = q[i - 1]
      BY <1>1, <2>3
    <3>2. CASE i = Len(r)
      BY SMTT(60), <1>1, <1>4, <1>5, <2>3, <3>1, <3>2 DEF Succ
    <3>3. CASE i # Len(r)
      <4>1. /\ i - 1 # b /\ Succ(q, i - 1) = i
            /\ i + 1 \in 1..Len(r) /\ ~(i + 1 < p) /\ i + 1 # p /\ Succ(r, i) = i + 1
        BY <1>1, <2>3, <3>3 DEF Succ
      <4>2. n2[r[i]] = q[i]
        BY SMTT(60), <1>4, <3>1, <4>1
      <4>3. r[i + 1] = q[i]
        BY <1>1, <4>1
      <4> QED
        BY <4>1, <4>2, <4>3
    <3> QED
      BY <3>2, <3>3
  <2> QED
    BY <1>1, <2>1, <2>2, <2>3
<1>7. ASSUME NEW i \in 1..Len(r) PROVE p2[r[i]] = r[Pred(r, i)]
  <2>1. CASE i = p
    BY SMTT(60), <1>1, <1>2, <1>5, <2>1 DEF Pred
  <2>2. CASE i < p
    <3>1. i \in 1..Len(q) /\ r[i] = q[i]
      BY <1>1, <2>2
    <3>2. CASE i = 1
      BY SMTT(60), <1>1, <1>4, <1>5, <2>2, <3>1, <3>2 DEF Pred
    <3>3. CASE i # 1
      BY SMTT(60), <1>1, <1>4, <2>2, <3>1, <3>3 DEF Pred
    <3> QED
      BY <3>2, <3>3
  <2>3. CASE i > p
    <3>1. i - 1 \in 1..Len(q) /\ r[i] = q[i - 1]
      BY <1>1, <2>3
    <3>2. CASE i = p + 1
      BY SMTT(60), <1>1, <1>5, <2>3, <3>1, <3>2 DEF Pred
    <3>3. CASE i # p + 1
      <4>1. /\ i - 1 # a /\ Pred(q, i - 1) = i - 2
            /\ i - 1 \in 1..Len(r) /\ ~(i - 1 < p) /\ i - 1 # p /\ Pred(r, i) = i - 1
        BY <1>1, <2>3, <3>3 DEF Pred
      <4>2. p2[r[i]] = q[i - 2]
        BY SMTT(60), <1>4, <3>1, <4>1
      <4>3. r[i - 1] = q[i - 2]
        BY SMTT(60), <1>1, <4>1
      <4> QED
        BY <4>1, <4>2, <4>3
    <3> QED
      BY <3>2, <3>3
  <2> QED
    BY <1>1, <2>1, <2>2, <2>3
<1> QED
  BY <1>6, <1>7 DEF IsRing, r

(* The two assignments that unlink the p-th event of several. *)
LEMMA UnlinkRing ==
  ASSUME NEW nxt, NEW prv, NEW q, IsQueue(q), IsRing(nxt, prv, q), Len(q) > 1,
         NEW p \in 1..Len(q), NEW n2, NEW p2,
         n2[prv[q[p]]] = nxt[q[p]], p2[nxt[q[p]]] = prv[q[p]],
         \A z \in Abs!Elements(q) \ {q[p]} :
           /\ z # prv[q[p]] => n2[z] = nxt[z]
           /\ z # nxt[q[p]] => p2[z] = prv[z]
  PROVE  IsRing(n2, p2, Abs!CutFrom(q, q[p]))
<1> DEFINE r == Abs!CutFrom(q, q[p])
           b == Pred(q, p)
           a == Succ(q, p)
<1>1. /\ Len(q) \in Nat /\ p \in Nat
      /\ \A i, j \in 1..Len(q) : q[i] = q[j] => i = j
      /\ \A i \in 1..Len(q) : q[i] \in Abs!Elements(q)
      /\ a \in 1..Len(q) /\ b \in 1..Len(q)
  BY Places DEF Succ, Pred
<1>2. (CHOOSE i \in 1..Len(q) : q[i] = q[p]) = p
  BY <1>1
<1>3. /\ Len(r) = Len(q) - 1
      /\ \A i \in 1..Len(r) : r[i] = IF i < p THEN q[i] ELSE q[i + 1]
  BY SMTT(60), <1>1, <1>2 DEF Abs!CutFrom
<1> HIDE DEF r
<1>4. n2[q[b]] = q[a] /\ p2[q[a]] = q[b]
  BY DEF IsRing
<1>5. Len(q) \in Nat /\ p \in 1..Len(q) /\ Len(r) = Len(q) - 1
  BY <1>1, <1>3
<1>6. \A i \in 1..Len(q) : i # p =>
        /\ i # b => n2[q[i]] = q[Succ(q, i)]
        /\ i # a => p2[q[i]] = q[Pred(q, i)]
  BY SMTT(60), <1>1 DEF IsRing
<1>7. ASSUME NEW i \in 1..Len(r) PROVE n2[r[i]] = r[Succ(r, i)]
  <2>1. CASE i < p
    <3>1. i \in 1..Len(q) /\ r[i] = q[i]
      BY <1>1, <1>3, <2>1
    <3>2. CASE i = p - 1
      BY SMTT(60), <1>1, <1>3, <1>4, <2>1, <3>1, <3>2 DEF Succ, Pred
    <3>3. CASE i # p - 1
      <4>1. /\ i # p /\ i # b /\ Succ(q, i) = i + 1
            /\ i + 1 \in 1..Len(r) /\ i + 1 < p /\ Succ(r, i) = i + 1
        BY <1>5, <2>1, <3>3 DEF Succ, Pred
      <4>2. n2[r[i]] = q[i + 1]
        BY <1>6, <3>1, <4>1
      <4>3. r[i + 1] = q[i + 1]
        BY SMTT(60), <1>1, <1>3, <4>1
      <4> QED
        BY <4>1, <4>2, <4>3
    <3> QED
      BY <3>2, <3>3
  <2>2. CASE i >= p
    <3>1. i + 1 \in 1..Len(q) /\ r[i] = q[i + 1]
      BY <1>1, <1>3, <2>2
    <3>2. CASE i = Len(r)
      BY SMTT(60), <1>1, <1>3, <1>4, <1>6, <2>2, <3>1, <3>2 DEF Succ, Pred
    <3>3. CASE i # Len(r)
      <4>1. /\ i + 1 # p /\ i + 1 # b /\ Succ(q, i + 1) = i + 2
            /\ i + 1 \in 1..Len(r) /\ ~(i + 1 < p) /\ Succ(r, i) = i + 1
        BY <1>5, <2>2, <3>3 DEF Succ, Pred
      <4>2. n2[r[i]] = q[i + 2]
        BY <1>6, <3>1, <4>1
      <4>3. r[i + 1] = q[i + 2]
        BY SMTT(60), <1>1, <1>3, <4>1
      <4> QED
        BY <4>1, <4>2, <4>3
    <3> QED
      BY <3>2, <3>3
  <2> QED
    BY <1>1, <1>3, <2>1, <2>2
<1>8. ASSUME NEW i \in 1..Len(r) PROVE p2[r[i]] = r[Pred(r, i)]
  <2>1. CASE i < p
    <3>1. i \in 1..Len(q) /\ r[i] = q[i]
      BY <1>1, <1>3, <2>1
    <3>2. CASE i = 1
      BY <1>1, <1>3, <1>4, <1>6, <2>1, <3>1, <3>2 DEF Succ, Pred
    <3>3. CASE i # 1
      <4>1. /\ i # p /\ i # a /\ Pred(q, i) = i - 1
            /\ i - 1 \in 1..Len(r) /\ i - 1 < p /\ Pred(r, i) = i - 1
        BY <1>5, <2>1, <3>3 DEF Succ, Pred
      <4>2. p2[r[i]] = q[i - 1]
        BY <1>6, <3>1, <4>1
      <4>3. r[i - 1] = q[i - 1]
        BY SMTT(60), <1>1, <1>3, <4>1
      <4> QED
        BY <4>1, <4>2, <4>3
    <3> QED
      BY <3>2, <3>3
  <2>2. CASE i >= p
    <3>1. i + 1 \in 1..Len(q) /\ r[i] = q[i + 1]
      BY <1>1, <1>3, <2>2
    <3>2. CASE i = p
      BY <1>1, <1>3, <1>4, <2>2, <3>1, <3>2 DEF Succ, Pred
    <3>3. CASE i # p
      <4>1. /\ i + 1 # p /\ i + 1 # a /\ Pred(q, i + 1) = i
            /\ i - 1 \in 1..Len(r) /\ ~(i - 1 < p) /\ Pred(r, i) = i - 1
        BY <1>5, <2>2, <3>3 DEF Succ, Pred
      <4>2. p2[r[i]] = q[i]
        BY <1>6, <3>1, <4>1
      <4>3. r[i - 1] = q[i]
        BY <1>1, <1>3, <4>1
      <4> QED
        BY <4>1, <4>2, <4>3
    <3> QED
      BY <3>2, <3>3
  <2> QED
    BY <1>1, <1>3, <2>1, <2>2
<1> QED
  BY SMTT(60), <1>7, <1>8 DEF IsRing, r

(* The event e takes the place of the p-th of several. *)
LEMMA ReplaceRing ==
  ASSUME NEW nxt, NEW prv, NEW q, IsQueue(q), IsRing(nxt, prv, q), Len(q) > 1,
         NEW p \in 1..Len(q), NEW e, e \notin Abs!Elements(q), NEW n2, NEW p2,
         n2[prv[q[p]]] = e, n2[e] = nxt[q[p]], p2[e] = prv[q[p]], p2[nxt[q[p]]] = e,
         \A z \in Abs!Elements(q) \ {q[p]} :
           /\ z # prv[q[p]] => n2[z] = nxt[z]
           /\ z # nxt[q[p]] => p2[z] = prv[z]
  PROVE  IsRing(n2, p2, [q EXCEPT ![p] = e])
<1> DEFINE r == [q EXCEPT ![p] = e]
           b == Pred(q, p)
           a == Succ(q, p)
<1>1. /\ Len(q) \in Nat /\ p \in Nat
      /\ \A i, j \in 1..Len(q) : q[i] = q[j] => i = j
      /\ \A i \in 1..Len(q) : q[i] \in Abs!Elements(q)
      /\ a \in 1..Len(q) /\ b \in 1..Len(q) /\ a # p /\ b # p
  BY Places DEF Succ, Pred
<1>2. Len(r) = Len(q) /\ \A i \in 1..Len(q) : r[i] = IF i = p THEN e ELSE q[i]
  BY DEF IsQueue
<1> HIDE DEF r
<1>3. n2[q[b]] = e /\ n2[e] = q[a] /\ p2[e] = q[b] /\ p2[q[a]] = e
  BY DEF IsRing
<1>4. \A i \in 1..Len(q) : i # p =>
        /\ i # b => n2[q[i]] = q[Succ(q, i)]
        /\ i # a => p2[q[i]] = q[Pred(q, i)]
  BY SMTT(60), <1>1 DEF IsRing
<1>5. \A i \in 1..Len(q) : /\ Succ(r, i) = Succ(q, i) /\ Pred(r, i) = Pred(q, i)
                           /\ Succ(q, i) = p <=> i = b
                           /\ Pred(q, i) = p <=> i = a
                           /\ Succ(q, i) \in 1..Len(q) /\ Pred(q, i) \in 1..Len(q)
  BY <1>1, <1>2 DEF Succ, Pred
<1>6. ASSUME NEW i \in 1..Len(r)
      PROVE  n2[r[i]] = r[Succ(r, i)] /\ p2[r[i]] = r[Pred(r, i)]
  <2> DEFINE c == Succ(q, i)
             d == Pred(q, i)
  <2>1. /\ i \in 1..Len(q) /\ Succ(r, i) = c /\ Pred(r, i) = d
        /\ c \in 1..Len(q) /\ d \in 1..Len(q)
        /\ (c = p <=> i = b) /\ (d = p <=> i = a)
    BY <1>2, <1>5
  <2>2. i # p => /\ i # b => n2[q[i]] = q[c]
                 /\ i # a => p2[q[i]] = q[d]
    BY <1>4, <2>1
  <2>3. i = p => c = a /\ d = b
    OBVIOUS
  <2> HIDE DEF a, b, c, d
  <2>4. CASE i = p
    BY <1>1, <1>2, <1>3, <2>1, <2>3, <2>4
  <2>5. CASE i # p
    BY <1>1, <1>2, <1>3, <2>1, <2>2, <2>5
  <2> QED
    BY <2>4, <2>5
<1> QED
  BY <1>6 DEF IsRing, r
--------------------------------------------------------------------------------
(* No queue is longer than there are events. *)
LEMMA QueueFits ==
  ASSUME NEW q, IsQueue(q)
  PROVE  Len(q) \in Nat /\ Cardinality(Events) \in Nat /\ Len(q) <= Cardinality(Events)
<1> DEFINE T == Abs!Elements(q)
<1>1. Len(q) \in Nat /\ q \in [1..Len(q) -> T] /\ T \subseteq Events
  BY DEF IsQueue, Abs!Elements
<1>2. q \in Bijection(1..Len(q), T)
  BY <1>1 DEF Bijection, Injection, Surjection, IsInjective, IsQueue, Abs!NoDuplicates, Abs!Elements
<1>3. IsFiniteSet(1..Len(q)) /\ Cardinality(1..Len(q)) = Len(q)
  BY SMTT(60), <1>1, FS_Interval
<1>4. IsFiniteSet(T) /\ Cardinality(T) = Len(q)
  BY <1>2, <1>3, FS_Bijection DEF ExistsBijection
<1>5. IsFiniteSet(Events)
  BY EcbAssumption DEF EcbAssumption
<1>6. Cardinality(T) <= Cardinality(Events)
  BY <1>1, <1>5, FS_Subset
<1>7. Cardinality(Events) \in Nat
  BY <1>5, FS_CardinalityType
<1> QED
  BY <1>1, <1>4, <1>6, <1>7

(***************************************************************************)
(* The refinement mapping reads a ring back as the sequence of its events. *)
(***************************************************************************)
LEMMA UnrollIs ==
  ASSUME NEW nxt, NEW prv, NEW q, IsQueue(q), IsRing(nxt, prv, q), Len(q) > 0
  PROVE  Unroll(nxt, q[1]) = q
<1> DEFINE n == Cardinality(Events) + 1
           At(k) == IF k <= Len(q) THEN q[k] ELSE q[1]
           Over(k, y) == y = NULL \/ (k > 1 /\ y = q[1])
           Step(x, k) == IF k = 1 THEN q[1]
                         ELSE IF Over(k - 1, x[k - 1]) THEN x[k - 1] ELSE nxt[x[k - 1]]
           Is(x) == x = [k \in 1..n |-> Step(x, k)]
           path == CHOOSE x : Is(x)
           Ends(x, m) == /\ \A k \in 1..m : ~Over(k, x[k])
                         /\ m = n \/ Over(m + 1, x[m + 1])
           len == CHOOSE m \in 0..n : Ends(path, m)
<1>1. Unroll(nxt, q[1]) = [k \in 1..len |-> path[k]]
  BY DEF Unroll
<1>2. /\ Len(q) \in Nat /\ n \in Nat /\ Len(q) + 1 <= n
      /\ \A i \in 1..Len(q) : q[i] # NULL /\ nxt[q[i]] = q[Succ(q, i)]
      /\ \A i, j \in 1..Len(q) : q[i] = q[j] => i = j
      /\ q = [i \in 1..Len(q) |-> q[i]]
  <2>1. Len(q) \in Nat /\ n \in Nat /\ Len(q) + 1 <= n
    BY QueueFits
  <2>2. \A i \in 1..Len(q) : q[i] \in Events /\ nxt[q[i]] = q[Succ(q, i)]
    BY Places DEF IsRing
  <2>3. \A i, j \in 1..Len(q) : q[i] = q[j] => i = j
    BY Places
  <2>4. NULL \notin Events
    BY EcbAssumption DEF EcbAssumption
  <2>5. q = [i \in 1..Len(q) |-> q[i]]
    BY DEF IsQueue
  <2> QED
    BY <2>1, <2>2, <2>3, <2>4, <2>5
<1> HIDE DEF n
<1>3. ASSUME NEW k \in 1..n
      PROVE  /\ ~Over(k, At(k)) <=> k <= Len(q)
             /\ k > 1 => At(k) = IF Over(k - 1, At(k - 1)) THEN At(k - 1) ELSE nxt[At(k - 1)]
  BY <1>2 DEF Succ
<1> HIDE DEF Over
<1>4. Is([k \in 1..n |-> At(k)])
  <2> DEFINE x == [k \in 1..n |-> At(k)]
  <2>1. ASSUME NEW k \in 1..n PROVE At(k) = Step(x, k)
    <3>1. CASE k = 1
      BY <1>2, <3>1
    <3>2. CASE k # 1
      <4>1. k - 1 \in 1..n /\ x[k - 1] = At(k - 1)
        BY <1>2, <3>2
      <4> QED
        BY <1>3, <3>2, <4>1
    <3> QED
      BY <3>1, <3>2
  <2>2. [k \in 1..n |-> At(k)] = [k \in 1..n |-> Step(x, k)]
    <3> HIDE DEF x, At, Step
    <3> QED
      BY <2>1
  <2> QED
    BY SMTT(60), <2>2
<1>5. Is(path)
  <2> HIDE DEF Is
  <2> QED
    BY <1>4, Zenon
<1> HIDE DEF path
<1>6. \A k \in 1..n : path[k] = Step(path, k)
  BY <1>5, Zenon
<1> HIDE DEF At
<1>7. \A k \in 1..n : path[k] = At(k)
  <2> DEFINE T == {m \in 0..(n - 1) : path[m + 1] = At(m + 1)}
  <2>1. 0 \in T
    BY <1>2, <1>6 DEF At
  <2>2. ASSUME NEW m \in T, m < n - 1 PROVE m + 1 \in T
    <3>1. /\ m + 2 \in 1..n /\ m + 2 > 1 /\ (m + 2) - 1 = m + 1 /\ path[m + 1] = At(m + 1)
          /\ m + 1 \in 0..(n - 1) /\ (m + 1) + 1 = m + 2
      BY <1>2, <2>2
    <3>2. path[m + 2] = IF Over(m + 1, path[m + 1]) THEN path[m + 1] ELSE nxt[path[m + 1]]
      BY <1>6, <3>1
    <3>3. At(m + 2) = IF Over(m + 1, At(m + 1)) THEN At(m + 1) ELSE nxt[At(m + 1)]
      BY <1>3, <3>1
    <3> QED
      BY <3>1, <3>2, <3>3
  <2>3. n - 1 \in Nat /\ T \in SUBSET (0..(n - 1))
    BY <1>2
  <2> HIDE DEF T
  <2>4. T = 0..(n - 1)
    BY <2>1, <2>2, <2>3, UpTo
  <2>5. ASSUME NEW k \in 1..n PROVE path[k] = At(k)
    <3>1. k - 1 \in T /\ (k - 1) + 1 = k
      BY <1>2, <2>4
    <3> QED
      BY <3>1 DEF T
  <2> QED
    BY <2>5
<1>8. \A m \in 0..n : Ends(path, m) <=> m = Len(q)
  <2>1. \A k \in 1..n : ~Over(k, path[k]) <=> k <= Len(q)
    BY <1>3, <1>7
  <2> QED
    BY <1>2, <2>1
<1>9. len = Len(q)
  BY <1>2, <1>8
<1> HIDE DEF len
<1>10. [k \in 1..len |-> path[k]] = [i \in 1..Len(q) |-> q[i]]
  <2>1. ASSUME NEW k \in 1..Len(q) PROVE path[k] = q[k]
    BY <1>2, <1>7 DEF At
  <2> QED
    BY <1>9, <2>1
<1> QED
  BY <1>1, <1>2, <1>10

(* An empty list. *)
LEMMA UnrollNone == ASSUME NEW nxt PROVE Unroll(nxt, NULL) = << >>
<1> DEFINE n == Cardinality(Events) + 1
           Over(k, y) == y = NULL \/ (k > 1 /\ y = NULL)
           Step(x, k) == IF k = 1 THEN NULL
                         ELSE IF Over(k - 1, x[k - 1]) THEN x[k - 1] ELSE nxt[x[k - 1]]
           Is(x) == x = [k \in 1..n |-> Step(x, k)]
           path == CHOOSE x : Is(x)
           Ends(x, m) == /\ \A k \in 1..m : ~Over(k, x[k])
                         /\ m = n \/ Over(m + 1, x[m + 1])
           len == CHOOSE m \in 0..n : Ends(path, m)
<1>1. Unroll(nxt, NULL) = [k \in 1..len |-> path[k]]
  BY DEF Unroll
<1>2. n \in Nat /\ n > 0
  BY FS_CardinalityType, EcbAssumption DEF EcbAssumption
<1>3. Is([k \in 1..n |-> NULL])
  <2> DEFINE x == [k \in 1..n |-> NULL]
  <2>1. \A k \in 1..n : Step(x, k) = NULL
    BY <1>2
  <2> HIDE DEF Step
  <2> QED
    BY <2>1
<1>4. Is(path)
  <2> HIDE DEF Is
  <2> QED
    BY <1>3, Zenon
<1> HIDE DEF path
<1>5. path[1] = NULL
  <2>1. \A k \in 1..n : path[k] = Step(path, k)
    BY <1>4, Zenon
  <2> QED
    BY <1>2, <2>1
<1> HIDE DEF n
<1>6. \A m \in 0..n : Ends(path, m) <=> m = 0
  BY <1>2, <1>5
<1>7. len = 0
  BY <1>2, <1>6
<1> HIDE DEF len
<1>8. Unroll(nxt, NULL) = [k \in 1..0 |-> path[k]]
  BY <1>1, <1>7
<1>9. 1..0 = {}
  OBVIOUS
<1> QED
  BY <1>8, <1>9

(***************************************************************************)
(* The search loops stop at the event in front of which InsertSorted puts  *)
(* the new one, the first event standing for the end of the list.          *)
(***************************************************************************)
LEMMA SearchFound ==
  ASSUME NEW nxt, NEW prv, NEW q, IsQueue(q), IsRing(nxt, prv, q), Len(q) > 0,
         NEW key, \A x \in Events : key[x] \in Nat, NEW e \in Events
  PROVE  /\ Abs!InsertPos(q, key, e) \in 1..(Len(q) + 1)
         /\ Search(nxt, q[1], key, e) = Before(q, Abs!InsertPos(q, key, e))
         /\ key[q[1]] > key[e] <=> Abs!InsertPos(q, key, e) = 1
<1> DEFINE n == Cardinality(Events)
           p == Abs!InsertPos(q, key, e)
           At(k) == Before(q, IF k + 1 <= p THEN k + 1 ELSE p)
           Step(x, k) ==
             IF k = 0 THEN q[1]
             ELSE IF key[x[k - 1]] <= key[e] /\ (k = 1 \/ x[k - 1] # q[1])
                  THEN nxt[x[k - 1]]
                  ELSE x[k - 1]
           Is(x) == x = [k \in 0..n |-> Step(x, k)]
           path == CHOOSE x : Is(x)
<1>1. Search(nxt, q[1], key, e) = path[n]
  BY DEF Search
<1>2. /\ p \in 1..(Len(q) + 1)
      /\ p = Len(q) + 1 \/ key[q[p]] > key[e]
      /\ \A i \in 1..(p - 1) : key[q[i]] <= key[e]
  BY AbsAssumption, Abs!InsertPosFound DEF IsQueue, Abs!SchedAssumption
<1>3. /\ Len(q) \in Nat /\ n \in Nat /\ Len(q) <= n
      /\ \A i \in 1..Len(q) : key[q[i]] \in Nat /\ nxt[q[i]] = q[Succ(q, i)]
      /\ \A i, j \in 1..Len(q) : q[i] = q[j] => i = j
      /\ key[e] \in Nat
  <2>1. Len(q) \in Nat /\ n \in Nat /\ Len(q) <= n
    BY QueueFits
  <2>2. \A i \in 1..Len(q) : q[i] \in Events /\ nxt[q[i]] = q[Succ(q, i)]
    BY Places DEF IsRing
  <2>3. \A i, j \in 1..Len(q) : q[i] = q[j] => i = j
    BY Places
  <2> QED
    BY <2>1, <2>2, <2>3
<1> HIDE DEF n, p
<1>4. ASSUME NEW k \in 1..n
      PROVE  At(k) = IF key[At(k - 1)] <= key[e] /\ (k = 1 \/ At(k - 1) # q[1])
                     THEN nxt[At(k - 1)]
                     ELSE At(k - 1)
  <2>1. CASE k < p
    <3>1. /\ k \in 1..Len(q) /\ At(k - 1) = q[k] /\ key[q[k]] <= key[e]
          /\ At(k) = q[Succ(q, k)] /\ (k = 1 \/ q[k] # q[1])
      BY SMTT(60), <1>2, <1>3, <2>1 DEF Before, Succ
    <3> QED
      BY SMTT(60), <1>3, <3>1
  <2>2. CASE k >= p
    <3>1. At(k - 1) = Before(q, p) /\ At(k) = Before(q, p)
      BY <1>2, <1>3, <2>2
    <3>2. CASE p = Len(q) + 1
      <4>1. Before(q, p) = q[1] /\ k # 1
        BY <1>2, <1>3, <2>2, <3>2 DEF Before
      <4> QED
        BY <3>1, <4>1
    <3>3. CASE p # Len(q) + 1
      <4>1. p \in 1..Len(q) /\ Before(q, p) = q[p] /\ key[q[p]] > key[e] /\ key[q[p]] \in Nat
        BY <1>2, <1>3, <3>3 DEF Before
      <4> QED
        BY <1>3, <3>1, <4>1
    <3> QED
      BY <3>2, <3>3
  <2> QED
    BY <1>2, <2>1, <2>2
<1>5. At(0) = q[1]
  BY <1>2, <1>3 DEF Before
<1> HIDE DEF At
<1>6. Is([k \in 0..n |-> At(k)])
  <2> DEFINE x == [k \in 0..n |-> At(k)]
  <2>1. ASSUME NEW k \in 0..n PROVE At(k) = Step(x, k)
    <3>1. CASE k = 0
      BY <1>5, <3>1
    <3>2. CASE k # 0
      <4>1. k \in 1..n /\ k - 1 \in 0..n /\ x[k - 1] = At(k - 1)
        BY <1>3, <3>2
      <4> QED
        BY <1>4, <3>2, <4>1
    <3> QED
      BY <3>1, <3>2
  <2>2. [k \in 0..n |-> At(k)] = [k \in 0..n |-> Step(x, k)]
    <3> HIDE DEF x, At, Step
    <3> QED
      BY <2>1
  <2> QED
    BY <2>2
<1>7. Is(path)
  <2> HIDE DEF Is
  <2> QED
    BY <1>6, Zenon
<1> HIDE DEF path
<1>8. \A k \in 0..n : path[k] = Step(path, k)
  BY <1>7, Zenon
<1>9. path[n] = At(n)
  <2> DEFINE T == {m \in 0..n : path[m] = At(m)}
  <2>1. 0 \in T
    BY <1>3, <1>5, <1>8
  <2>2. ASSUME NEW m \in T, m < n PROVE m + 1 \in T
    <3>1. m + 1 \in 1..n /\ m + 1 \in 0..n /\ (m + 1) - 1 = m /\ m + 1 # 0 /\ path[m] = At(m)
      BY <1>3, <2>2
    <3>2. path[m + 1] = IF key[path[m]] <= key[e] /\ (m + 1 = 1 \/ path[m] # q[1])
                        THEN nxt[path[m]] ELSE path[m]
      BY SMTT(60), <1>8, <3>1
    <3>3. At(m + 1) = IF key[At(m)] <= key[e] /\ (m + 1 = 1 \/ At(m) # q[1])
                      THEN nxt[At(m)] ELSE At(m)
      BY <1>4, <3>1
    <3> QED
      BY <3>1, <3>2, <3>3
  <2>3. T \in SUBSET (0..n)
    OBVIOUS
  <2> HIDE DEF T
  <2>4. T = 0..n
    BY <1>3, <2>1, <2>2, <2>3, UpTo
  <2>5. n \in T
    BY <1>3, <2>4
  <2> QED
    BY <2>5 DEF T
<1>10. At(n) = Before(q, p)
  <2>1. (IF n + 1 <= p THEN n + 1 ELSE p) = p
    BY <1>2, <1>3
  <2> QED
    BY <2>1 DEF At
<1>11. key[q[1]] > key[e] <=> p = 1
  BY <1>2, <1>3
<1> QED
  BY <1>1, <1>2, <1>9, <1>10, <1>11 DEF p
--------------------------------------------------------------------------------
(***************************************************************************)
(* The monotone ring: f holds the first event of each priority of r.       *)
(***************************************************************************)
IsFirst(pr, r, i) == i = 1 \/ pr[r[i - 1]] # pr[r[i]]

FirstsOf(pr, r, f) ==
  /\ IsQueue(f) /\ Len(f) > 0 /\ f[1] = r[1]
  /\ Abs!Elements(f) \subseteq Abs!Elements(r)
  /\ \A i, j \in 1..Len(f) : i < j => pr[f[i]] < pr[f[j]]
  /\ \A i \in 1..Len(r) : r[i] \in Abs!Elements(f) <=> IsFirst(pr, r, i)

(* What the proofs below use of the two queues. *)
LEMMA FirstsFacts ==
  ASSUME NEW pr, NEW r, NEW f, Abs!ReadyOK(r, pr), Abs!PrioOK(pr), FirstsOf(pr, r, f)
  PROVE  /\ IsQueue(r) /\ IsQueue(f) /\ Len(r) \in Nat /\ Len(f) \in Nat
         /\ Len(r) > 0 /\ Len(f) > 0 /\ f[1] = r[1]
         /\ r[Len(r)] = Service /\ \A x \in Events \ {Service} : pr[x] < pr[Service]
         /\ \A x \in Events : pr[x] \in Nat
         /\ \A i \in 1..Len(r) : r[i] \in Events /\ pr[r[i]] \in Nat
         /\ \A i \in 1..Len(f) : f[i] \in Events /\ pr[f[i]] \in Nat
         /\ \A i, j \in 1..Len(r) : i < j => pr[r[i]] <= pr[r[j]]
         /\ \A i, j \in 1..Len(r) : r[i] = r[j] => i = j
         /\ \A i, j \in 1..Len(f) : i < j => pr[f[i]] < pr[f[j]]
         /\ \A i \in 1..Len(f) : \E k \in 1..Len(r) : f[i] = r[k]
         /\ \A k \in 1..Len(r) : IsFirst(pr, r, k) <=> \E i \in 1..Len(f) : f[i] = r[k]
<1>1. IsQueue(r) /\ IsQueue(f) /\ Len(r) > 0 /\ Len(f) > 0 /\ f[1] = r[1] /\ r[Len(r)] = Service
  BY DEF Abs!ReadyOK, FirstsOf, IsQueue
<1>2. /\ Len(r) \in Nat /\ Len(f) \in Nat
      /\ \A i \in 1..Len(r) : r[i] \in Events
      /\ \A i \in 1..Len(f) : f[i] \in Events
      /\ \A i, j \in 1..Len(r) : r[i] = r[j] => i = j
  BY SMTT(60), <1>1, Places
<1>3. \A x \in Events : pr[x] \in Nat
  BY DEF Abs!PrioOK
<1>4. \A x \in Events \ {Service} : pr[x] < pr[Service]
  BY EcbAssumption DEF Abs!PrioOK, EcbAssumption
<1>5. \A i, j \in 1..Len(r) : i < j => pr[r[i]] <= pr[r[j]]
  BY DEF Abs!ReadyOK, Abs!SortedBy
<1>6. \A i, j \in 1..Len(f) : i < j => pr[f[i]] < pr[f[j]]
  BY DEF FirstsOf
<1>7. \A i \in 1..Len(f) : \E k \in 1..Len(r) : f[i] = r[k]
  BY DEF FirstsOf, Abs!Elements
<1>8. \A k \in 1..Len(r) : IsFirst(pr, r, k) <=> \E i \in 1..Len(f) : f[i] = r[k]
  BY DEF FirstsOf, Abs!Elements
<1> QED
  BY <1>1, <1>2, <1>3, <1>4, <1>5, <1>6, <1>7, <1>8

(***************************************************************************)
(* __Djy_EventReady walks the ring and not the ready queue: the place it   *)
(* finds is the one the whole queue would give, and never the end.         *)
(***************************************************************************)
LEMMA FirstsPlace ==
  ASSUME NEW pr, NEW r, NEW f, Abs!ReadyOK(r, pr), Abs!PrioOK(pr), FirstsOf(pr, r, f),
         NEW e \in Events \ {Service}
  PROVE  LET p == Abs!InsertPos(r, pr, e)
             j == Abs!InsertPos(f, pr, e)
         IN  /\ p \in 1..Len(r) /\ j \in 1..Len(f) /\ f[j] = r[p]
             /\ pr[r[p]] > pr[e] /\ \A i \in 1..(p - 1) : pr[r[i]] <= pr[e]
             /\ \A i \in 1..(j - 1) : pr[f[i]] <= pr[e]
<1> DEFINE p == Abs!InsertPos(r, pr, e)
           j == Abs!InsertPos(f, pr, e)
<1>1. /\ r \in Seq(Events) /\ f \in Seq(Events) /\ \A x \in Events : pr[x] \in Nat
  BY FirstsFacts DEF IsQueue
<1>2. /\ p \in 1..(Len(r) + 1)
      /\ p = Len(r) + 1 \/ pr[r[p]] > pr[e]
      /\ \A i \in 1..(p - 1) : pr[r[i]] <= pr[e]
  BY <1>1, AbsAssumption, Abs!InsertPosFound DEF Abs!SchedAssumption
<1>3. /\ j \in 1..(Len(f) + 1)
      /\ j = Len(f) + 1 \/ pr[f[j]] > pr[e]
      /\ \A i \in 1..(j - 1) : pr[f[i]] <= pr[e]
  BY <1>1, AbsAssumption, Abs!InsertPosFound DEF Abs!SchedAssumption
<1> HIDE DEF p, j
<1>4. pr[e] \in Nat /\ pr[e] < pr[Service] /\ Len(r) \in Nat /\ Len(f) \in Nat
  BY FirstsFacts
<1>5. p \in 1..Len(r) /\ pr[r[p]] > pr[e]
  <2>1. Len(r) > 0 /\ pr[r[Len(r)]] > pr[e]
    BY <1>4, FirstsFacts
  <2>2. p # Len(r) + 1
    <3> SUFFICES ASSUME p = Len(r) + 1 PROVE FALSE
      OBVIOUS
    <3>1. Len(r) \in 1..(p - 1)
      BY <1>4, <2>1
    <3>2. pr[r[Len(r)]] <= pr[e] /\ pr[r[Len(r)]] \in Nat
      BY <1>2, <1>4, <2>1, <3>1, FirstsFacts
    <3> QED
      BY <1>4, <2>1, <3>2
  <2> QED
    BY <1>2, <1>4, <2>2
<1>6. IsFirst(pr, r, p)
  BY <1>1, <1>2, <1>4, <1>5 DEF IsFirst
<1>7. PICK m \in 1..Len(f) : f[m] = r[p]
  BY <1>5, <1>6, FirstsFacts
<1>8. ASSUME NEW i \in 1..Len(f) PROVE i < m <=> pr[f[i]] <= pr[e]
  <2>1. PICK k \in 1..Len(r) : f[i] = r[k]
    BY FirstsFacts
  <2>2. pr[f[i]] \in Nat /\ pr[f[m]] \in Nat /\ pr[r[k]] \in Nat
    BY FirstsFacts
  <2>3. CASE i < m
    <3>1. pr[r[k]] < pr[r[p]]
      BY <1>7, <2>1, <2>3, FirstsFacts
    <3>2. ~(p < k) /\ p # k
      BY SMTT(60), <1>5, <2>2, <3>1, FirstsFacts
    <3>3. k \in 1..(p - 1)
      BY <1>4, <1>5, <3>2
    <3> QED
      BY <1>2, <2>1, <2>3, <3>3
  <2>4. CASE ~(i < m)
    <3>1. i = m \/ pr[f[m]] < pr[f[i]]
      BY <1>4, <2>4, FirstsFacts
    <3> QED
      BY SMTT(60), <1>4, <1>5, <1>7, <2>2, <2>4, <3>1
  <2> QED
    BY <2>3, <2>4
<1>9. j = m
  <2>1. ~(j < m)
    <3> SUFFICES ASSUME j < m PROVE FALSE
      OBVIOUS
    <3>1. j \in 1..Len(f) /\ pr[f[j]] > pr[e]
      BY <1>3, <1>4
    <3>2. pr[f[j]] <= pr[e] /\ pr[f[j]] \in Nat
      BY <1>8, <3>1, FirstsFacts
    <3> QED
      BY <1>4, <3>1, <3>2
  <2>2. ~(m < j)
    <3> SUFFICES ASSUME m < j PROVE FALSE
      OBVIOUS
    <3>1. m \in 1..(j - 1)
      BY <1>3, <1>4
    <3>2. pr[f[m]] <= pr[e]
      BY <1>3, <3>1
    <3> QED
      BY <1>4, <1>8, <3>2
  <2> QED
    BY <1>3, <1>4, <2>1, <2>2
<1> QED
  BY <1>2, <1>3, <1>5, <1>7, <1>9 DEF p, j

(* An event becomes ready: it enters the ring unless its priority is there. *)
LEMMA FirstsInsert ==
  ASSUME NEW pr, NEW r, NEW f, Abs!ReadyOK(r, pr), Abs!PrioOK(pr), FirstsOf(pr, r, f),
         NEW e \in Events \ {Service}, e \notin Abs!Elements(r)
  PROVE  LET p == Abs!InsertPos(r, pr, e)
         IN  FirstsOf(pr, Abs!InsertSorted(r, pr, e),
                      IF IsFirst(pr, Abs!InsertSorted(r, pr, e), p)
                      THEN Abs!InsertSorted(f, pr, e) ELSE f)
<1> DEFINE p == Abs!InsertPos(r, pr, e)
           j == Abs!InsertPos(f, pr, e)
           r2 == Abs!InsertSorted(r, pr, e)
           g == Abs!InsertSorted(f, pr, e)
           f2 == IF IsFirst(pr, r2, p) THEN g ELSE f
<1>1. /\ p \in 1..Len(r) /\ j \in 1..Len(f) /\ f[j] = r[p]
      /\ pr[r[p]] > pr[e] /\ \A i \in 1..(p - 1) : pr[r[i]] <= pr[e]
      /\ \A i \in 1..(j - 1) : pr[f[i]] <= pr[e]
  BY FirstsPlace
<1>2. /\ r \in Seq(Events) /\ f \in Seq(Events) /\ e \in Events
      /\ Len(r) \in Nat /\ Len(f) \in Nat
      /\ p \in 1..(Len(r) + 1) /\ j \in 1..(Len(f) + 1)
      /\ p \in 1..Len(r) /\ j \in 1..Len(f)
  BY <1>1, FirstsFacts DEF IsQueue
<1>3. /\ Len(r2) = Len(r) + 1
      /\ \A i \in 1..Len(r2) : r2[i] = IF i < p THEN r[i] ELSE IF i = p THEN e ELSE r[i - 1]
  BY <1>2, AbsAssumption, Abs!InsertAt DEF Abs!SchedAssumption, Abs!InsertSorted
<1>4. /\ Len(g) = Len(f) + 1
      /\ \A i \in 1..Len(g) : g[i] = IF i < j THEN f[i] ELSE IF i = j THEN e ELSE f[i - 1]
  BY SMTT(60), <1>2, AbsAssumption, Abs!InsertAt DEF Abs!SchedAssumption, Abs!InsertSorted
<1>5. Abs!Elements(r2) = Abs!Elements(r) \union {e}
  BY AbsAssumption, Abs!ReadyInsert DEF Abs!SchedAssumption
<1>6. e \notin Abs!Elements(f) /\ Abs!Elements(f) \subseteq Abs!Elements(r)
  BY DEF FirstsOf
<1>7. IsQueue(g) /\ Abs!Elements(g) = Abs!Elements(f) \union {e}
  <2>1. Abs!SortedBy(f, pr)
    <3>1. \A a, b \in 1..Len(f) : a < b => pr[f[a]] < pr[f[b]] /\ pr[f[a]] \in Nat /\ pr[f[b]] \in Nat
      BY FirstsFacts
    <3> QED
      BY <3>1 DEF Abs!SortedBy
  <2>2. Abs!NoDuplicates(f) /\ \A x \in Events : pr[x] \in Nat
    BY FirstsFacts DEF IsQueue
  <2> QED
    BY <1>2, <1>6, <2>1, <2>2, AbsAssumption, Abs!Inserted DEF Abs!SchedAssumption, IsQueue
<1> HIDE DEF p, j, r2, g
<1>8. /\ pr[e] \in Nat
      /\ \A i \in 1..Len(r) : pr[r[i]] \in Nat
      /\ \A i \in 1..Len(f) : pr[f[i]] \in Nat
  BY FirstsFacts
<1>9. /\ r2[p] = e /\ p \in 1..Len(r2)
      /\ p > 1 => r2[p - 1] = r[p - 1]
      /\ r2[1] = IF p = 1 THEN e ELSE r[1]
      /\ g[j] = e /\ g[1] = IF j = 1 THEN e ELSE f[1]
  <2>1. p \in 1..Len(r2) /\ 1 \in 1..Len(r2) /\ (p > 1 => p - 1 \in 1..Len(r2) /\ p - 1 < p /\ 1 < p)
    BY <1>2, <1>3
  <2>2. j \in 1..Len(g) /\ 1 \in 1..Len(g) /\ (j = 1 \/ 1 < j)
    BY <1>2, <1>4
  <2>3. r2[p] = e /\ (p > 1 => r2[p - 1] = r[p - 1]) /\ r2[1] = IF p = 1 THEN e ELSE r[1]
    BY <1>2, <1>3, <2>1
  <2>4. g[j] = e /\ g[1] = IF j = 1 THEN e ELSE f[1]
    BY <1>2, <1>4, <2>2
  <2> QED
    BY <2>1, <2>3, <2>4
<1>10. p = 1 <=> j = 1
  <2>1. f[1] = r[1] /\ 1 \in 1..Len(r) /\ 1 \in 1..Len(f)
    BY <1>1, <1>2, FirstsFacts
  <2>2. \A i, k \in 1..Len(r) : r[i] = r[k] => i = k
    BY FirstsFacts
  <2>3. \A i, k \in 1..Len(f) : f[i] = f[k] => i = k
    BY FirstsFacts, Places
  <2> QED
    BY <1>1, <2>1, <2>2, <2>3
<1>11. IsQueue(f2) /\ Len(f2) > 0 /\ f2[1] = r2[1]
  <2>1. CASE IsFirst(pr, r2, p)
    BY <1>2, <1>4, <1>7, <1>9, <1>10, <2>1, FirstsFacts
  <2>2. CASE ~IsFirst(pr, r2, p)
    BY <1>1, <1>2, <1>9, <2>2, FirstsFacts DEF IsFirst
  <2> QED
    BY <2>1, <2>2
<1>12. /\ Abs!Elements(f2) \subseteq Abs!Elements(r2)
       /\ e \in Abs!Elements(f2) <=> IsFirst(pr, r2, p)
       /\ \A x : x # e => (x \in Abs!Elements(f2) <=> x \in Abs!Elements(f))
  BY <1>5, <1>6, <1>7
<1>13. ASSUME IsFirst(pr, r2, p) PROVE \A i \in 1..(j - 1) : pr[f[i]] < pr[e]
  <2> SUFFICES ASSUME NEW i \in 1..(j - 1), ~(pr[f[i]] < pr[e]) PROVE FALSE
    OBVIOUS
  <2>1. i \in 1..Len(f) /\ pr[f[i]] = pr[e] /\ i < j
    BY SMTT(60), <1>1, <1>2, <1>8
  <2>2. PICK k \in 1..Len(r) : f[i] = r[k]
    BY <2>1, FirstsFacts
  <2>3. pr[r[k]] < pr[r[p]] /\ pr[r[k]] = pr[e]
    BY <1>1, <2>1, <2>2, FirstsFacts
  <2>4. ~(p < k) /\ p # k
    BY SMTT(60), <1>1, <1>8, <2>3, FirstsFacts
  <2>5. p > 1 /\ p - 1 \in 1..Len(r) /\ p - 1 \in 1..(p - 1) /\ (k = p - 1 \/ k < p - 1)
    BY SMTT(60), <1>1, <1>2, <2>4
  <2>6. pr[r[k]] <= pr[r[p - 1]] /\ pr[r[p - 1]] <= pr[e]
    BY SMTT(60), <1>1, <1>8, <2>5, FirstsFacts
  <2>7. pr[r[p - 1]] = pr[e]
    BY <1>8, <2>3, <2>5, <2>6
  <2> QED
    BY <1>1, <1>9, <1>13, <2>5, <2>7 DEF IsFirst
<1>14. \A i, k \in 1..Len(f2) : i < k => pr[f2[i]] < pr[f2[k]]
  <2>1. \A i, k \in 1..Len(f) : i < k => pr[f[i]] < pr[f[k]]
    BY FirstsFacts
  <2>2. CASE ~IsFirst(pr, r2, p)
    BY <2>1, <2>2
  <2>3. CASE IsFirst(pr, r2, p)
    <3> SUFFICES ASSUME NEW i \in 1..Len(g), NEW k \in 1..Len(g), i < k PROVE pr[g[i]] < pr[g[k]]
      BY <2>3
    <3>1. CASE i = j
      <4>1. g[i] = e /\ g[k] = f[k - 1] /\ k - 1 \in 1..Len(f) /\ (k - 1 = j \/ j < k - 1)
        BY <1>1, <1>2, <1>4, <3>1
      <4>2. pr[f[j]] <= pr[f[k - 1]]
        BY SMTT(60), <1>1, <1>8, <2>1, <4>1
      <4> QED
        BY SMTT(60), <1>1, <1>8, <4>1, <4>2
    <3>2. CASE k = j
      <4>1. g[k] = e /\ g[i] = f[i] /\ i \in 1..(j - 1)
        BY <1>1, <1>2, <1>4, <3>2
      <4> QED
        BY <1>13, <2>3, <4>1
    <3>3. CASE i # j /\ k # j
      <4>1. \E a, b \in 1..Len(f) : a < b /\ g[i] = f[a] /\ g[k] = f[b]
        <5> DEFINE a == IF i < j THEN i ELSE i - 1
                   b == IF k < j THEN k ELSE k - 1
        <5>1. a \in 1..Len(f) /\ b \in 1..Len(f) /\ a < b
          BY SMTT(60), <1>2, <1>4, <3>3
        <5>2. g[i] = f[a] /\ g[k] = f[b]
          BY SMTT(60), <1>2, <1>4, <3>3
        <5> QED
          BY SMTT(60), <5>1, <5>2
      <4> QED
        BY <2>1, <4>1
    <3> QED
      BY <3>1, <3>2, <3>3
  <2> QED
    BY <2>2, <2>3
<1>15. ASSUME NEW i \in 1..Len(r2)
       PROVE  r2[i] \in Abs!Elements(f2) <=> IsFirst(pr, r2, i)
  <2>1. \A k \in 1..Len(r) : /\ r[k] # e
                             /\ r[k] \in Abs!Elements(f) <=> IsFirst(pr, r, k)
    BY DEF FirstsOf, Abs!Elements
  <2>2. CASE i = p
    BY <1>9, <1>12, <2>2
  <2>3. CASE i < p
    <3>1. i \in 1..Len(r) /\ r2[i] = r[i]
      BY <1>2, <1>3, <2>3
    <3>2. ASSUME i # 1 PROVE r2[i - 1] = r[i - 1]
      <4>1. i - 1 \in 1..Len(r2) /\ i - 1 < p
        BY <1>2, <1>3, <2>3, <3>2
      <4> QED
        BY <1>3, <4>1
    <3> QED
      BY <1>12, <2>1, <3>1, <3>2 DEF IsFirst
  <2>4. CASE i = p + 1
    <3>1. r2[i] = r[p] /\ r2[i - 1] = e /\ i > 1
      BY <1>1, <1>2, <1>3, <2>4
    <3>2. IsFirst(pr, r2, i)
      BY <1>1, <1>8, <3>1 DEF IsFirst
    <3>3. r[p] \in Abs!Elements(f)
      BY <1>1 DEF Abs!Elements
    <3> QED
      BY <1>1, <1>12, <2>1, <3>1, <3>2, <3>3
  <2>5. CASE i > p + 1
    <3>1. /\ i - 1 \in 1..Len(r) /\ r2[i] = r[i - 1] /\ r2[i - 1] = r[(i - 1) - 1]
          /\ i > 1 /\ i - 1 > 1
      BY SMTT(60), <1>1, <1>2, <1>3, <2>5
    <3> QED
      BY <1>12, <2>1, <3>1 DEF IsFirst
  <2> QED
    BY <1>1, <1>2, <1>3, <2>2, <2>3, <2>4, <2>5
<1> QED
  BY <1>11, <1>12, <1>14, <1>15 DEF FirstsOf, p, r2, g

(* Unlinking the p-th event of a queue. *)
LEMMA CutPlaces ==
  ASSUME NEW q, IsQueue(q), NEW p \in 1..Len(q)
  PROVE  LET r == Abs!CutFrom(q, q[p])
         IN  /\ IsQueue(r) /\ Len(r) = Len(q) - 1
             /\ \A i \in 1..Len(r) : r[i] = IF i < p THEN q[i] ELSE q[i + 1]
             /\ Abs!Elements(r) = Abs!Elements(q) \ {q[p]}
<1> DEFINE r == Abs!CutFrom(q, q[p])
<1>1. /\ Len(q) \in Nat /\ q[p] \in Abs!Elements(q) /\ q \in Seq(Events) /\ Abs!NoDuplicates(q)
      /\ \A i, j \in 1..Len(q) : q[i] = q[j] => i = j
  BY Places DEF IsQueue
<1>2. (CHOOSE i \in 1..Len(q) : q[i] = q[p]) = p
  BY <1>1
<1>3. /\ r \in Seq(Events) /\ Len(r) = Len(q) - 1 /\ Abs!NoDuplicates(r)
      /\ Abs!Elements(r) = Abs!Elements(q) \ {q[p]}
  BY <1>1, AbsAssumption, Abs!Cut DEF Abs!SchedAssumption
<1>4. \A i \in 1..Len(r) : r[i] = IF i < p THEN q[i] ELSE q[i + 1]
  BY <1>1, <1>2, <1>3 DEF Abs!CutFrom
<1> QED
  BY <1>3, <1>4 DEF IsQueue

(* The cut queue, place by place, around the event that leaves. *)
LEMMA CutAround ==
  ASSUME NEW pr, NEW r, NEW f, Abs!ReadyOK(r, pr), Abs!PrioOK(pr), FirstsOf(pr, r, f),
         NEW p \in 1..Len(r), r[p] # Service
  PROVE  LET r2 == Abs!CutFrom(r, r[p])
         IN  /\ p + 1 \in 1..Len(r) /\ Len(r2) = Len(r) - 1 /\ Len(r2) > 0
             /\ Abs!Elements(r2) = Abs!Elements(r) \ {r[p]}
             /\ r2[1] = IF p = 1 THEN r[2] ELSE r[1]
             /\ p \in 1..Len(r2) /\ r2[p] = r[p + 1] /\ (p > 1 => r2[p - 1] = r[p - 1])
             /\ \A i \in 1..Len(r2) : i # p =>
                  \E k \in 1..Len(r) : /\ r2[i] = r[k] /\ k # p /\ k # p + 1
                                       /\ IsFirst(pr, r2, i) <=> IsFirst(pr, r, k)
<1> DEFINE r2 == Abs!CutFrom(r, r[p])
<1>1. /\ Len(r2) = Len(r) - 1 /\ Abs!Elements(r2) = Abs!Elements(r) \ {r[p]}
      /\ \A i \in 1..Len(r2) : r2[i] = IF i < p THEN r[i] ELSE r[i + 1]
  BY CutPlaces, FirstsFacts
<1>2. Len(r) \in Nat /\ p < Len(r)
  BY FirstsFacts
<1> HIDE DEF r2
<1>3. /\ p + 1 \in 1..Len(r) /\ Len(r2) > 0 /\ 1 \in 1..Len(r2) /\ p \in 1..Len(r2)
      /\ p > 1 => p - 1 \in 1..Len(r2) /\ p - 1 < p /\ 1 < p
  BY <1>1, <1>2
<1>4. r2[1] = (IF p = 1 THEN r[2] ELSE r[1]) /\ r2[p] = r[p + 1] /\ (p > 1 => r2[p - 1] = r[p - 1])
  BY <1>1, <1>3
<1>5. ASSUME NEW i \in 1..Len(r2), i # p
      PROVE  \E k \in 1..Len(r) : /\ r2[i] = r[k] /\ k # p /\ k # p + 1
                                  /\ IsFirst(pr, r2, i) <=> IsFirst(pr, r, k)
  <2>1. CASE i < p
    <3>1. i \in 1..Len(r) /\ r2[i] = r[i] /\ i # p /\ i # p + 1
      BY <1>1, <1>2, <2>1
    <3>2. ASSUME i # 1 PROVE r2[i - 1] = r[i - 1]
      <4>1. i - 1 \in 1..Len(r2) /\ i - 1 < p
        BY <1>1, <1>2, <2>1, <3>2
      <4> QED
        BY <1>1, <4>1
    <3>3. IsFirst(pr, r2, i) <=> IsFirst(pr, r, i)
      BY <3>1, <3>2 DEF IsFirst
    <3> QED
      BY <3>1, <3>3
  <2>2. CASE i > p
    <3>1. i + 1 \in 1..Len(r) /\ r2[i] = r[i + 1] /\ i + 1 # p /\ i + 1 # p + 1
      BY <1>1, <1>2, <2>2
    <3>2. i - 1 \in 1..Len(r2) /\ ~(i - 1 < p) /\ i # 1 /\ i + 1 # 1 /\ (i + 1) - 1 = i /\ (i - 1) + 1 = i
      BY <1>1, <1>2, <2>2
    <3>3. r2[i - 1] = r[i]
      BY <1>1, <3>2
    <3>4. IsFirst(pr, r2, i) <=> IsFirst(pr, r, i + 1)
      BY <3>1, <3>2, <3>3 DEF IsFirst
    <3> QED
      BY <3>1, <3>4
  <2> QED
    BY <1>5, <2>1, <2>2
<1> QED
  BY <1>1, <1>3, <1>4, <1>5 DEF r2

(* The service event, alone in its priority, closes the ring. *)
LEMMA ServiceLast ==
  ASSUME NEW pr, NEW r, NEW f, Abs!ReadyOK(r, pr), Abs!PrioOK(pr), FirstsOf(pr, r, f)
  PROVE  f[Len(f)] = Service
<1>0. Len(r) \in Nat /\ Len(r) > 0
  BY FirstsFacts
<1>1. Service = r[Len(r)] /\ Len(f) \in Nat /\ Len(f) > 0
  BY FirstsFacts
<1>2. \A x \in Events \ {Service} : pr[x] < pr[Service]
  BY FirstsFacts
<1>3. IsFirst(pr, r, Len(r))
  <2>1. CASE Len(r) = 1
    BY <2>1 DEF IsFirst
  <2>2. CASE Len(r) # 1
    <3>1. Len(r) - 1 \in 1..Len(r) /\ Len(r) \in 1..Len(r) /\ Len(r) - 1 # Len(r)
      <4>1. \A n \in Nat : n > 0 /\ n # 1 => n - 1 \in 1..n /\ n \in 1..n /\ n - 1 # n
        OBVIOUS
      <4> QED
        BY ONLY <1>0, <2>2, <4>1
    <3>2. r[Len(r) - 1] \in Events \ {Service}
      BY <1>1, <3>1, FirstsFacts
    <3>3. pr[r[Len(r) - 1]] \in Nat /\ pr[Service] \in Nat
      BY <1>1, <3>1, FirstsFacts
    <3> QED
      BY <1>1, <1>2, <3>2, <3>3 DEF IsFirst
  <2> QED
    BY <2>1, <2>2
<1>4. PICK m \in 1..Len(f) : f[m] = Service
  BY <1>0, <1>1, <1>3, FirstsFacts
<1>5. f[Len(f)] \in Events /\ pr[f[Len(f)]] \in Nat /\ pr[f[m]] \in Nat
  BY SMTT(60), <1>1, FirstsFacts
<1>6. ~(m < Len(f))
  <2> SUFFICES ASSUME m < Len(f) PROVE FALSE
    OBVIOUS
  <2>1. pr[f[m]] < pr[f[Len(f)]]
    BY <1>1, FirstsFacts
  <2> QED
    BY <1>2, <1>4, <1>5, <2>1
<1> QED
  BY <1>1, <1>4, <1>6

(* An event leaves that is not the first of its priority. *)
LEMMA FirstsCutOther ==
  ASSUME NEW pr, NEW r, NEW f, Abs!ReadyOK(r, pr), Abs!PrioOK(pr), FirstsOf(pr, r, f),
         NEW p \in 1..Len(r), r[p] # Service, ~IsFirst(pr, r, p)
  PROVE  FirstsOf(pr, Abs!CutFrom(r, r[p]), f)
<1> DEFINE r2 == Abs!CutFrom(r, r[p])
<1>1. /\ p + 1 \in 1..Len(r) /\ Len(r2) > 0
      /\ Abs!Elements(r2) = Abs!Elements(r) \ {r[p]}
      /\ r2[1] = IF p = 1 THEN r[2] ELSE r[1]
      /\ p \in 1..Len(r2) /\ r2[p] = r[p + 1] /\ (p > 1 => r2[p - 1] = r[p - 1])
  BY SMTT(60), CutAround
<1>2. \A i \in 1..Len(r2) : i # p =>
        \E k \in 1..Len(r) : /\ r2[i] = r[k] /\ k # p /\ k # p + 1
                             /\ IsFirst(pr, r2, i) <=> IsFirst(pr, r, k)
  BY CutAround
<1> HIDE DEF r2
<1>3. p > 1 /\ pr[r[p - 1]] = pr[r[p]]
  BY DEF IsFirst
<1>4. \A k \in 1..Len(r) : r[k] \in Abs!Elements(f) <=> IsFirst(pr, r, k)
  BY DEF FirstsOf
<1>5. r2[1] = f[1] /\ IsQueue(f) /\ Len(f) > 0 /\ Abs!Elements(f) \subseteq Abs!Elements(r2)
  BY <1>1, <1>3, <1>4 DEF FirstsOf
<1>6. ASSUME NEW i \in 1..Len(r2) PROVE r2[i] \in Abs!Elements(f) <=> IsFirst(pr, r2, i)
  <2>1. CASE i = p
    <3>1. (p + 1) - 1 = p /\ p + 1 # 1
      BY <1>3
    <3>2. IsFirst(pr, r2, p) <=> IsFirst(pr, r, p + 1)
      BY <1>1, <1>3, <3>1 DEF IsFirst
    <3> QED
      BY <1>1, <1>4, <2>1, <3>2
  <2>2. CASE i # p
    BY <1>2, <1>4, <2>2
  <2> QED
    BY <2>1, <2>2
<1> QED
  BY <1>5, <1>6 DEF FirstsOf, r2

(* The first of its priority leaves and the one behind it takes its place. *)
LEMMA FirstsCutReplace ==
  ASSUME NEW pr, NEW r, NEW f, Abs!ReadyOK(r, pr), Abs!PrioOK(pr), FirstsOf(pr, r, f),
         NEW p \in 1..Len(r), r[p] # Service, NEW j \in 1..Len(f), f[j] = r[p],
         pr[r[p + 1]] = pr[r[p]]
  PROVE  /\ p + 1 \in 1..Len(r) /\ r[p + 1] \notin Abs!Elements(f) /\ j < Len(f)
         /\ FirstsOf(pr, Abs!CutFrom(r, r[p]), [f EXCEPT ![j] = r[p + 1]])
<1> DEFINE r2 == Abs!CutFrom(r, r[p])
           f2 == [f EXCEPT ![j] = r[p + 1]]
<1> HIDE DEF f2
<1>1. /\ p + 1 \in 1..Len(r) /\ Len(r2) > 0
      /\ Abs!Elements(r2) = Abs!Elements(r) \ {r[p]}
      /\ r2[1] = IF p = 1 THEN r[2] ELSE r[1]
      /\ p \in 1..Len(r2) /\ r2[p] = r[p + 1] /\ (p > 1 => r2[p - 1] = r[p - 1])
  BY ONLY SMTT(60), Abs!ReadyOK(r, pr), Abs!PrioOK(pr), FirstsOf(pr, r, f), p \in 1..Len(r), r[p] # Service,
          CutAround
<1>2. \A i \in 1..Len(r2) : i # p =>
        \E k \in 1..Len(r) : /\ r2[i] = r[k] /\ k # p /\ k # p + 1
                             /\ IsFirst(pr, r2, i) <=> IsFirst(pr, r, k)
  BY ZenonT(60), CutAround
<1> HIDE DEF r2
<1>3. \A k \in 1..Len(r) : r[k] \in Abs!Elements(f) <=> IsFirst(pr, r, k)
  BY DEF FirstsOf
<1>4. /\ Len(r) \in Nat /\ Len(f) \in Nat /\ f \in Seq(Events) /\ r[p + 1] \in Events
      /\ f[1] = r[1] /\ 1 \in 1..Len(r) /\ 1 \in 1..Len(f)
      /\ \A i, k \in 1..Len(r) : r[i] = r[k] => i = k
      /\ \A i, k \in 1..Len(f) : f[i] = f[k] => i = k
      /\ \A i, k \in 1..Len(f) : i < k => pr[f[i]] < pr[f[k]]
  <2>1. /\ IsQueue(f) /\ IsQueue(r) /\ f[1] = r[1] /\ Len(f) > 0 /\ Len(r) > 0
        /\ Len(r) \in Nat /\ Len(f) \in Nat
        /\ \A i, k \in 1..Len(f) : i < k => pr[f[i]] < pr[f[k]]
    BY FirstsFacts
  <2>2. \A i, k \in 1..Len(r) : r[i] = r[k] => i = k
    BY <2>1, Places
  <2>3. \A i, k \in 1..Len(f) : f[i] = f[k] => i = k
    BY <2>1, Places
  <2>4. r[p + 1] \in Events /\ f \in Seq(Events)
    BY <1>1, <2>1, Places DEF IsQueue
  <2>5. 1 \in 1..Len(r) /\ 1 \in 1..Len(f)
    BY <2>1
  <2> QED
    BY <2>1, <2>2, <2>3, <2>4, <2>5
<1>5. r[p + 1] \notin Abs!Elements(f)
  <2>1. ~IsFirst(pr, r, p + 1)
    BY <1>4 DEF IsFirst
  <2> QED
    BY <1>1, <1>3, <2>1
<1>6. IsFirst(pr, r, p)
  BY <1>3 DEF Abs!Elements
<1>7. j < Len(f)
  BY <1>4, ServiceLast
<1>8. /\ Len(f2) = Len(f) /\ f2 \in Seq(Events)
      /\ \A i \in 1..Len(f) : f2[i] = IF i = j THEN r[p + 1] ELSE f[i]
  BY <1>4 DEF f2
<1>9. \A x : x \in Abs!Elements(f2)
               <=> x = r[p + 1] \/ (x \in Abs!Elements(f) /\ x # r[p])
  <2>1. \A x : x \in Abs!Elements(f2) <=> \E i \in 1..Len(f) : x = f2[i]
    BY <1>8 DEF Abs!Elements
  <2>2. \A x : x \in Abs!Elements(f) <=> \E i \in 1..Len(f) : x = f[i]
    BY DEF Abs!Elements
  <2> QED
    BY SMTT(60), <1>4, <1>8, <2>1, <2>2
<1>10. IsQueue(f2)
  <2>1. \A i \in 1..Len(f) : f[i] # r[p + 1]
    BY <1>5 DEF Abs!Elements
  <2> QED
    BY <1>4, <1>8, <2>1 DEF IsQueue, Abs!NoDuplicates
<1>11. f2[1] = r2[1]
  BY <1>1, <1>4, <1>8
<1>12. \A i, k \in 1..Len(f2) : i < k => pr[f2[i]] < pr[f2[k]]
  BY SMTT(60), <1>4, <1>8
<1>13. Abs!Elements(f2) \subseteq Abs!Elements(r2)
  <2>1. r[p + 1] \in Abs!Elements(r) /\ r[p + 1] # r[p]
    BY <1>1, <1>4 DEF Abs!Elements
  <2> QED
    BY <1>1, <1>9, <2>1 DEF FirstsOf
<1>14. ASSUME NEW i \in 1..Len(r2) PROVE r2[i] \in Abs!Elements(f2) <=> IsFirst(pr, r2, i)
  <2>1. CASE i = p
    <3>1. IsFirst(pr, r2, p)
      BY SMTT(60), <1>1, <1>4, <1>6 DEF IsFirst
    <3> QED
      BY <1>1, <1>9, <2>1, <3>1
  <2>2. CASE i # p
    <3>1. PICK k \in 1..Len(r) : /\ r2[i] = r[k] /\ k # p /\ k # p + 1
                                 /\ IsFirst(pr, r2, i) <=> IsFirst(pr, r, k)
      BY <1>2, <2>2
    <3>2. r[k] # r[p] /\ r[k] # r[p + 1]
      BY <1>1, <1>4, <3>1
    <3> QED
      BY <1>3, <1>9, <3>1, <3>2
  <2> QED
    BY <2>1, <2>2
<1>15. Len(f2) > 0
  BY <1>4, <1>8
<1> QED
  BY <1>1, <1>5, <1>7, <1>10, <1>11, <1>12, <1>13, <1>14, <1>15 DEF FirstsOf, r2, f2

(* The only event of its priority leaves: the one behind it is the next in *)
(* the ring.                                                               *)
LEMMA FirstsCutAlone ==
  ASSUME NEW pr, NEW r, NEW f, Abs!ReadyOK(r, pr), Abs!PrioOK(pr), FirstsOf(pr, r, f),
         NEW p \in 1..Len(r), r[p] # Service, NEW j \in 1..Len(f), f[j] = r[p],
         pr[r[p + 1]] # pr[r[p]]
  PROVE  /\ p + 1 \in 1..Len(r) /\ j + 1 \in 1..Len(f) /\ f[j + 1] = r[p + 1]
         /\ FirstsOf(pr, Abs!CutFrom(r, r[p]), Abs!CutFrom(f, f[j]))
<1> DEFINE r2 == Abs!CutFrom(r, r[p])
           f2 == Abs!CutFrom(f, f[j])
<1> HIDE DEF f2
<1>1. /\ p + 1 \in 1..Len(r) /\ Len(r2) > 0
      /\ Abs!Elements(r2) = Abs!Elements(r) \ {r[p]}
      /\ r2[1] = IF p = 1 THEN r[2] ELSE r[1]
      /\ p \in 1..Len(r2) /\ r2[p] = r[p + 1] /\ (p > 1 => r2[p - 1] = r[p - 1])
  BY ONLY Abs!ReadyOK(r, pr), Abs!PrioOK(pr), FirstsOf(pr, r, f), p \in 1..Len(r), r[p] # Service,
          CutAround
<1>2. \A i \in 1..Len(r2) : i # p =>
        \E k \in 1..Len(r) : /\ r2[i] = r[k] /\ k # p /\ k # p + 1
                             /\ IsFirst(pr, r2, i) <=> IsFirst(pr, r, k)
  BY ONLY Abs!ReadyOK(r, pr), Abs!PrioOK(pr), FirstsOf(pr, r, f), p \in 1..Len(r), r[p] # Service,
          CutAround
<1> HIDE DEF r2
<1>3. \A k \in 1..Len(r) : r[k] \in Abs!Elements(f) <=> IsFirst(pr, r, k)
  BY DEF FirstsOf
<1>4. /\ Len(r) \in Nat /\ Len(f) \in Nat /\ IsQueue(f)
      /\ f[1] = r[1] /\ 1 \in 1..Len(r) /\ 1 \in 1..Len(f)
      /\ \A i, k \in 1..Len(r) : r[i] = r[k] => i = k
      /\ \A i, k \in 1..Len(f) : f[i] = f[k] => i = k
      /\ \A i, k \in 1..Len(f) : i < k => pr[f[i]] < pr[f[k]]
      /\ \A i, k \in 1..Len(r) : i < k => pr[r[i]] <= pr[r[k]]
  <2>1. /\ IsQueue(f) /\ IsQueue(r) /\ f[1] = r[1] /\ Len(f) > 0 /\ Len(r) > 0
        /\ Len(r) \in Nat /\ Len(f) \in Nat
        /\ \A i, k \in 1..Len(f) : i < k => pr[f[i]] < pr[f[k]]
        /\ \A i, k \in 1..Len(r) : i < k => pr[r[i]] <= pr[r[k]]
    BY SMTT(60), FirstsFacts
  <2>2. \A i, k \in 1..Len(r) : r[i] = r[k] => i = k
    BY <2>1, Places
  <2>3. \A i, k \in 1..Len(f) : f[i] = f[k] => i = k
    BY <2>1, Places
  <2>4. 1 \in 1..Len(r) /\ 1 \in 1..Len(f)
    BY <2>1
  <2> QED
    BY <2>1, <2>2, <2>3, <2>4
<1>5. /\ \A i \in 1..Len(r) : pr[r[i]] \in Nat
      /\ \A i \in 1..Len(f) : pr[f[i]] \in Nat
  BY FirstsFacts
<1>6. IsFirst(pr, r, p) /\ IsFirst(pr, r, p + 1) /\ p + 1 # p
  BY <1>3, <1>4 DEF Abs!Elements, IsFirst
<1>7. j + 1 \in 1..Len(f)
  BY <1>4, ServiceLast
<1>8. f[j + 1] = r[p + 1]
  <2>1. PICK k \in 1..Len(f) : f[k] = r[p + 1]
    BY <1>1, <1>6, FirstsFacts
  <2>2. PICK m \in 1..Len(r) : f[j + 1] = r[m]
    BY <1>7, FirstsFacts
  <2>3. pr[r[p]] < pr[r[p + 1]] /\ pr[r[p]] < pr[r[m]]
    <3>1. pr[r[p]] <= pr[r[p + 1]] /\ pr[f[j]] < pr[f[j + 1]]
      BY SMTT(60), <1>1, <1>4, <1>7
    <3> QED
      BY SMTT(60), <1>1, <1>5, <2>2, <3>1
  <2>4. ~(m < p) /\ m # p /\ ~(k < j) /\ k # j
    <3>1. pr[r[p]] \in Nat /\ pr[r[m]] \in Nat /\ pr[r[p + 1]] \in Nat
      BY <1>1, <1>5, <2>2
    <3>2. m < p => pr[r[m]] <= pr[r[p]]
      BY <1>4, <2>2
    <3>3. k < j => pr[r[p + 1]] < pr[r[p]]
      BY <1>4, <2>1
    <3>4. ~(m < p) /\ m # p
      BY ONLY SMTT(60), <2>2, <2>3, <3>1, <3>2
    <3>5. ~(k < j)
      BY ONLY SMTT(60), <2>1, <2>3, <3>1, <3>3
    <3>6. k # j
      BY <2>1, <2>3, <3>1
    <3> QED
      BY <3>4, <3>5, <3>6
  <2>5. m = p + 1 \/ p + 1 < m
    BY <1>4, <2>4
  <2>6. pr[f[k]] <= pr[f[j + 1]]
    BY SMTT(60), <1>1, <1>4, <1>5, <2>1, <2>2, <2>5
  <2>7. ~(j + 1 < k)
    BY SMTT(60), <1>4, <1>5, <1>7, <2>6
  <2>8. k = j + 1
    BY <1>4, <2>4, <2>7
  <2> QED
    BY <2>1, <2>8
<1>16. IsQueue(f)
  BY <1>4
<1>9. /\ Len(f2) = Len(f) - 1 /\ IsQueue(f2)
      /\ Abs!Elements(f2) = Abs!Elements(f) \ {f[j]}
  BY ONLY j \in 1..Len(f), CutPlaces, <1>16 DEF f2
<1>10. \A i \in 1..Len(f2) : f2[i] = IF i < j THEN f[i] ELSE f[i + 1]
  BY ONLY j \in 1..Len(f), CutPlaces, <1>16 DEF f2
<1>11. Len(f2) > 0 /\ f2[1] = IF j = 1 THEN f[2] ELSE f[1]
  BY <1>4, <1>7, <1>9, <1>10
<1>12. f2[1] = r2[1]
  BY SMTT(60), <1>1, <1>4, <1>8, <1>11
<1>13. \A i, k \in 1..Len(f2) : i < k => pr[f2[i]] < pr[f2[k]]
  <2> SUFFICES ASSUME NEW i \in 1..Len(f2), NEW k \in 1..Len(f2), i < k PROVE pr[f2[i]] < pr[f2[k]]
    OBVIOUS
  <2> DEFINE a == IF i < j THEN i ELSE i + 1
             b == IF k < j THEN k ELSE k + 1
  <2>1. a \in 1..Len(f) /\ b \in 1..Len(f) /\ a < b
    BY SMTT(60), <1>4, <1>9
  <2>2. f2[i] = f[a] /\ f2[k] = f[b]
    BY <1>10
  <2> QED
    BY SMTT(60), <1>4, <2>1, <2>2
<1>14. Abs!Elements(f2) \subseteq Abs!Elements(r2)
  BY <1>1, <1>9 DEF FirstsOf
<1>15. ASSUME NEW i \in 1..Len(r2) PROVE r2[i] \in Abs!Elements(f2) <=> IsFirst(pr, r2, i)
  <2>1. CASE i = p
    <3>1. IsFirst(pr, r2, p)
      <4>1. CASE p = 1
        BY <4>1 DEF IsFirst
      <4>2. CASE p # 1
        <5>1. p > 1 /\ p - 1 \in 1..Len(r) /\ p - 1 < p /\ p < p + 1
          BY <1>4, <4>2
        <5>2. pr[r[p - 1]] <= pr[r[p]] /\ pr[r[p]] <= pr[r[p + 1]]
          BY <1>1, <1>4, <5>1
        <5>3. pr[r[p - 1]] # pr[r[p + 1]]
          BY SMTT(60), <1>1, <1>5, <5>1, <5>2
        <5> QED
          BY <1>1, <5>1, <5>3 DEF IsFirst
      <4> QED
        BY <4>1, <4>2
    <3>2. r[p + 1] \in Abs!Elements(f) /\ r[p + 1] # f[j]
      BY <1>1, <1>3, <1>4, <1>6
    <3> QED
      BY SMTT(60), <1>1, <1>9, <2>1, <3>1, <3>2
  <2>2. CASE i # p
    <3>1. PICK k \in 1..Len(r) : /\ r2[i] = r[k] /\ k # p /\ k # p + 1
                                 /\ IsFirst(pr, r2, i) <=> IsFirst(pr, r, k)
      BY <1>2, <2>2
    <3>2. r[k] # f[j]
      BY <1>1, <1>4, <3>1
    <3> QED
      BY SMTT(60), <1>3, <1>9, <3>1, <3>2
  <2> QED
    BY <2>1, <2>2
<1> QED
  BY <1>1, <1>7, <1>8, <1>9, <1>11, <1>12, <1>13, <1>14, <1>15 DEF FirstsOf, r2, f2
--------------------------------------------------------------------------------
(***************************************************************************)
(* What the pointer assignments do, field by field.                        *)
(***************************************************************************)
(* The two pairs of pointers and the heads, each unchanged from L to M. *)
SameMulti(L, M) == M.multi_next = L.multi_next /\ M.multi_previous = L.multi_previous
SameLinks(L, M) == M.next = L.next /\ M.previous = L.previous
SameHeads(L, M) == M.ready = L.ready /\ M.delay = L.delay /\ M.head = L.head /\ M.sync_head = L.sync_head

(* Linking e in front of x sets four pointers of next and previous. *)
LEMMA LinkBeforeFields ==
  ASSUME NEW L \in ListsType, NEW e \in Events, NEW x \in Events, L.previous[x] \in Events, e # x
  PROVE  LET M == LinkBefore(L, x, e)
             y == L.previous[x]
         IN  /\ M \in ListsType /\ SameMulti(L, M) /\ SameHeads(L, M)
             /\ \A z \in Events : M.next[z] = IF z = y THEN e ELSE IF z = e THEN x ELSE L.next[z]
             /\ \A z \in Events : M.previous[z] = IF z = x THEN e ELSE IF z = e THEN y ELSE L.previous[z]
  BY DEF LinkBefore, ListsType, Pointers, SameMulti, SameHeads

(* Unlinking e sets the next of the event before it and the previous of the *)
(* event behind it; e keeps its own pointers. *)
LEMMA UnlinkFields ==
  ASSUME NEW L \in ListsType, NEW e \in Events, L.next[e] \in Events, L.previous[e] \in Events
  PROVE  LET M == Unlink(L, e)
         IN  /\ M \in ListsType /\ SameMulti(L, M) /\ SameHeads(L, M)
             /\ \A z \in Events : M.next[z] = IF z = L.previous[e] THEN L.next[e] ELSE L.next[z]
             /\ \A z \in Events : M.previous[z] = IF z = L.next[e] THEN L.previous[e] ELSE L.previous[z]
  BY DEF Unlink, ListsType, Pointers, SameMulti, SameHeads

(* The same in the second pair of pointers. *)
LEMMA MultiLinkBeforeFields ==
  ASSUME NEW L \in ListsType, NEW e \in Events, NEW x \in Events, L.multi_previous[x] \in Events, e # x
  PROVE  LET M == MultiLinkBefore(L, x, e)
             y == L.multi_previous[x]
         IN  /\ M \in ListsType /\ SameLinks(L, M) /\ SameHeads(L, M)
             /\ \A z \in Events : M.multi_next[z] = IF z = e THEN x ELSE IF z = y THEN e ELSE L.multi_next[z]
             /\ \A z \in Events : M.multi_previous[z]
                                    = IF z = x THEN e ELSE IF z = e THEN y ELSE L.multi_previous[z]
  BY DEF MultiLinkBefore, ListsType, Pointers, SameLinks, SameHeads

(* Unlinking e in the second pair of pointers. *)
LEMMA MultiUnlinkFields ==
  ASSUME NEW L \in ListsType, NEW e \in Events, L.multi_next[e] \in Events, L.multi_previous[e] \in Events
  PROVE  LET M == MultiUnlink(L, e)
         IN  /\ M \in ListsType /\ SameLinks(L, M) /\ SameHeads(L, M)
             /\ \A z \in Events : M.multi_next[z] = IF z = L.multi_previous[e] THEN L.multi_next[e] ELSE L.multi_next[z]
             /\ \A z \in Events : M.multi_previous[z]
                                    = IF z = L.multi_next[e] THEN L.multi_previous[e] ELSE L.multi_previous[z]
  BY DEF MultiUnlink, ListsType, Pointers, SameLinks, SameHeads

(* Replacing e in the second pair of pointers: by takes both its neighbours. *)
LEMMA MultiReplaceFields ==
  ASSUME NEW L \in ListsType, NEW e \in Events, NEW by \in Events,
         L.multi_next[e] \in Events, L.multi_previous[e] \in Events
  PROVE  LET M == MultiReplace(L, e, by)
         IN  /\ M \in ListsType /\ SameLinks(L, M) /\ SameHeads(L, M)
             /\ \A z \in Events : M.multi_next[z]
                  = IF z = by THEN L.multi_next[e]
                    ELSE IF z = L.multi_previous[e] THEN by ELSE L.multi_next[z]
             /\ \A z \in Events : M.multi_previous[z]
                  = IF z = L.multi_next[e] THEN by
                    ELSE IF z = by THEN L.multi_previous[e] ELSE L.multi_previous[z]
  BY DEF MultiReplace, ListsType, Pointers, SameLinks, SameHeads
--------------------------------------------------------------------------------
(***************************************************************************)
(* The lists L represent the ready queue r with its ring f, the alarm      *)
(* queue d and the block queues qs.                                        *)
(***************************************************************************)
IsList(nxt, prv, first, q) ==
  /\ IsQueue(q) /\ IsRing(nxt, prv, q)
  /\ first = IF Len(q) = 0 THEN NULL ELSE q[1]

ReadyRep(L, pr, r, f) ==
  /\ Abs!ReadyOK(r, pr) /\ IsRing(L.next, L.previous, r) /\ L.ready = r[1]
  /\ FirstsOf(pr, r, f) /\ IsRing(L.multi_next, L.multi_previous, f)
  /\ \A x \in Abs!Elements(r) \ Abs!Elements(f) : L.multi_next[x] = NULL

DelayRep(L, d) == IsList(L.next, L.previous, L.delay, d)

BlockRep(L, qs) ==
  /\ qs \in [Syncs -> Seq(Events)]
  /\ \A s \in Syncs : IsList(L.multi_next, L.multi_previous, L.head[s], qs[s])
  /\ \A x \in Events, s \in Syncs : L.sync_head[x] = s <=> x \in Abs!Elements(qs[s])

(* No ready event is in the alarm queue, with which the ready queue shares  *)
(* next and previous, or in a block queue, with which the ring shares       *)
(* multi_next and multi_previous.                                           *)
Apart(r, d, qs) ==
  /\ Abs!Elements(r) \intersect Abs!Elements(d) = {}
  /\ \A s \in Syncs : Abs!Elements(r) \intersect Abs!Elements(qs[s]) = {}

Rep(L, pr, r, f, d, qs) ==
  /\ L \in ListsType
  /\ ReadyRep(L, pr, r, f) /\ DelayRep(L, d) /\ BlockRep(L, qs) /\ Apart(r, d, qs)

(* M has the pointers of L but for those of the events in S. *)
LinksKept(L, M, S) ==
  \A z \in Events \ S : M.next[z] = L.next[z] /\ M.previous[z] = L.previous[z]
MultiKept(L, M, S) ==
  \A z \in Events \ S : M.multi_next[z] = L.multi_next[z] /\ M.multi_previous[z] = L.multi_previous[z]

(* The ready queue, when the events of others are relinked. *)
LEMMA ReadyKept ==
  ASSUME NEW L, NEW M, NEW pr, NEW r, NEW f, ReadyRep(L, pr, r, f), NEW S, NEW T,
         LinksKept(L, M, S), MultiKept(L, M, T), M.ready = L.ready,
         Abs!Elements(r) \intersect S = {}, Abs!Elements(r) \intersect T = {}
  PROVE  ReadyRep(M, pr, r, f)
<1>1. Abs!Elements(r) \subseteq Events /\ Abs!Elements(f) \subseteq Abs!Elements(r)
  BY Places DEF ReadyRep, Abs!ReadyOK, IsQueue, FirstsOf
<1>2. \A z \in Abs!Elements(r) : /\ M.next[z] = L.next[z] /\ M.previous[z] = L.previous[z]
                                 /\ M.multi_next[z] = L.multi_next[z]
                                 /\ M.multi_previous[z] = L.multi_previous[z]
  BY <1>1 DEF LinksKept, MultiKept
<1>3. IsRing(M.next, M.previous, r)
  BY <1>2, SameRing DEF ReadyRep
<1>4. IsRing(M.multi_next, M.multi_previous, f)
  BY <1>1, <1>2, SameRing DEF ReadyRep
<1> QED
  BY <1>2, <1>3, <1>4 DEF ReadyRep

(* The alarm queue, likewise. *)
LEMMA DelayKept ==
  ASSUME NEW L, NEW M, NEW d, DelayRep(L, d), NEW S, LinksKept(L, M, S), M.delay = L.delay,
         Abs!Elements(d) \intersect S = {}
  PROVE  DelayRep(M, d)
<1>1. Abs!Elements(d) \subseteq Events
  BY Places DEF DelayRep, IsList
<1>2. \A z \in Abs!Elements(d) : M.next[z] = L.next[z] /\ M.previous[z] = L.previous[z]
  BY <1>1 DEF LinksKept
<1>3. IsRing(M.next, M.previous, d)
  BY <1>2, SameRing DEF DelayRep, IsList
<1> QED
  BY <1>3 DEF DelayRep, IsList

(* One block queue, likewise. *)
LEMMA ListKept ==
  ASSUME NEW L, NEW M, NEW q, NEW h, IsList(L.multi_next, L.multi_previous, h, q), NEW T,
         MultiKept(L, M, T), Abs!Elements(q) \intersect T = {}
  PROVE  IsList(M.multi_next, M.multi_previous, h, q)
<1>1. Abs!Elements(q) \subseteq Events
  BY Places DEF IsList
<1>2. \A z \in Abs!Elements(q) : /\ M.multi_next[z] = L.multi_next[z]
                                 /\ M.multi_previous[z] = L.multi_previous[z]
  BY <1>1 DEF MultiKept
<1>3. IsRing(M.multi_next, M.multi_previous, q)
  BY <1>2, SameRing DEF IsList
<1> QED
  BY <1>3 DEF IsList

(* All of them. *)
LEMMA BlockKept ==
  ASSUME NEW L, NEW M, NEW qs, BlockRep(L, qs), NEW T, MultiKept(L, M, T),
         M.head = L.head, M.sync_head = L.sync_head,
         \A s \in Syncs : Abs!Elements(qs[s]) \intersect T = {}
  PROVE  BlockRep(M, qs)
<1>1. ASSUME NEW s \in Syncs PROVE IsList(M.multi_next, M.multi_previous, M.head[s], qs[s])
  <2>1. IsList(L.multi_next, L.multi_previous, M.head[s], qs[s])
    BY DEF BlockRep
  <2>2. Abs!Elements(qs[s]) \intersect T = {}
    OBVIOUS
  <2> QED
    BY ONLY <2>1, <2>2, MultiKept(L, M, T), ListKept
<1> QED
  BY <1>1 DEF BlockRep
--------------------------------------------------------------------------------
(* A ready event and its neighbours. *)
LEMMA ReadyPlace ==
  ASSUME NEW L, NEW pr, NEW r, NEW f, ReadyRep(L, pr, r, f), L \in ListsType, Abs!PrioOK(pr),
         NEW p \in 1..Len(r), r[p] # Service
  PROVE  /\ Len(r) \in Nat /\ Len(r) > 1 /\ p + 1 \in 1..Len(r) /\ r[p] \in Events
         /\ L.next[r[p]] = r[p + 1] /\ r[p + 1] \in Events /\ r[p + 1] \in Abs!Elements(r)
         /\ L.previous[r[p]] \in Events /\ L.previous[r[p]] \in Abs!Elements(r)
         /\ L.ready = r[1] /\ (r[p] = L.ready <=> p = 1)
         /\ L.multi_next[r[p]] = NULL <=> r[p] \notin Abs!Elements(f)
         /\ r[p] \in Abs!Elements(f) <=> IsFirst(pr, r, p)
<1>1. /\ Abs!ReadyOK(r, pr) /\ IsRing(L.next, L.previous, r) /\ L.ready = r[1]
      /\ FirstsOf(pr, r, f) /\ IsRing(L.multi_next, L.multi_previous, f)
      /\ IsQueue(r) /\ IsQueue(f)
  BY DEF ReadyRep, Abs!ReadyOK, IsQueue, FirstsOf
<1>2. Len(r) \in Nat /\ p + 1 \in 1..Len(r)
  <2>1. Len(r) \in Nat /\ r[Len(r)] = Service
    BY <1>1, FirstsFacts
  <2> QED
    BY <2>1
<1>3. Succ(r, p) = p + 1 /\ Len(r) > 1
  BY <1>2 DEF Succ
<1>4. /\ r[p] \in Events /\ r[p + 1] \in Events /\ r[p + 1] \in Abs!Elements(r)
      /\ Pred(r, p) \in 1..Len(r) /\ r[Pred(r, p)] \in Events /\ r[Pred(r, p)] \in Abs!Elements(r)
      /\ \A i, j \in 1..Len(r) : r[i] = r[j] => i = j
  BY <1>1, <1>2, Places
<1>5. L.next[r[p]] = r[p + 1] /\ L.previous[r[p]] = r[Pred(r, p)]
  BY <1>1, <1>3 DEF IsRing
<1>6. ASSUME r[p] \in Abs!Elements(f) PROVE L.multi_next[r[p]] # NULL
  <2>1. PICK j \in 1..Len(f) : f[j] = r[p]
    BY <1>6 DEF Abs!Elements
  <2>2. L.multi_next[f[j]] = f[Succ(f, j)] /\ f[Succ(f, j)] \in Events
    BY <1>1, Places DEF IsRing
  <2> QED
    BY <2>1, <2>2, EcbAssumption DEF EcbAssumption
<1>7. r[p] \notin Abs!Elements(f) => L.multi_next[r[p]] = NULL
  BY <1>1, Places DEF ReadyRep
<1>8. r[p] \in Abs!Elements(f) <=> IsFirst(pr, r, p)
  BY <1>1 DEF FirstsOf
<1>9. r[p] = L.ready <=> p = 1
  BY <1>1, <1>2, <1>4
<1> QED
  BY SMTT(60), <1>1, <1>2, <1>3, <1>4, <1>5, <1>6, <1>7, <1>8, <1>9

(* The ready queue without e, before the ring is repaired. *)
LEMMA CutLinks ==
  ASSUME NEW L, NEW pr, NEW r, NEW f, ReadyRep(L, pr, r, f), L \in ListsType, Abs!PrioOK(pr),
         NEW p \in 1..Len(r), r[p] # Service
  PROVE  LET M == [Unlink(L, r[p]) EXCEPT !.ready = IF r[p] = L.ready THEN L.next[r[p]] ELSE @]
         IN  /\ M \in ListsType /\ SameMulti(L, M)
             /\ M.delay = L.delay /\ M.head = L.head /\ M.sync_head = L.sync_head
             /\ LinksKept(L, M, Abs!Elements(r))
             /\ Abs!ReadyOK(Abs!CutFrom(r, r[p]), pr)
             /\ IsRing(M.next, M.previous, Abs!CutFrom(r, r[p]))
             /\ M.ready = Abs!CutFrom(r, r[p])[1]
<1> DEFINE e == r[p]
           U == Unlink(L, e)
           M == [U EXCEPT !.ready = IF e = L.ready THEN L.next[e] ELSE @]
           r2 == Abs!CutFrom(r, e)
<1>1. /\ Len(r) \in Nat /\ Len(r) > 1 /\ p + 1 \in 1..Len(r) /\ e \in Events
      /\ L.next[e] = r[p + 1] /\ r[p + 1] \in Events /\ r[p + 1] \in Abs!Elements(r)
      /\ L.previous[e] \in Events /\ L.previous[e] \in Abs!Elements(r)
      /\ L.ready = r[1] /\ (e = L.ready <=> p = 1)
  BY ReadyPlace
<1>2. /\ IsQueue(r) /\ IsRing(L.next, L.previous, r) /\ Abs!ReadyOK(r, pr)
      /\ Abs!Elements(r) \subseteq Events /\ e \in Abs!Elements(r) /\ FirstsOf(pr, r, f)
  BY Places DEF ReadyRep, Abs!ReadyOK, IsQueue
<1>3. L.next[e] \in Events
  BY <1>1
<1> HIDE DEF e
<1>4. /\ U \in ListsType /\ SameMulti(L, U) /\ SameHeads(L, U)
      /\ \A z \in Events : U.next[z] = IF z = L.previous[e] THEN L.next[e] ELSE L.next[z]
      /\ \A z \in Events : U.previous[z] = IF z = L.next[e] THEN L.previous[e] ELSE L.previous[z]
  BY <1>1, <1>3, UnlinkFields
<1> HIDE DEF U
<1>5. /\ M \in ListsType /\ M.next = U.next /\ M.previous = U.previous
      /\ M.multi_next = U.multi_next /\ M.multi_previous = U.multi_previous
      /\ M.delay = U.delay /\ M.head = U.head /\ M.sync_head = U.sync_head
      /\ M.ready = IF e = L.ready THEN L.next[e] ELSE U.ready
  BY <1>3, <1>4 DEF ListsType
<1> HIDE DEF M
<1>6. SameMulti(L, M) /\ M.delay = L.delay /\ M.head = L.head /\ M.sync_head = L.sync_head
  BY <1>4, <1>5 DEF SameMulti, SameHeads
<1>7. LinksKept(L, M, Abs!Elements(r))
  BY <1>1, <1>4, <1>5 DEF LinksKept
<1>8. IsRing(M.next, M.previous, Abs!CutFrom(r, r[p]))
  <2>1. /\ M.next[L.previous[r[p]]] = L.next[r[p]] /\ M.previous[L.next[r[p]]] = L.previous[r[p]]
        /\ \A z \in Abs!Elements(r) \ {r[p]} :
             /\ z # L.previous[r[p]] => M.next[z] = L.next[z]
             /\ z # L.next[r[p]] => M.previous[z] = L.previous[z]
    BY <1>1, <1>2, <1>4, <1>5 DEF e
  <2> QED
    BY SMTT(60), <1>1, <1>2, <2>1, UnlinkRing
<1>9. Abs!ReadyOK(Abs!CutFrom(r, r[p]), pr)
  BY <1>2, AbsAssumption, Abs!ReadyCut DEF Abs!SchedAssumption, e
<1>10. M.ready = Abs!CutFrom(r, r[p])[1]
  <2>1. Abs!CutFrom(r, r[p])[1] = IF p = 1 THEN r[2] ELSE r[1]
    BY <1>2, CutAround
  <2> QED
    BY <1>1, <1>4, <1>5, <2>1 DEF SameHeads
<1> QED
  BY <1>5, <1>6, <1>7, <1>8, <1>9, <1>10 DEF M, U, e

(* The sequence read around the p-th event of a ring that has several. *)
LEMMA RingPlace ==
  ASSUME NEW nxt, NEW prv, NEW q, IsQueue(q), IsRing(nxt, prv, q), NEW p \in 1..Len(q)
  PROVE  /\ q[p] \in Events /\ q[p] \in Abs!Elements(q)
         /\ nxt[q[p]] = q[Succ(q, p)] /\ nxt[q[p]] \in Events /\ nxt[q[p]] \in Abs!Elements(q)
         /\ prv[q[p]] = q[Pred(q, p)] /\ prv[q[p]] \in Events /\ prv[q[p]] \in Abs!Elements(q)
<1>1. /\ Succ(q, p) \in 1..Len(q) /\ Pred(q, p) \in 1..Len(q)
      /\ \A i \in 1..Len(q) : q[i] \in Events /\ q[i] \in Abs!Elements(q)
  BY Places
<1>2. nxt[q[p]] = q[Succ(q, p)] /\ prv[q[p]] = q[Pred(q, p)]
  BY DEF IsRing
<1> QED
  BY <1>1, <1>2

(***************************************************************************)
(* __Djy_CutReadyEvent takes the event out of the ready queue, and keeps   *)
(* the ring the ring of the firsts.                                        *)
(***************************************************************************)
LEMMA CutReadyRep ==
  ASSUME NEW L, NEW pr, NEW r, NEW f, NEW d, NEW qs, Rep(L, pr, r, f, d, qs), Abs!PrioOK(pr),
         NEW e \in Abs!Elements(r), e # Service
  PROVE  \E g : Rep(CutReadyEvent(L, pr, e), pr, Abs!CutFrom(r, e), g, d, qs)
<1> DEFINE nx == L.next[e]
           M == [Unlink(L, e) EXCEPT !.ready = IF e = L.ready THEN nx ELSE @]
           C == CutReadyEvent(L, pr, e)
           r2 == Abs!CutFrom(r, e)
<1>1. /\ L \in ListsType /\ ReadyRep(L, pr, r, f) /\ DelayRep(L, d) /\ BlockRep(L, qs)
      /\ Apart(r, d, qs)
  BY DEF Rep
<1>2. /\ Abs!ReadyOK(r, pr) /\ FirstsOf(pr, r, f) /\ IsQueue(r) /\ IsQueue(f)
      /\ IsRing(L.multi_next, L.multi_previous, f)
      /\ Abs!Elements(f) \subseteq Abs!Elements(r) /\ Abs!Elements(r) \subseteq Events
  BY SMTT(60), <1>1, Places DEF ReadyRep, Abs!ReadyOK, IsQueue, FirstsOf
<1>3. PICK p \in 1..Len(r) : r[p] = e
  BY <1>2, Places
<1>4. /\ p + 1 \in 1..Len(r) /\ e \in Events
      /\ nx = r[p + 1] /\ nx \in Events /\ nx \in Abs!Elements(r)
      /\ L.ready = r[1] /\ (e = L.ready <=> p = 1)
      /\ L.multi_next[e] = NULL <=> e \notin Abs!Elements(f)
      /\ e \in Abs!Elements(f) <=> IsFirst(pr, r, p)
  BY <1>1, <1>3, ReadyPlace
<1>5. /\ M \in ListsType /\ SameMulti(L, M)
      /\ M.delay = L.delay /\ M.head = L.head /\ M.sync_head = L.sync_head
      /\ LinksKept(L, M, Abs!Elements(r))
      /\ Abs!ReadyOK(r2, pr) /\ IsRing(M.next, M.previous, r2) /\ M.ready = r2[1]
  BY <1>1, <1>3, CutLinks
<1>6. Abs!Elements(r2) = Abs!Elements(r) \ {e} /\ IsQueue(r2)
  BY <1>2, <1>3, CutPlaces
<1>7. C = IF e # L.ready /\ L.multi_next[e] = NULL
          THEN M
          ELSE IF pr[nx] = pr[e]
               THEN MultiReplace(M, e, nx)
               ELSE [M EXCEPT !.multi_previous[nx] = L.multi_previous[e],
                              !.multi_next[L.multi_previous[e]] = nx]
  BY DEF CutReadyEvent
<1>8. Apart(r2, d, qs)
  BY <1>1, <1>6 DEF Apart
<1> HIDE DEF M, C, nx, r2
<1>9. ASSUME NEW N, N \in ListsType, N.next = M.next, N.previous = M.previous,
             N.ready = M.ready, N.delay = M.delay, N.head = M.head, N.sync_head = M.sync_head,
             MultiKept(L, N, Abs!Elements(r)), NEW g, FirstsOf(pr, r2, g),
             IsRing(N.multi_next, N.multi_previous, g),
             \A x \in Abs!Elements(r2) \ Abs!Elements(g) : N.multi_next[x] = NULL
      PROVE  Rep(N, pr, r2, g, d, qs)
  <2>1. ReadyRep(N, pr, r2, g)
    BY <1>5, <1>9 DEF ReadyRep
  <2>2. DelayRep(N, d)
    <3>1. LinksKept(L, N, Abs!Elements(r)) /\ N.delay = L.delay
      BY <1>5, <1>9 DEF LinksKept
    <3> QED
      BY <1>1, <3>1, DelayKept DEF Apart
  <2>3. BlockRep(N, qs)
    <3>1. N.head = L.head /\ N.sync_head = L.sync_head
      BY <1>5, <1>9
    <3> QED
      BY <1>1, <1>9, <3>1, BlockKept DEF Apart
  <2> QED
    BY <1>8, <1>9, <2>1, <2>2, <2>3 DEF Rep
<1>10. CASE e \notin Abs!Elements(f)
  <2>1. C = M
    BY <1>4, <1>7, <1>10 DEF IsFirst
  <2>2. FirstsOf(pr, r2, f)
    BY <1>2, <1>3, <1>4, <1>10, FirstsCutOther DEF r2
  <2>3. MultiKept(L, M, Abs!Elements(r)) /\ IsRing(M.multi_next, M.multi_previous, f)
    BY <1>2, <1>5 DEF SameMulti, MultiKept
  <2>4. \A x \in Abs!Elements(r2) \ Abs!Elements(f) : M.multi_next[x] = NULL
    BY <1>1, <1>5, <1>6 DEF SameMulti, ReadyRep
  <2>5. Rep(M, pr, r2, f, d, qs)
    BY ONLY <1>5, <1>9, <2>2, <2>3, <2>4
  <2> QED
    BY <2>1, <2>5 DEF C, r2
<1>11. CASE e \in Abs!Elements(f)
  <2>1. PICK j \in 1..Len(f) : f[j] = e
    BY <1>11 DEF Abs!Elements
  <2>2. /\ L.multi_next[e] = f[Succ(f, j)] /\ L.multi_next[e] \in Events /\ L.multi_next[e] \in Abs!Elements(r)
        /\ L.multi_previous[e] \in Events /\ L.multi_previous[e] \in Abs!Elements(r)
    BY <1>2, <2>1, RingPlace
  <2>3. M.multi_next = L.multi_next /\ M.multi_previous = L.multi_previous
    BY <1>5 DEF SameMulti
  <2>4. CASE pr[nx] = pr[e]
    <3> DEFINE g == [f EXCEPT ![j] = nx]
    <3>1. C = MultiReplace(M, e, nx)
      BY <1>4, <1>7, <1>11, <2>4
    <3>2. /\ nx \notin Abs!Elements(f) /\ j < Len(f) /\ FirstsOf(pr, r2, g)
      BY <1>2, <1>3, <1>4, <2>1, <2>4, FirstsCutReplace DEF r2
    <3>3. /\ C \in ListsType /\ SameLinks(M, C) /\ SameHeads(M, C)
          /\ \A z \in Events : C.multi_next[z]
               = IF z = nx THEN M.multi_next[e]
                 ELSE IF z = M.multi_previous[e] THEN nx ELSE M.multi_next[z]
          /\ \A z \in Events : C.multi_previous[z]
               = IF z = M.multi_next[e] THEN nx
                 ELSE IF z = nx THEN M.multi_previous[e] ELSE M.multi_previous[z]
      BY SMTT(60), <1>4, <1>5, <2>2, <2>3, <3>1, MultiReplaceFields
    <3> HIDE DEF g
    <3>4. L.multi_previous[e] \in Abs!Elements(f) /\ L.multi_next[e] \in Abs!Elements(f)
      BY <1>2, <2>1, RingPlace
    <3>5. IsRing(C.multi_next, C.multi_previous, g)
      <4>1. /\ C.multi_next[L.multi_previous[f[j]]] = nx
            /\ C.multi_next[nx] = L.multi_next[f[j]]
            /\ C.multi_previous[nx] = L.multi_previous[f[j]]
            /\ C.multi_previous[L.multi_next[f[j]]] = nx
        BY <1>4, <2>1, <2>2, <2>3, <3>2, <3>3, <3>4
      <4>2. \A z \in Abs!Elements(f) \ {f[j]} :
              /\ z # L.multi_previous[f[j]] => C.multi_next[z] = L.multi_next[z]
              /\ z # L.multi_next[f[j]] => C.multi_previous[z] = L.multi_previous[z]
        BY <1>2, <2>1, <2>3, <3>2, <3>3
      <4>3. Len(f) > 1
        BY <1>2, <3>2, Places
      <4> QED
        BY <1>2, <3>2, <4>1, <4>2, <4>3, ReplaceRing DEF g
    <3>6. MultiKept(L, C, Abs!Elements(r))
      BY <1>2, <1>4, <2>2, <2>3, <3>3 DEF MultiKept
    <3>7. \A x \in Abs!Elements(r2) \ Abs!Elements(g) : C.multi_next[x] = NULL
      <4>1. \A x : x \in Abs!Elements(g) <=> \E i \in 1..Len(f) : x = IF i = j THEN nx ELSE f[i]
        BY <1>2 DEF g, Abs!Elements, IsQueue
      <4>2. nx \in Abs!Elements(g) /\ \A x \in Abs!Elements(f) : x # e => x \in Abs!Elements(g)
        BY <2>1, <4>1 DEF Abs!Elements
      <4> SUFFICES ASSUME NEW x \in Abs!Elements(r2) \ Abs!Elements(g) PROVE C.multi_next[x] = NULL
        OBVIOUS
      <4>3. x \in Events /\ x \in Abs!Elements(r) /\ x \notin Abs!Elements(f) /\ x # nx
        BY <1>2, <1>6, <4>2
      <4>4. L.multi_next[x] = NULL /\ x # L.multi_previous[e]
        BY <1>1, <3>4, <4>3 DEF ReadyRep
      <4> QED
        BY <2>3, <3>3, <4>3, <4>4
    <3>8. /\ C \in ListsType /\ C.next = M.next /\ C.previous = M.previous /\ C.ready = M.ready
          /\ C.delay = M.delay /\ C.head = M.head /\ C.sync_head = M.sync_head
      BY <3>3 DEF SameLinks, SameHeads
    <3>9. Rep(C, pr, r2, g, d, qs)
      BY ONLY <1>9, <3>2, <3>5, <3>6, <3>7, <3>8
    <3> QED
      BY <3>9 DEF C, r2
  <2>5. CASE pr[nx] # pr[e]
    <3> DEFINE g == Abs!CutFrom(f, f[j])
    <3>1. C = [M EXCEPT !.multi_previous[nx] = L.multi_previous[e],
                        !.multi_next[L.multi_previous[e]] = nx]
      BY <1>4, <1>7, <1>11, <2>5
    <3>2. j + 1 \in 1..Len(f) /\ f[j + 1] = nx /\ FirstsOf(pr, r2, g)
      BY SMTT(60), <1>2, <1>3, <1>4, <2>1, <2>5, FirstsCutAlone DEF r2
    <3>3. L.multi_next[e] = nx /\ Len(f) > 1
      <4>1. Succ(f, j) = j + 1 /\ Len(f) > 1
        <5>1. Len(f) \in Nat
          BY <1>2, Places
        <5> QED
          BY <3>2, <5>1 DEF Succ
      <4> QED
        BY <2>2, <3>2, <4>1
    <3>4. /\ C \in ListsType /\ SameLinks(M, C) /\ SameHeads(M, C)
          /\ \A z \in Events : C.multi_next[z] = IF z = L.multi_previous[e] THEN nx ELSE M.multi_next[z]
          /\ \A z \in Events : C.multi_previous[z] = IF z = nx THEN L.multi_previous[e] ELSE M.multi_previous[z]
      BY <1>4, <1>5, <2>2, <3>1 DEF ListsType, Pointers, SameLinks, SameHeads
    <3> HIDE DEF g
    <3>5. IsRing(C.multi_next, C.multi_previous, g)
      <4>1. /\ C.multi_next[L.multi_previous[f[j]]] = L.multi_next[f[j]]
            /\ C.multi_previous[L.multi_next[f[j]]] = L.multi_previous[f[j]]
            /\ \A z \in Abs!Elements(f) \ {f[j]} :
                 /\ z # L.multi_previous[f[j]] => C.multi_next[z] = L.multi_next[z]
                 /\ z # L.multi_next[f[j]] => C.multi_previous[z] = L.multi_previous[z]
        BY <1>2, <1>4, <2>1, <2>2, <2>3, <3>3, <3>4
      <4> QED
        BY SMTT(60), <1>2, <3>3, <4>1, UnlinkRing DEF g
    <3>6. MultiKept(L, C, Abs!Elements(r))
      BY <1>2, <1>4, <2>2, <2>3, <3>4 DEF MultiKept
    <3>7. \A x \in Abs!Elements(r2) \ Abs!Elements(g) : C.multi_next[x] = NULL
      <4>1. Abs!Elements(g) = Abs!Elements(f) \ {e}
        BY <1>2, <2>1, CutPlaces DEF g
      <4> SUFFICES ASSUME NEW x \in Abs!Elements(r2) \ Abs!Elements(g) PROVE C.multi_next[x] = NULL
        OBVIOUS
      <4>2. x \in Events /\ x \in Abs!Elements(r) /\ x \notin Abs!Elements(f)
        BY <1>2, <1>6, <4>1
      <4>3. L.multi_previous[e] \in Abs!Elements(f)
        BY <1>2, <2>1, RingPlace
      <4>4. L.multi_next[x] = NULL /\ x # L.multi_previous[e]
        BY <1>1, <4>2, <4>3 DEF ReadyRep
      <4> QED
        BY <2>3, <3>4, <4>2, <4>4
    <3>8. /\ C \in ListsType /\ C.next = M.next /\ C.previous = M.previous /\ C.ready = M.ready
          /\ C.delay = M.delay /\ C.head = M.head /\ C.sync_head = M.sync_head
      BY <3>4 DEF SameLinks, SameHeads
    <3>9. Rep(C, pr, r2, g, d, qs)
      BY ONLY <1>9, <3>2, <3>5, <3>6, <3>7, <3>8
    <3> QED
      BY <3>9 DEF C, r2
  <2> QED
    BY <2>4, <2>5
<1> QED
  BY <1>10, <1>11 DEF C, r2
--------------------------------------------------------------------------------
(* Where __Djy_EventReady links a new event, and what is in front of it. *)
LEMMA ReadySearch ==
  ASSUME NEW L, NEW pr, NEW r, NEW f, ReadyRep(L, pr, r, f), L \in ListsType, Abs!PrioOK(pr),
         NEW e \in Events \ {Service}, e \notin Abs!Elements(r)
  PROVE  LET p == Abs!InsertPos(r, pr, e)
             j == Abs!InsertPos(f, pr, e)
             at == Search(L.multi_next, L.ready, pr, e)
             r2 == Abs!InsertSorted(r, pr, e)
         IN  /\ p \in 1..Len(r) /\ j \in 1..Len(f) /\ at = r[p] /\ at = f[j]
             /\ at \in Events /\ at \in Abs!Elements(f) /\ at \in Abs!Elements(r) /\ e # at
             /\ L.previous[at] \in Events /\ L.previous[at] \in Abs!Elements(r)
             /\ L.multi_previous[at] \in Events /\ L.multi_previous[at] \in Abs!Elements(f)
             /\ pr[e] # pr[L.previous[at]] <=> IsFirst(pr, r2, p)
             /\ pr[e] < pr[L.ready] <=> p = 1
             /\ r2[1] = IF p = 1 THEN e ELSE L.ready
<1> DEFINE p == Abs!InsertPos(r, pr, e)
           j == Abs!InsertPos(f, pr, e)
           at == Search(L.multi_next, L.ready, pr, e)
           r2 == Abs!InsertSorted(r, pr, e)
<1>1. /\ Abs!ReadyOK(r, pr) /\ IsRing(L.next, L.previous, r) /\ L.ready = r[1]
      /\ FirstsOf(pr, r, f) /\ IsRing(L.multi_next, L.multi_previous, f)
      /\ IsQueue(r) /\ IsQueue(f)
  BY DEF ReadyRep, Abs!ReadyOK, IsQueue, FirstsOf
<1>2. /\ Len(r) \in Nat /\ Len(f) \in Nat /\ Len(r) > 0 /\ Len(f) > 0 /\ f[1] = r[1]
      /\ r[Len(r)] = Service /\ \A x \in Events : pr[x] \in Nat
      /\ \A i \in 1..Len(r) : pr[r[i]] \in Nat
  BY <1>1, FirstsFacts
<1>3. /\ p \in 1..Len(r) /\ j \in 1..Len(f) /\ f[j] = r[p]
      /\ pr[r[p]] > pr[e] /\ \A i \in 1..(p - 1) : pr[r[i]] <= pr[e]
  BY <1>1, FirstsPlace
<1>4. at = Before(f, j)
  BY <1>1, <1>2, SearchFound
<1> HIDE DEF at
<1>5. at = f[j] /\ at = r[p]
  BY <1>2, <1>3, <1>4 DEF Before
<1>6. /\ at \in Events /\ at \in Abs!Elements(r)
      /\ L.previous[at] = r[Pred(r, p)]
      /\ L.previous[at] \in Events /\ L.previous[at] \in Abs!Elements(r)
  BY <1>1, <1>3, <1>5, RingPlace
<1>7. /\ at \in Abs!Elements(f)
      /\ L.multi_previous[at] \in Events /\ L.multi_previous[at] \in Abs!Elements(f)
  BY <1>1, <1>3, <1>5, RingPlace
<1>8. /\ Len(r2) = Len(r) + 1
      /\ \A i \in 1..Len(r2) : r2[i] = IF i < p THEN r[i] ELSE IF i = p THEN e ELSE r[i - 1]
  <2>1. r \in Seq(Events) /\ e \in Events /\ p \in 1..(Len(r) + 1)
    BY <1>1, <1>2, <1>3 DEF IsQueue
  <2> QED
    BY ONLY <2>1, AbsAssumption, Abs!InsertAt DEF Abs!SchedAssumption, Abs!InsertSorted
<1> HIDE DEF p, j, r2
<1>9. pr[e] \in Nat /\ pr[e] < pr[Service]
  BY <1>1, <1>2, FirstsFacts
<1>10. /\ r2[p] = e
       /\ p # 1 => p - 1 \in 1..Len(r) /\ p - 1 \in 1..(p - 1) /\ r2[p - 1] = r[p - 1] /\ r2[1] = r[1]
  <2>1. p \in 1..Len(r2) /\ 1 \in 1..Len(r2)
    BY <1>2, <1>3, <1>8
  <2>2. p # 1 => p - 1 \in 1..Len(r) /\ p - 1 \in 1..Len(r2) /\ p - 1 \in 1..(p - 1) /\ p - 1 < p /\ 1 < p
    BY SMTT(60), <1>2, <1>3, <1>8
  <2> QED
    BY <1>8, <2>1, <2>2
<1>11. pr[e] # pr[L.previous[at]] <=> IsFirst(pr, r2, p)
  <2>1. CASE p = 1
    <3>1. Pred(r, p) = Len(r)
      BY <2>1 DEF Pred
    <3> QED
      BY <1>2, <1>6, <1>9, <2>1, <3>1, EcbAssumption DEF IsFirst, EcbAssumption
  <2>2. CASE p # 1
    <3>1. Pred(r, p) = p - 1
      BY <2>2 DEF Pred
    <3> QED
      BY <1>6, <1>10, <2>2, <3>1 DEF IsFirst
  <2> QED
    BY <2>1, <2>2
<1>12. pr[e] < pr[L.ready] <=> p = 1
  <2>1. CASE p = 1
    BY <1>1, <1>2, <1>3, <1>9, <2>1
  <2>2. CASE p # 1
    <3>1. 1 \in 1..(p - 1) /\ 1 \in 1..Len(r)
      BY <1>2, <1>3, <2>2
    <3>2. pr[r[1]] <= pr[e] /\ pr[r[1]] \in Nat
      BY <1>2, <1>3, <3>1
    <3> QED
      BY <1>1, <1>9, <2>2, <3>2
  <2> QED
    BY <2>1, <2>2
<1> QED
  BY SMTT(60), <1>1, <1>3, <1>5, <1>6, <1>7, <1>10, <1>11, <1>12 DEF p, j, at, r2

(***************************************************************************)
(* __Djy_EventReady is the insertion into the sorted ready queue.          *)
(***************************************************************************)
LEMMA EventReadyRep ==
  ASSUME NEW L, NEW pr, NEW r, NEW f, NEW d, NEW qs, Rep(L, pr, r, f, d, qs), Abs!PrioOK(pr),
         NEW e \in Events \ {Service}, e \notin Abs!Elements(r), e \notin Abs!Elements(d),
         \A s \in Syncs : e \notin Abs!Elements(qs[s])
  PROVE  \E g : Rep(EventReady(L, pr, e), pr, Abs!InsertSorted(r, pr, e), g, d, qs)
<1> DEFINE p == Abs!InsertPos(r, pr, e)
           j == Abs!InsertPos(f, pr, e)
           at == Search(L.multi_next, L.ready, pr, e)
           r2 == Abs!InsertSorted(r, pr, e)
           S == Abs!Elements(r) \union {e}
           M == LinkBefore(L, at, e)
           N == IF pr[e] # pr[M.previous[e]]
                THEN MultiLinkBefore(M, at, e)
                ELSE [M EXCEPT !.multi_next[e] = NULL, !.multi_previous[e] = NULL]
           E == EventReady(L, pr, e)
<1>1. /\ L \in ListsType /\ ReadyRep(L, pr, r, f) /\ DelayRep(L, d) /\ BlockRep(L, qs)
      /\ Apart(r, d, qs)
  BY DEF Rep
<1>2. /\ Abs!ReadyOK(r, pr) /\ FirstsOf(pr, r, f) /\ IsQueue(r) /\ IsQueue(f)
      /\ IsRing(L.next, L.previous, r) /\ IsRing(L.multi_next, L.multi_previous, f)
      /\ Abs!Elements(f) \subseteq Abs!Elements(r) /\ Abs!Elements(r) \subseteq Events
      /\ Len(r) > 0 /\ Len(f) > 0 /\ Len(r) \in Nat /\ Len(f) \in Nat
  BY <1>1, Places DEF ReadyRep, Abs!ReadyOK, IsQueue, FirstsOf
<1>3. /\ p \in 1..Len(r) /\ j \in 1..Len(f) /\ at = r[p] /\ at = f[j]
      /\ at \in Events /\ at \in Abs!Elements(f) /\ at \in Abs!Elements(r) /\ e # at
      /\ L.previous[at] \in Events /\ L.previous[at] \in Abs!Elements(r)
      /\ L.multi_previous[at] \in Events /\ L.multi_previous[at] \in Abs!Elements(f)
      /\ pr[e] # pr[L.previous[at]] <=> IsFirst(pr, r2, p)
      /\ pr[e] < pr[L.ready] <=> p = 1
      /\ r2[1] = IF p = 1 THEN e ELSE L.ready
  BY <1>1, ReadySearch
<1>4. E = [N EXCEPT !.ready = IF pr[e] < pr[L.ready] THEN e ELSE @]
  BY DEF EventReady
<1>5. FirstsOf(pr, r2, IF IsFirst(pr, r2, p) THEN Abs!InsertSorted(f, pr, e) ELSE f)
  BY <1>2, FirstsInsert
<1>6. Abs!ReadyOK(r2, pr) /\ Abs!Elements(r2) = S
  BY <1>2, AbsAssumption, Abs!ReadyInsert DEF Abs!SchedAssumption
<1>7. r2 = Abs!InsertAtPos(r, p, e) /\ Abs!InsertSorted(f, pr, e) = Abs!InsertAtPos(f, j, e)
  BY DEF Abs!InsertSorted
<1> HIDE DEF p, j, at, r2
<1>8. /\ M \in ListsType /\ SameMulti(L, M) /\ SameHeads(L, M)
      /\ \A z \in Events : M.next[z]
           = IF z = L.previous[at] THEN e ELSE IF z = e THEN at ELSE L.next[z]
      /\ \A z \in Events : M.previous[z]
           = IF z = at THEN e ELSE IF z = e THEN L.previous[at] ELSE L.previous[z]
  BY <1>1, <1>3, LinkBeforeFields
<1> HIDE DEF M
<1>9. IsRing(M.next, M.previous, r2)
  <2>1. at = Before(r, p) /\ p \in 1..(Len(r) + 1)
    BY <1>2, <1>3 DEF Before
  <2>2. /\ M.next[e] = at /\ M.next[L.previous[at]] = e
        /\ M.previous[e] = L.previous[at] /\ M.previous[at] = e
    BY <1>3, <1>8
  <2>3. \A z \in Abs!Elements(r) : /\ z # L.previous[at] => M.next[z] = L.next[z]
                                   /\ z # at => M.previous[z] = L.previous[z]
    BY <1>2, <1>8
  <2> QED
    BY <1>2, <1>7, <2>1, <2>2, <2>3, LinkRing
<1>10. M.previous[e] = L.previous[at]
  BY <1>3, <1>8
<1>11. LinksKept(L, M, S)
  BY <1>3, <1>8 DEF LinksKept
<1>12. ASSUME NEW K, K \in ListsType, SameLinks(M, K), SameHeads(M, K),
              MultiKept(L, K, S), NEW g, FirstsOf(pr, r2, g),
              IsRing(K.multi_next, K.multi_previous, g),
              \A x \in Abs!Elements(r2) \ Abs!Elements(g) : K.multi_next[x] = NULL,
              E = [K EXCEPT !.ready = IF pr[e] < pr[L.ready] THEN e ELSE @]
       PROVE  Rep(E, pr, r2, g, d, qs)
  <2>1. /\ E \in ListsType /\ E.next = M.next /\ E.previous = M.previous
        /\ E.multi_next = K.multi_next /\ E.multi_previous = K.multi_previous
        /\ E.delay = L.delay /\ E.head = L.head /\ E.sync_head = L.sync_head
        /\ E.ready = IF p = 1 THEN e ELSE L.ready
    <3>1. /\ K \in ListsType /\ K.next = M.next /\ K.previous = M.previous
          /\ K.delay = L.delay /\ K.head = L.head /\ K.sync_head = L.sync_head /\ K.ready = L.ready
      BY <1>8, <1>12 DEF SameLinks, SameHeads
    <3>2. E = [K EXCEPT !.ready = IF p = 1 THEN e ELSE @]
      BY <1>3, <1>12
    <3> QED
      BY <3>1, <3>2 DEF ListsType
  <2> HIDE DEF E
  <2>2. ReadyRep(E, pr, r2, g)
    BY <1>3, <1>6, <1>9, <1>12, <2>1 DEF ReadyRep
  <2>3. DelayRep(E, d)
    <3>1. LinksKept(L, E, S)
      BY <1>11, <2>1 DEF LinksKept
    <3>2. Abs!Elements(d) \intersect S = {}
      BY <1>1 DEF Apart
    <3> QED
      BY <1>1, <2>1, <3>1, <3>2, DelayKept
  <2>4. BlockRep(E, qs)
    <3>1. MultiKept(L, E, S)
      BY <1>12, <2>1 DEF MultiKept
    <3>2. \A s \in Syncs : Abs!Elements(qs[s]) \intersect S = {}
      BY <1>1 DEF Apart
    <3> QED
      BY <1>1, <2>1, <3>1, <3>2, BlockKept
  <2>5. Apart(r2, d, qs)
    BY <1>1, <1>6 DEF Apart
  <2> QED
    BY <2>1, <2>2, <2>3, <2>4, <2>5 DEF Rep
<1>13. CASE IsFirst(pr, r2, p)
  <2> DEFINE K == MultiLinkBefore(M, at, e)
             g == Abs!InsertAtPos(f, j, e)
  <2>1. E = [K EXCEPT !.ready = IF pr[e] < pr[L.ready] THEN e ELSE @]
    BY <1>3, <1>4, <1>10, <1>13
  <2>2. M.multi_next = L.multi_next /\ M.multi_previous = L.multi_previous
    BY <1>8 DEF SameMulti
  <2>3. /\ K \in ListsType /\ SameLinks(M, K) /\ SameHeads(M, K)
        /\ \A z \in Events : K.multi_next[z]
             = IF z = e THEN at ELSE IF z = L.multi_previous[at] THEN e ELSE L.multi_next[z]
        /\ \A z \in Events : K.multi_previous[z]
             = IF z = at THEN e ELSE IF z = e THEN L.multi_previous[at] ELSE L.multi_previous[z]
    <3>1. M.multi_previous[at] \in Events
      BY <1>3, <2>2
    <3> QED
      BY SMTT(60), <1>3, <1>8, <2>2, <3>1, MultiLinkBeforeFields
  <2> HIDE DEF K
  <2>4. IsRing(K.multi_next, K.multi_previous, g)
    <3>1. at = Before(f, j) /\ j \in 1..(Len(f) + 1) /\ e \notin Abs!Elements(f)
      BY <1>2, <1>3 DEF Before
    <3>2. /\ K.multi_next[e] = at /\ K.multi_next[L.multi_previous[at]] = e
          /\ K.multi_previous[e] = L.multi_previous[at] /\ K.multi_previous[at] = e
      BY <1>2, <1>3, <2>3
    <3>3. \A z \in Abs!Elements(f) : /\ z # L.multi_previous[at] => K.multi_next[z] = L.multi_next[z]
                                     /\ z # at => K.multi_previous[z] = L.multi_previous[z]
      BY <1>2, <2>3
    <3> QED
      BY <1>2, <3>1, <3>2, <3>3, LinkRing
  <2>5. FirstsOf(pr, r2, g)
    BY <1>5, <1>7, <1>13
  <2>6. MultiKept(L, K, S)
    BY <1>2, <1>3, <2>3 DEF MultiKept
  <2>7. \A x \in Abs!Elements(r2) \ Abs!Elements(g) : K.multi_next[x] = NULL
    <3>1. Abs!Elements(g) = Abs!Elements(f) \union {e}
      <4>1. f \in Seq(Events) /\ Abs!NoDuplicates(f) /\ \A x \in Events : pr[x] \in Nat
        BY <1>2 DEF IsQueue, Abs!PrioOK
      <4>2. Abs!SortedBy(f, pr)
        <5>1. \A a, b \in 1..Len(f) : a < b => pr[f[a]] < pr[f[b]] /\ pr[f[a]] \in Nat /\ pr[f[b]] \in Nat
          BY <1>2, FirstsFacts
        <5> QED
          BY <5>1 DEF Abs!SortedBy
      <4>3. e \notin Abs!Elements(f)
        BY <1>2
      <4> QED
        BY <1>7, <4>1, <4>2, <4>3, AbsAssumption, Abs!Inserted DEF Abs!SchedAssumption
    <3> SUFFICES ASSUME NEW x \in Abs!Elements(r2) \ Abs!Elements(g) PROVE K.multi_next[x] = NULL
      OBVIOUS
    <3>2. x \in Events /\ x \in Abs!Elements(r) \ Abs!Elements(f) /\ x # e
      BY <1>2, <1>6, <3>1
    <3>3. L.multi_next[x] = NULL
      BY <1>1, <3>2 DEF ReadyRep
    <3> QED
      BY <1>3, <2>3, <3>2, <3>3
  <2>8. Rep(E, pr, r2, g, d, qs)
    BY ONLY <1>12, <2>1, <2>3, <2>4, <2>5, <2>6, <2>7
  <2> QED
    BY <2>8 DEF r2
<1>14. CASE ~IsFirst(pr, r2, p)
  <2> DEFINE K == [M EXCEPT !.multi_next[e] = NULL, !.multi_previous[e] = NULL]
  <2>1. E = [K EXCEPT !.ready = IF pr[e] < pr[L.ready] THEN e ELSE @]
    BY <1>3, <1>4, <1>10, <1>14
  <2>2. M.multi_next = L.multi_next /\ M.multi_previous = L.multi_previous
    BY <1>8 DEF SameMulti
  <2>3. /\ K \in ListsType /\ SameLinks(M, K) /\ SameHeads(M, K)
        /\ \A z \in Events : K.multi_next[z] = IF z = e THEN NULL ELSE L.multi_next[z]
        /\ \A z \in Events : K.multi_previous[z] = IF z = e THEN NULL ELSE L.multi_previous[z]
    BY <1>8, <2>2 DEF ListsType, Pointers, SameLinks, SameHeads
  <2> HIDE DEF K
  <2>4. IsRing(K.multi_next, K.multi_previous, f)
    BY <1>2, <2>3, SameRing
  <2>5. FirstsOf(pr, r2, f)
    BY <1>5, <1>14
  <2>6. MultiKept(L, K, S)
    BY <2>3 DEF MultiKept
  <2>7. \A x \in Abs!Elements(r2) \ Abs!Elements(f) : K.multi_next[x] = NULL
    <3>1. \A x \in Abs!Elements(r) \ Abs!Elements(f) : L.multi_next[x] = NULL
      BY <1>1 DEF ReadyRep
    <3> QED
      BY <1>2, <1>6, <2>3, <3>1
  <2>8. Rep(E, pr, r2, f, d, qs)
    BY ONLY <1>12, <2>1, <2>3, <2>4, <2>5, <2>6, <2>7
  <2> QED
    BY SMTT(60), <2>8 DEF r2
<1> QED
  BY <1>13, <1>14
--------------------------------------------------------------------------------
(***************************************************************************)
(* A list that may be empty: the alarm queue and the block queues.         *)
(***************************************************************************)
(* What its head and its links say about its length. *)
LEMMA ListHead ==
  ASSUME NEW nxt, NEW prv, NEW h, NEW q, IsList(nxt, prv, h, q)
  PROVE  /\ IsQueue(q) /\ IsRing(nxt, prv, q) /\ Len(q) \in Nat /\ q \in Seq(Events)
         /\ h = NULL <=> Len(q) = 0
         /\ h = NULL <=> q = << >>
         /\ Len(q) > 0 => /\ h = q[1] /\ h = Head(q) /\ h \in Events /\ h \in Abs!Elements(q)
                          /\ nxt[h] \in Events /\ prv[h] \in Events
                          /\ nxt[h] \in Abs!Elements(q) /\ prv[h] \in Abs!Elements(q)
                          /\ nxt[h] = h <=> Len(q) = 1
<1>1. /\ IsQueue(q) /\ IsRing(nxt, prv, q) /\ Len(q) \in Nat /\ q \in Seq(Events)
      /\ h = IF Len(q) = 0 THEN NULL ELSE q[1]
  BY DEF IsList, IsQueue
<1>2. ASSUME Len(q) > 0
      PROVE  /\ h = q[1] /\ h = Head(q) /\ h \in Events /\ h \in Abs!Elements(q)
             /\ nxt[h] = q[Succ(q, 1)]
             /\ nxt[h] \in Events /\ prv[h] \in Events
             /\ nxt[h] \in Abs!Elements(q) /\ prv[h] \in Abs!Elements(q)
  <2>1. 1 \in 1..Len(q) /\ h = q[1] /\ h = Head(q)
    BY <1>1, <1>2
  <2>2. /\ q[1] \in Events /\ q[1] \in Abs!Elements(q)
        /\ nxt[q[1]] = q[Succ(q, 1)] /\ nxt[q[1]] \in Events /\ nxt[q[1]] \in Abs!Elements(q)
        /\ prv[q[1]] \in Events /\ prv[q[1]] \in Abs!Elements(q)
    BY ONLY <1>1, <2>1, RingPlace
  <2> QED
    BY <2>1, <2>2
<1>3. ASSUME Len(q) > 0 PROVE nxt[h] = h <=> Len(q) = 1
  <2>1. \A i, j \in 1..Len(q) : q[i] = q[j] => i = j
    BY <1>1, Places
  <2>2. 1 \in 1..Len(q) /\ Succ(q, 1) \in 1..Len(q) /\ (Succ(q, 1) = 1 <=> Len(q) = 1)
    <3>1. Len(q) \in Nat
      BY <1>1
    <3>2. \A n \in Nat : n > 0 => /\ 1 \in 1..n /\ (IF 1 = n THEN 1 ELSE 1 + 1) \in 1..n
                                  /\ (IF 1 = n THEN 1 ELSE 1 + 1) = 1 <=> n = 1
      OBVIOUS
    <3> QED
      BY ONLY <1>3, <3>1, <3>2 DEF Succ
  <2> QED
    BY <1>2, <1>3, <2>1, <2>2
<1>4. q = << >> <=> Len(q) = 0
  BY <1>1
<1>5. h = NULL <=> Len(q) = 0
  BY <1>1, <1>2, EcbAssumption DEF EcbAssumption
<1> QED
  BY <1>1, <1>2, <1>3, <1>4, <1>5

(* The first event of a list. *)
LEMMA ListFirst ==
  ASSUME NEW q, IsQueue(q), Len(q) = 0, NEW e \in Events, NEW n2, NEW p2, n2[e] = e, p2[e] = e
  PROVE  /\ IsList(n2, p2, e, Append(q, e))
         /\ Abs!Elements(Append(q, e)) = {e}
         /\ \A key : (\A x \in Events : key[x] \in Nat) => Abs!InsertSorted(q, key, e) = Append(q, e)
<1> DEFINE a == Append(q, e)
<1>1. q \in Seq(Events) /\ a \in Seq(Events) /\ Len(a) = 1 /\ a[1] = e
  BY DEF IsQueue
<1>2. ASSUME NEW key, \A x \in Events : key[x] \in Nat PROVE Abs!InsertSorted(q, key, e) = a
  <2> DEFINE p == Abs!InsertPos(q, key, e)
             b == Abs!InsertAtPos(q, p, e)
  <2>1. p \in 1..(Len(q) + 1)
    BY <1>1, <1>2, AbsAssumption, Abs!InsertPosFound DEF Abs!SchedAssumption
  <2> HIDE DEF p
  <2>2. p = 1
    BY <2>1
  <2>3. /\ b \in Seq(Events) /\ Len(b) = Len(q) + 1
        /\ \A i \in 1..Len(b) : b[i] = IF i < p THEN q[i] ELSE IF i = p THEN e ELSE q[i - 1]
    BY ONLY <1>1, <2>1, e \in Events, AbsAssumption, Abs!InsertAt DEF Abs!SchedAssumption
  <2> HIDE DEF b
  <2>4. Len(b) = 1 /\ b[1] = e
    BY <2>2, <2>3
  <2>5. \A i \in 1..Len(b) : b[i] = a[i]
    BY <1>1, <2>4
  <2>6. b = a
    BY <1>1, <2>3, <2>4, <2>5, SeqEqual
  <2> QED
    BY <2>6 DEF Abs!InsertSorted, b, p
<1> HIDE DEF a
<1>3. IsQueue(a) /\ Abs!Elements(a) = {e}
  BY <1>1 DEF IsQueue, Abs!NoDuplicates, Abs!Elements
<1>4. IsRing(n2, p2, a)
  BY <1>1 DEF IsRing, Succ, Pred
<1> QED
  BY <1>1, <1>2, <1>3, <1>4 DEF IsList, a

(* An event enters a sorted list that has events. *)
LEMMA ListInsert ==
  ASSUME NEW nxt, NEW prv, NEW h, NEW q, IsList(nxt, prv, h, q), Len(q) > 0,
         NEW key, \A x \in Events : key[x] \in Nat, Abs!SortedBy(q, key),
         NEW e \in Events, e \notin Abs!Elements(q),
         NEW at, at = Search(nxt, h, key, e), NEW h2, h2 = IF key[h] > key[e] THEN e ELSE h
  PROVE  /\ at \in Events /\ at \in Abs!Elements(q) /\ at # e
         /\ prv[at] \in Events /\ prv[at] \in Abs!Elements(q)
         /\ Abs!Elements(Abs!InsertSorted(q, key, e)) = Abs!Elements(q) \union {e}
         /\ \A n2, p2 :
              /\ n2[e] = at /\ n2[prv[at]] = e /\ p2[e] = prv[at] /\ p2[at] = e
              /\ \A z \in Abs!Elements(q) : /\ z # prv[at] => n2[z] = nxt[z]
                                            /\ z # at => p2[z] = prv[z]
              => IsList(n2, p2, h2, Abs!InsertSorted(q, key, e))
<1> DEFINE p == Abs!InsertPos(q, key, e)
           b == Abs!InsertSorted(q, key, e)
<1>1. /\ IsQueue(q) /\ IsRing(nxt, prv, q) /\ Len(q) \in Nat /\ q \in Seq(Events)
      /\ h = q[1] /\ Abs!NoDuplicates(q)
  BY ListHead DEF IsQueue
<1>2. /\ p \in 1..(Len(q) + 1) /\ at = Before(q, p)
      /\ key[q[1]] > key[e] <=> p = 1
  BY <1>1, SearchFound
<1>3. /\ Len(b) = Len(q) + 1 /\ b \in Seq(Events) /\ Abs!NoDuplicates(b)
      /\ Abs!Elements(b) = Abs!Elements(q) \union {e}
  BY <1>1, AbsAssumption, Abs!Inserted DEF Abs!SchedAssumption
<1>4. /\ b = Abs!InsertAtPos(q, p, e)
      /\ \A i \in 1..Len(b) : b[i] = IF i < p THEN q[i] ELSE IF i = p THEN e ELSE q[i - 1]
  <2>1. b = Abs!InsertAtPos(q, p, e)
    BY DEF Abs!InsertSorted
  <2> HIDE DEF b
  <2> QED
    BY ONLY <1>1, <1>2, <2>1, e \in Events, AbsAssumption, Abs!InsertAt DEF Abs!SchedAssumption
<1> HIDE DEF p, b
<1>5. \E a \in 1..Len(q) : at = q[a]
  BY <1>1, <1>2 DEF Before
<1>6. /\ at \in Events /\ at \in Abs!Elements(q) /\ at # e
      /\ prv[at] \in Events /\ prv[at] \in Abs!Elements(q)
  BY <1>1, <1>5, RingPlace
<1>7. h2 = b[1] /\ Len(b) # 0
  <2>1. 1 \in 1..Len(b) /\ (p = 1 \/ 1 < p)
    BY <1>1, <1>2, <1>3
  <2> QED
    BY <1>1, <1>2, <1>3, <1>4, <2>1
<1>8. ASSUME NEW n2, NEW p2,
             n2[e] = at, n2[prv[at]] = e, p2[e] = prv[at], p2[at] = e,
             \A z \in Abs!Elements(q) : /\ z # prv[at] => n2[z] = nxt[z]
                                        /\ z # at => p2[z] = prv[z]
      PROVE  IsList(n2, p2, h2, b)
  <2>1. IsRing(n2, p2, Abs!InsertAtPos(q, p, e))
    BY <1>1, <1>2, <1>8, LinkRing
  <2> QED
    BY <1>3, <1>4, <1>7, <2>1 DEF IsList, IsQueue
<1> QED
  BY <1>3, <1>6, <1>8 DEF b

(* An event enters a list at its end. *)
LEMMA ListAppend ==
  ASSUME NEW nxt, NEW prv, NEW h, NEW q, IsList(nxt, prv, h, q), Len(q) > 0,
         NEW e \in Events, e \notin Abs!Elements(q), NEW n2, NEW p2,
         n2[e] = h, n2[prv[h]] = e, p2[e] = prv[h], p2[h] = e,
         \A z \in Abs!Elements(q) : /\ z # prv[h] => n2[z] = nxt[z]
                                    /\ z # h => p2[z] = prv[z]
  PROVE  /\ IsList(n2, p2, h, Append(q, e))
         /\ Abs!Elements(Append(q, e)) = Abs!Elements(q) \union {e}
<1> DEFINE a == Append(q, e)
           p == Len(q) + 1
           b == Abs!InsertAtPos(q, p, e)
<1>1. /\ IsQueue(q) /\ IsRing(nxt, prv, q) /\ Len(q) \in Nat /\ q \in Seq(Events)
      /\ h = q[1] /\ Abs!NoDuplicates(q)
  BY ListHead DEF IsQueue
<1>2. p \in 1..(Len(q) + 1) /\ h = Before(q, p) /\ p = Len(q) + 1
  BY <1>1 DEF Before
<1> HIDE DEF p
<1>3. IsRing(n2, p2, b)
  BY <1>1, <1>2, LinkRing
<1>4. /\ b \in Seq(Events) /\ Len(b) = Len(q) + 1
      /\ \A i \in 1..Len(b) : b[i] = IF i < p THEN q[i] ELSE IF i = p THEN e ELSE q[i - 1]
  BY ONLY <1>1, <1>2, e \in Events, AbsAssumption, Abs!InsertAt DEF Abs!SchedAssumption
<1>5. /\ a \in Seq(Events) /\ Len(a) = Len(q) + 1 /\ a[1] = q[1]
      /\ \A i \in 1..Len(a) : a[i] = IF i < p THEN q[i] ELSE e
  <2>1. /\ a \in Seq(Events) /\ Len(a) = Len(q) + 1
        /\ \A i \in 1..Len(q) : a[i] = q[i]
        /\ a[Len(q) + 1] = e
    BY <1>1
  <2>2. Len(q) \in Nat /\ Len(q) > 0 /\ p = Len(q) + 1
    BY <1>1, <1>2
  <2> HIDE DEF a
  <2>3. ASSUME NEW i \in 1..Len(a) PROVE a[i] = IF i < p THEN q[i] ELSE e
    <3>2. \A n \in Nat : \A k \in 1..(n + 1) : (k \in 1..n /\ k < n + 1) \/ (k = n + 1 /\ ~(k < n + 1))
      OBVIOUS
    <3>3. i \in 1..(Len(q) + 1)
      BY <2>1
    <3>1. (i \in 1..Len(q) /\ i < p) \/ (i = Len(q) + 1 /\ ~(i < p))
      BY ONLY <2>2, <3>2, <3>3
    <3> QED
      BY ONLY <2>1, <3>1
  <2>4. a[1] = q[1]
    BY ONLY <2>1, <2>2
  <2> QED
    BY <2>1, <2>3, <2>4
<1>6. Abs!NoDuplicates(a) /\ Abs!Elements(a) = Abs!Elements(q) \union {e}
  BY <1>1, AbsAssumption, Abs!Appended DEF Abs!SchedAssumption
<1> HIDE DEF a, b
<1>7. a = b
  <2>1. \A i \in 1..Len(a) : a[i] = b[i]
    BY <1>1, <1>2, <1>4, <1>5
  <2> QED
    BY <1>4, <1>5, <2>1, SeqEqual
<1> QED
  BY <1>1, <1>3, <1>5, <1>6, <1>7 DEF IsList, IsQueue, a

(* An event leaves a list that has others. *)
LEMMA ListCut ==
  ASSUME NEW nxt, NEW prv, NEW h, NEW q, IsList(nxt, prv, h, q), Len(q) > 1,
         NEW e \in Abs!Elements(q), NEW n2, NEW p2,
         n2[prv[e]] = nxt[e], p2[nxt[e]] = prv[e],
         \A z \in Abs!Elements(q) \ {e} : /\ z # prv[e] => n2[z] = nxt[z]
                                          /\ z # nxt[e] => p2[z] = prv[z],
         NEW h2, h2 = IF e = h THEN nxt[h] ELSE h
  PROVE  IsList(n2, p2, h2, Abs!CutFrom(q, e))
<1>1. /\ IsQueue(q) /\ IsRing(nxt, prv, q) /\ Len(q) \in Nat /\ h = q[1]
  BY ListHead
<1>2. PICK p \in 1..Len(q) : q[p] = e
  BY <1>1, Places
<1> DEFINE c == Abs!CutFrom(q, e)
<1>3. IsRing(n2, p2, c)
  BY <1>1, <1>2, UnlinkRing
<1>4. /\ IsQueue(c) /\ Len(c) = Len(q) - 1
      /\ \A i \in 1..Len(c) : c[i] = IF i < p THEN q[i] ELSE q[i + 1]
  BY <1>1, <1>2, CutPlaces
<1> HIDE DEF c
<1>5. 1 \in 1..Len(c) /\ 1 \in 1..Len(q) /\ Len(c) # 0 /\ Succ(q, 1) = 2
  BY <1>1, <1>4 DEF Succ
<1>6. e = h <=> p = 1
  BY ZenonT(60), <1>1, <1>2, <1>5, Places
<1>7. c[1] = IF p = 1 THEN q[2] ELSE q[1]
  BY <1>4, <1>5
<1>8. nxt[h] = q[2]
  BY <1>1, <1>5 DEF IsRing
<1> QED
  BY <1>1, <1>3, <1>4, <1>5, <1>6, <1>7, <1>8 DEF IsList, c

(* The only event of a list leaves. *)
LEMMA ListEmptied ==
  ASSUME NEW q, IsQueue(q), Len(q) = 1, NEW e \in Abs!Elements(q), NEW n2, NEW p2
  PROVE  IsList(n2, p2, NULL, Abs!CutFrom(q, e))
<1>1. PICK p \in 1..Len(q) : q[p] = e
  BY Places
<1>2. IsQueue(Abs!CutFrom(q, e)) /\ Len(Abs!CutFrom(q, e)) = 0
  BY <1>1, CutPlaces
<1> QED
  BY <1>2 DEF IsList, IsRing
--------------------------------------------------------------------------------
(* The ready queue is left alone while another list changes. *)
LEMMA RepChanged ==
  ASSUME NEW L, NEW M, NEW pr, NEW r, NEW f, NEW d, NEW qs, Rep(L, pr, r, f, d, qs),
         M \in ListsType, M.ready = L.ready, NEW S, NEW T, LinksKept(L, M, S), MultiKept(L, M, T),
         Abs!Elements(r) \intersect S = {}, Abs!Elements(r) \intersect T = {},
         NEW d2, NEW qs2, DelayRep(M, d2), BlockRep(M, qs2), Apart(r, d2, qs2)
  PROVE  Rep(M, pr, r, f, d2, qs2)
<1>1. ReadyRep(M, pr, r, f)
  BY ReadyKept DEF Rep
<1> QED
  BY <1>1 DEF Rep

(* A priority may change while its event is not ready. *)
LEMMA RepPrio ==
  ASSUME NEW L, NEW pr, NEW pr2, NEW r, NEW f, NEW d, NEW qs, Rep(L, pr, r, f, d, qs),
         \A x \in Abs!Elements(r) : pr2[x] = pr[x]
  PROVE  Rep(L, pr2, r, f, d, qs)
<1>1. Abs!ReadyOK(r, pr) /\ FirstsOf(pr, r, f) /\ Abs!Elements(f) \subseteq Abs!Elements(r)
  BY DEF Rep, ReadyRep, FirstsOf
<1>2. Abs!ReadyOK(r, pr2)
  BY <1>1 DEF Abs!ReadyOK, Abs!SortedBy, Abs!Elements
<1>3. \A i \in 1..Len(f) : pr2[f[i]] = pr[f[i]]
  BY <1>1 DEF Abs!Elements
<1>4. Len(r) \in Nat /\ \A i \in 1..Len(r) : pr2[r[i]] = pr[r[i]]
  BY <1>1 DEF Abs!Elements, Abs!ReadyOK
<1>5. ASSUME NEW i \in 1..Len(r) PROVE IsFirst(pr2, r, i) <=> IsFirst(pr, r, i)
  <2>1. i # 1 => i - 1 \in 1..Len(r)
    BY <1>4
  <2> QED
    BY <1>4, <2>1 DEF IsFirst
<1>6. FirstsOf(pr2, r, f)
  BY <1>1, <1>3, <1>5 DEF FirstsOf
<1> QED
  BY <1>2, <1>6 DEF Rep, ReadyRep

(* The links of an event that is in neither list are assigned. *)
LEMMA RepForget ==
  ASSUME NEW L, NEW M, NEW pr, NEW r, NEW f, NEW d, NEW qs, Rep(L, pr, r, f, d, qs),
         NEW e \in Events, e \notin Abs!Elements(r), e \notin Abs!Elements(d),
         M \in ListsType, SameMulti(L, M), SameHeads(L, M), LinksKept(L, M, {e})
  PROVE  Rep(M, pr, r, f, d, qs)
<1>1. L \in ListsType /\ DelayRep(L, d) /\ BlockRep(L, qs) /\ Apart(r, d, qs)
  BY DEF Rep
<1>2. MultiKept(L, M, {})
  BY DEF MultiKept, SameMulti
<1>3. /\ M.ready = L.ready /\ M.delay = L.delay /\ M.head = L.head /\ M.sync_head = L.sync_head
      /\ Abs!Elements(d) \intersect {e} = {}
  BY DEF SameHeads
<1>4. DelayRep(M, d)
  BY <1>1, <1>3, DelayKept
<1>5. BlockRep(M, qs)
  BY <1>1, <1>2, <1>3, BlockKept
<1> QED
  BY <1>1, <1>2, <1>3, <1>4, <1>5, RepChanged

(***************************************************************************)
(* __Djy_AddToDelay is the insertion into the alarm queue.                 *)
(***************************************************************************)
LEMMA AddToDelayRep ==
  ASSUME NEW L, NEW pr, NEW r, NEW f, NEW d, NEW qs, Rep(L, pr, r, f, d, qs),
         NEW end, \A x \in Events : end[x] \in Nat, Abs!SortedBy(d, end),
         NEW e \in Events, e \notin Abs!Elements(r), e \notin Abs!Elements(d)
  PROVE  Rep(AddToDelay(L, end, e), pr, r, f, Abs!InsertSorted(d, end, e), qs)
<1> DEFINE M == AddToDelay(L, end, e)
           d2 == Abs!InsertSorted(d, end, e)
           S == Abs!Elements(d) \union {e}
<1>1. L \in ListsType /\ DelayRep(L, d) /\ BlockRep(L, qs) /\ Apart(r, d, qs)
  BY DEF Rep
<1>2. IsList(L.next, L.previous, L.delay, d)
  BY <1>1 DEF DelayRep
<1>3. /\ IsQueue(d) /\ Len(d) \in Nat /\ (L.delay = NULL <=> Len(d) = 0)
      /\ Len(d) > 0 => L.delay \in Events
  BY <1>2, ListHead
<1>4. ASSUME M \in ListsType, SameMulti(L, M), M.ready = L.ready, M.head = L.head,
             M.sync_head = L.sync_head, LinksKept(L, M, S),
             IsList(M.next, M.previous, M.delay, d2), Abs!Elements(d2) = S
      PROVE  Rep(M, pr, r, f, d2, qs)
  <2>1. DelayRep(M, d2)
    BY <1>4 DEF DelayRep
  <2>2. MultiKept(L, M, {})
    BY <1>4 DEF MultiKept, SameMulti
  <2>3. BlockRep(M, qs)
    BY <1>1, <1>4, <2>2, BlockKept
  <2>4. Apart(r, d2, qs) /\ Abs!Elements(r) \intersect S = {}
    BY <1>1, <1>4 DEF Apart
  <2> HIDE DEF M, d2, S
  <2> QED
    BY <1>4, <2>1, <2>2, <2>3, <2>4, RepChanged
<1>5. CASE Len(d) = 0
  <2>1. M = [L EXCEPT !.next[e] = e, !.previous[e] = e, !.delay = e]
    BY <1>3, <1>5 DEF AddToDelay
  <2> HIDE DEF M
  <2>2. /\ M \in ListsType /\ SameMulti(L, M) /\ M.ready = L.ready /\ M.head = L.head
        /\ M.sync_head = L.sync_head /\ M.delay = e /\ M.next[e] = e /\ M.previous[e] = e
        /\ \A z \in Events : z # e => M.next[z] = L.next[z] /\ M.previous[z] = L.previous[z]
    BY <1>1, <2>1 DEF ListsType, Pointers, SameMulti
  <2>3. IsList(M.next, M.previous, e, d2) /\ Abs!Elements(d2) = {e}
    <3>0. IsQueue(d) /\ M.next[e] = e /\ M.previous[e] = e
      BY <1>3, <2>2
    <3>1. d2 = Append(d, e)
      BY ONLY <1>5, <3>0, e \in Events, \A x \in Events : end[x] \in Nat, ListFirst
    <3>2. IsList(M.next, M.previous, e, Append(d, e)) /\ Abs!Elements(Append(d, e)) = {e}
      BY ONLY <1>5, <3>0, e \in Events, ListFirst
    <3> HIDE DEF d2
    <3> QED
      BY <3>1, <3>2
  <2>4. Abs!Elements(d) = {}
    BY <1>5 DEF Abs!Elements
  <2>5. LinksKept(L, M, S)
    BY <2>2 DEF LinksKept
  <2> HIDE DEF d2
  <2>6. Abs!Elements(d2) = S
    BY SMTT(60), <2>3, <2>4
  <2> QED
    BY <1>4, <2>2, <2>3, <2>5, <2>6 DEF M, d2
<1>6. CASE Len(d) # 0
  <2> DEFINE at == Search(L.next, L.delay, end, e)
             h2 == IF end[L.delay] > end[e] THEN e ELSE L.delay
             B == LinkBefore(L, at, e)
  <2>1. /\ at \in Events /\ at \in Abs!Elements(d) /\ at # e
        /\ L.previous[at] \in Events /\ L.previous[at] \in Abs!Elements(d)
        /\ Abs!Elements(d2) = Abs!Elements(d) \union {e}
        /\ \A n2, p2 :
             /\ n2[e] = at /\ n2[L.previous[at]] = e /\ p2[e] = L.previous[at] /\ p2[at] = e
             /\ \A z \in Abs!Elements(d) : /\ z # L.previous[at] => n2[z] = L.next[z]
                                           /\ z # at => p2[z] = L.previous[z]
             => IsList(n2, p2, h2, d2)
    BY <1>2, <1>3, <1>6, ListInsert
  <2>2. M = [B EXCEPT !.delay = IF end[L.delay] > end[e] THEN e ELSE @]
    BY <1>3, <1>6 DEF AddToDelay
  <2> HIDE DEF at, M, d2
  <2>3. /\ B \in ListsType /\ SameMulti(L, B) /\ SameHeads(L, B)
        /\ \A z \in Events : B.next[z]
             = IF z = L.previous[at] THEN e ELSE IF z = e THEN at ELSE L.next[z]
        /\ \A z \in Events : B.previous[z]
             = IF z = at THEN e ELSE IF z = e THEN L.previous[at] ELSE L.previous[z]
    BY <1>1, <2>1, LinkBeforeFields
  <2> HIDE DEF B
  <2>4. /\ M \in ListsType /\ SameMulti(B, M) /\ SameLinks(B, M) /\ M.ready = B.ready
        /\ M.head = B.head /\ M.sync_head = B.sync_head
        /\ M.delay = IF end[L.delay] > end[e] THEN e ELSE B.delay
    BY SMTT(60), <2>2, <2>3 DEF ListsType, Pointers, SameMulti, SameLinks
  <2>5. /\ SameMulti(L, M) /\ M.ready = L.ready /\ M.head = L.head /\ M.sync_head = L.sync_head
        /\ M.delay = h2 /\ M.next = B.next /\ M.previous = B.previous
    BY <2>3, <2>4 DEF SameMulti, SameHeads, SameLinks
  <2> HIDE DEF h2
  <2>6. Abs!Elements(d) \subseteq Events
    BY <1>3, Places
  <2>7. LinksKept(L, M, S)
    BY <2>1, <2>3, <2>5 DEF LinksKept
  <2>8. /\ M.next[e] = at /\ M.next[L.previous[at]] = e
        /\ M.previous[e] = L.previous[at] /\ M.previous[at] = e
    BY <2>1, <2>3, <2>5
  <2>9. \A z \in Abs!Elements(d) : /\ z # L.previous[at] => M.next[z] = L.next[z]
                                   /\ z # at => M.previous[z] = L.previous[z]
    BY <2>3, <2>5, <2>6
  <2>10. IsList(M.next, M.previous, M.delay, d2)
    BY <2>1, <2>5, <2>8, <2>9
  <2> QED
    BY SMTT(60), <1>4, <2>1, <2>4, <2>5, <2>7, <2>10 DEF M, d2
<1> QED
  BY <1>5, <1>6

(* An event leaves the alarm queue: what M must have done to the links. *)
LEMMA DelayCutRep ==
  ASSUME NEW L, NEW M, NEW pr, NEW r, NEW f, NEW d, NEW qs, Rep(L, pr, r, f, d, qs),
         NEW e \in Abs!Elements(d), M \in ListsType, SameMulti(L, M), M.ready = L.ready,
         M.head = L.head, M.sync_head = L.sync_head, LinksKept(L, M, Abs!Elements(d)),
         IF Len(d) = 1
         THEN M.delay = NULL
         ELSE /\ M.delay = IF e = L.delay THEN L.next[L.delay] ELSE L.delay
              /\ M.next[L.previous[e]] = L.next[e] /\ M.previous[L.next[e]] = L.previous[e]
              /\ \A z \in Abs!Elements(d) \ {e} :
                   /\ z # L.previous[e] => M.next[z] = L.next[z]
                   /\ z # L.next[e] => M.previous[z] = L.previous[z]
  PROVE  Rep(M, pr, r, f, Abs!CutFrom(d, e), qs)
<1> DEFINE d2 == Abs!CutFrom(d, e)
<1>1. L \in ListsType /\ DelayRep(L, d) /\ BlockRep(L, qs) /\ Apart(r, d, qs)
  BY DEF Rep
<1>2. IsList(L.next, L.previous, L.delay, d) /\ IsQueue(d) /\ Len(d) \in Nat
  BY <1>1, ListHead DEF DelayRep
<1>3. DelayRep(M, d2)
  <2>1. CASE Len(d) = 1
    BY <1>2, <2>1, ListEmptied DEF DelayRep
  <2>2. CASE Len(d) # 1
    <3>1. Len(d) > 1
      <4>1. \E p \in 1..Len(d) : d[p] = e
        BY DEF Abs!Elements
      <4>2. Len(d) \in Nat
        BY <1>2
      <4>3. \A n \in Nat : n # 1 /\ (\E p \in 1..n : d[p] = e) => n > 1
        OBVIOUS
      <4> QED
        BY ONLY <2>2, <4>1, <4>2, <4>3
    <3> QED
      BY SMTT(60), <1>2, <2>2, <3>1, ListCut DEF DelayRep
  <2> QED
    BY <2>1, <2>2
<1>4. Abs!Elements(d2) \subseteq Abs!Elements(d)
  <2>1. PICK p \in 1..Len(d) : d[p] = e
    BY <1>2, Places
  <2> QED
    BY <1>2, <2>1, CutPlaces
<1> HIDE DEF d2
<1>5. MultiKept(L, M, {})
  BY DEF MultiKept, SameMulti
<1>6. BlockRep(M, qs)
  BY <1>1, <1>5, BlockKept
<1>7. Apart(r, d2, qs) /\ Abs!Elements(r) \intersect Abs!Elements(d) = {}
  BY <1>1, <1>4 DEF Apart
<1>8. Rep(M, pr, r, f, d2, qs)
  BY <1>3, <1>5, <1>6, <1>7, RepChanged
<1> QED
  BY <1>8 DEF d2
--------------------------------------------------------------------------------
(* The neighbours of an event in a list that has others are not itself. *)
LEMMA Neighbours ==
  ASSUME NEW nxt, NEW prv, NEW h, NEW q, IsList(nxt, prv, h, q), NEW e \in Abs!Elements(q)
  PROVE  /\ e \in Events /\ Len(q) \in Nat /\ Len(q) > 0 /\ h = q[1] /\ h \in Events
         /\ nxt[e] \in Events /\ nxt[e] \in Abs!Elements(q)
         /\ prv[e] \in Events /\ prv[e] \in Abs!Elements(q)
         /\ nxt[h] \in Events
         /\ nxt[e] = e <=> Len(q) = 1
         /\ nxt[h] = h <=> Len(q) = 1
         /\ Len(q) # 1 => prv[e] # e
         /\ Len(q) = 1 => e = h
<1>1. IsQueue(q) /\ IsRing(nxt, prv, q) /\ Len(q) \in Nat
  BY ListHead
<1>2. PICK p \in 1..Len(q) : q[p] = e
  BY DEF Abs!Elements
<1>3. /\ e \in Events
      /\ nxt[e] = q[Succ(q, p)] /\ nxt[e] \in Events /\ nxt[e] \in Abs!Elements(q)
      /\ prv[e] = q[Pred(q, p)] /\ prv[e] \in Events /\ prv[e] \in Abs!Elements(q)
  BY <1>1, <1>2, RingPlace
<1>4. Len(q) > 0
  BY <1>1, <1>2
<1>5. /\ Succ(q, p) \in 1..Len(q) /\ Pred(q, p) \in 1..Len(q)
      /\ \A i, j \in 1..Len(q) : q[i] = q[j] => i = j
  BY <1>1, Places
<1>6. /\ Succ(q, p) = p <=> Len(q) = 1
      /\ Len(q) # 1 => Pred(q, p) # p
      /\ Len(q) = 1 => p = 1
  <2>1. \A n \in Nat : \A i \in 1..n :
          /\ (IF i = n THEN 1 ELSE i + 1) = i <=> n = 1
          /\ n # 1 => (IF i = 1 THEN n ELSE i - 1) # i
          /\ n = 1 => i = 1
    OBVIOUS
  <2> QED
    BY ONLY <1>1, <2>1, p \in 1..Len(q) DEF Succ, Pred
<1>7. /\ h = q[1] /\ h \in Events /\ nxt[h] \in Events /\ (nxt[h] = h <=> Len(q) = 1)
  BY <1>4, ListHead
<1>8. (nxt[e] = e <=> Len(q) = 1) /\ (Len(q) # 1 => prv[e] # e)
  BY <1>2, <1>3, <1>5, <1>6
<1>9. Len(q) = 1 => e = h
  BY <1>2, <1>6, <1>7
<1> QED
  BY <1>1, <1>3, <1>4, <1>7, <1>8, <1>9

(***************************************************************************)
(* __Djy_ResumeDelay takes the event out of the alarm queue.               *)
(***************************************************************************)
LEMMA ResumeDelayRep ==
  ASSUME NEW L, NEW pr, NEW r, NEW f, NEW d, NEW qs, Rep(L, pr, r, f, d, qs),
         NEW e \in Abs!Elements(d)
  PROVE  Rep(ResumeDelay(L, e), pr, r, f, Abs!CutFrom(d, e), qs)
<1> DEFINE M == ResumeDelay(L, e)
           U == Unlink(L, e)
<1>1. L \in ListsType /\ IsList(L.next, L.previous, L.delay, d)
  BY DEF Rep, DelayRep
<1>2. /\ e \in Events /\ Len(d) \in Nat
      /\ L.next[e] \in Events /\ L.next[e] \in Abs!Elements(d)
      /\ L.previous[e] \in Events /\ L.previous[e] \in Abs!Elements(d)
      /\ L.next[L.delay] \in Events
      /\ L.next[e] = e <=> Len(d) = 1
      /\ L.next[L.delay] = L.delay <=> Len(d) = 1
      /\ Len(d) # 1 => L.previous[e] # e
  BY <1>1, Neighbours
<1>3. CASE Len(d) = 1
  <2>1. M = [[L EXCEPT !.delay = NULL] EXCEPT !.next[e] = NULL, !.previous[e] = NULL]
    BY <1>2, <1>3 DEF ResumeDelay
  <2> HIDE DEF M
  <2>2. /\ M \in ListsType /\ SameMulti(L, M) /\ M.ready = L.ready /\ M.head = L.head
        /\ M.sync_head = L.sync_head /\ M.delay = NULL
        /\ \A z \in Events : z # e => M.next[z] = L.next[z] /\ M.previous[z] = L.previous[z]
    BY <1>1, <2>1 DEF ListsType, Pointers, SameMulti
  <2>3. LinksKept(L, M, Abs!Elements(d))
    BY <2>2 DEF LinksKept
  <2>4. Rep(M, pr, r, f, Abs!CutFrom(d, e), qs)
    BY <1>3, <2>2, <2>3, DelayCutRep
  <2> QED
    BY <2>4 DEF M
<1>4. CASE Len(d) # 1
  <2>1. M = [[U EXCEPT !.delay = IF e = L.delay THEN L.next[L.delay] ELSE @]
               EXCEPT !.next[e] = NULL, !.previous[e] = NULL]
    BY <1>2, <1>4 DEF ResumeDelay
  <2>2. /\ U \in ListsType /\ SameMulti(L, U) /\ SameHeads(L, U)
        /\ \A z \in Events : U.next[z] = IF z = L.previous[e] THEN L.next[e] ELSE L.next[z]
        /\ \A z \in Events : U.previous[z] = IF z = L.next[e] THEN L.previous[e] ELSE L.previous[z]
    BY <1>1, <1>2, UnlinkFields
  <2> HIDE DEF M, U
  <2>3. /\ M \in ListsType /\ SameMulti(U, M) /\ M.ready = U.ready /\ M.head = U.head
        /\ M.sync_head = U.sync_head /\ M.delay = IF e = L.delay THEN L.next[L.delay] ELSE U.delay
        /\ \A z \in Events : z # e => M.next[z] = U.next[z] /\ M.previous[z] = U.previous[z]
    BY ZenonT(60), <1>2, <2>1, <2>2 DEF ListsType, Pointers, SameMulti
  <2>4. /\ SameMulti(L, M) /\ M.ready = L.ready /\ M.head = L.head /\ M.sync_head = L.sync_head
        /\ M.delay = IF e = L.delay THEN L.next[L.delay] ELSE L.delay
    BY <2>2, <2>3 DEF SameMulti, SameHeads
  <2>5. LinksKept(L, M, Abs!Elements(d))
    BY <1>2, <2>2, <2>3 DEF LinksKept
  <2>6. M.next[L.previous[e]] = L.next[e] /\ M.previous[L.next[e]] = L.previous[e]
    BY <1>2, <1>4, <2>2, <2>3
  <2>7. \A z \in Abs!Elements(d) \ {e} :
          /\ z # L.previous[e] => M.next[z] = L.next[z]
          /\ z # L.next[e] => M.previous[z] = L.previous[z]
    <3>1. Abs!Elements(d) \subseteq Events
      BY <1>1, Places DEF IsList
    <3> QED
      BY <2>2, <2>3, <3>1
  <2>8. Rep(M, pr, r, f, Abs!CutFrom(d, e), qs)
    BY <1>4, <2>3, <2>4, <2>5, <2>6, <2>7, DelayCutRep
  <2> QED
    BY <2>8 DEF M
<1> QED
  BY <1>3, <1>4

(***************************************************************************)
(* Djy_IsrTick takes the head out of the alarm queue, and leaves stale     *)
(* links behind in it.                                                     *)
(***************************************************************************)
LEMMA PopDelayRep ==
  ASSUME NEW L, NEW pr, NEW r, NEW f, NEW d, NEW qs, Rep(L, pr, r, f, d, qs), L.delay # NULL
  PROVE  /\ d # << >> /\ L.delay = Head(d)
         /\ Rep(PopDelayHead(L), pr, r, f, Tail(d), qs)
<1> DEFINE e == L.delay
           M == PopDelayHead(L)
           U == Unlink(L, e)
<1>1. L \in ListsType /\ IsList(L.next, L.previous, L.delay, d)
  BY DEF Rep, DelayRep
<1>2. /\ d # << >> /\ d \in Seq(Events) /\ Abs!NoDuplicates(d) /\ e = Head(d) /\ e \in Abs!Elements(d)
  BY <1>1, ListHead DEF IsQueue
<1>3. Tail(d) = Abs!CutFrom(d, e)
  BY <1>2, AbsAssumption, Abs!TailIsCut DEF Abs!SchedAssumption
<1>4. /\ e \in Events /\ Len(d) \in Nat
      /\ L.next[e] \in Events /\ L.next[e] \in Abs!Elements(d)
      /\ L.previous[e] \in Events /\ L.previous[e] \in Abs!Elements(d)
      /\ L.next[e] = e <=> Len(d) = 1
  BY <1>1, <1>2, Neighbours
<1>5. CASE Len(d) = 1
  <2>1. M = [L EXCEPT !.delay = NULL]
    BY <1>4, <1>5 DEF PopDelayHead
  <2> HIDE DEF M
  <2>2. /\ M \in ListsType /\ SameMulti(L, M) /\ M.ready = L.ready /\ M.head = L.head
        /\ M.sync_head = L.sync_head /\ M.delay = NULL
        /\ M.next = L.next /\ M.previous = L.previous
    BY <1>1, <2>1 DEF ListsType, Pointers, SameMulti
  <2>3. LinksKept(L, M, Abs!Elements(d))
    BY <2>2 DEF LinksKept
  <2>4. Rep(M, pr, r, f, Abs!CutFrom(d, e), qs)
    BY SMTT(60), <1>2, <1>5, <2>2, <2>3, DelayCutRep
  <2> QED
    BY <1>2, <1>3, <2>4 DEF M
<1>6. CASE Len(d) # 1
  <2>1. M = [U EXCEPT !.delay = L.next[e]]
    BY <1>4, <1>6 DEF PopDelayHead
  <2>2. /\ U \in ListsType /\ SameMulti(L, U) /\ SameHeads(L, U)
        /\ \A z \in Events : U.next[z] = IF z = L.previous[e] THEN L.next[e] ELSE L.next[z]
        /\ \A z \in Events : U.previous[z] = IF z = L.next[e] THEN L.previous[e] ELSE L.previous[z]
    BY <1>1, <1>4, UnlinkFields
  <2> HIDE DEF M, U
  <2>3. /\ M \in ListsType /\ SameMulti(U, M) /\ M.ready = U.ready /\ M.head = U.head
        /\ M.sync_head = U.sync_head /\ M.delay = L.next[e]
        /\ M.next = U.next /\ M.previous = U.previous
    BY SMTT(60), <1>4, <2>1, <2>2 DEF ListsType, Pointers, SameMulti
  <2>4. /\ SameMulti(L, M) /\ M.ready = L.ready /\ M.head = L.head /\ M.sync_head = L.sync_head
    BY <2>2, <2>3 DEF SameMulti, SameHeads
  <2>5. LinksKept(L, M, Abs!Elements(d))
    BY <1>4, <2>2, <2>3 DEF LinksKept
  <2>6. M.next[L.previous[e]] = L.next[e] /\ M.previous[L.next[e]] = L.previous[e]
    BY <1>4, <2>2, <2>3
  <2>7. \A z \in Abs!Elements(d) \ {e} :
          /\ z # L.previous[e] => M.next[z] = L.next[z]
          /\ z # L.next[e] => M.previous[z] = L.previous[z]
    <3>1. Abs!Elements(d) \subseteq Events
      BY SMTT(60), <1>1, Places DEF IsList
    <3> QED
      BY <2>2, <2>3, <3>1
  <2>8. Rep(M, pr, r, f, Abs!CutFrom(d, e), qs)
    BY <1>2, <1>6, <2>3, <2>4, <2>5, <2>6, <2>7, DelayCutRep
  <2> QED
    BY <1>2, <1>3, <2>8 DEF M
<1> QED
  BY <1>5, <1>6
--------------------------------------------------------------------------------
(***************************************************************************)
(* One block queue changes: event e enters or leaves the queue of s, and   *)
(* the queue of s is q afterwards.                                         *)
(***************************************************************************)
LEMMA BlockReplaced ==
  ASSUME NEW L, NEW M, NEW qs, BlockRep(L, qs), NEW s \in Syncs, NEW e \in Events,
         \A t \in Syncs \ {s} : e \notin Abs!Elements(qs[t]),
         MultiKept(L, M, Abs!Elements(qs[s]) \union {e}),
         \A t \in Syncs \ {s} : M.head[t] = L.head[t],
         NEW q \in Seq(Events), IsList(M.multi_next, M.multi_previous, M.head[s], q),
         \A x \in Events \ {e} : /\ M.sync_head[x] = L.sync_head[x]
                                 /\ x \in Abs!Elements(q) <=> x \in Abs!Elements(qs[s]),
         \A t \in Syncs : M.sync_head[e] = t <=> (t = s /\ e \in Abs!Elements(q))
  PROVE  BlockRep(M, [qs EXCEPT ![s] = q])
<1> DEFINE n == [qs EXCEPT ![s] = q]
<1>1. /\ qs \in [Syncs -> Seq(Events)]
      /\ \A t \in Syncs : IsList(L.multi_next, L.multi_previous, L.head[t], qs[t])
      /\ \A x \in Events, t \in Syncs : L.sync_head[x] = t <=> x \in Abs!Elements(qs[t])
  BY DEF BlockRep
<1>2. n \in [Syncs -> Seq(Events)] /\ n[s] = q /\ \A t \in Syncs \ {s} : n[t] = qs[t]
  BY <1>1
<1> HIDE DEF n
<1>3. ASSUME NEW t \in Syncs PROVE IsList(M.multi_next, M.multi_previous, M.head[t], n[t])
  <2>1. CASE t = s
    BY <1>2, <2>1
  <2>2. CASE t # s
    <3>1. \A x \in Abs!Elements(qs[t]) : x \in Events
      BY <1>1, Places DEF IsList
    <3>2. Abs!Elements(qs[t]) \intersect (Abs!Elements(qs[s]) \union {e}) = {}
      BY <1>1, <2>2, <3>1
    <3>3. IsList(M.multi_next, M.multi_previous, L.head[t], qs[t])
      BY ZenonT(60), <1>1, <3>2, ListKept
    <3> QED
      BY <1>2, <2>2, <3>3
  <2> QED
    BY <2>1, <2>2
<1>4. ASSUME NEW x \in Events, NEW t \in Syncs
      PROVE  M.sync_head[x] = t <=> x \in Abs!Elements(n[t])
  <2>1. CASE x = e
    BY <1>2, <2>1
  <2>2. CASE x # e
    <3>1. M.sync_head[x] = t <=> x \in Abs!Elements(qs[t])
      BY SMTT(60), <1>1, <2>2
    <3>2. x \in Abs!Elements(n[t]) <=> x \in Abs!Elements(qs[t])
      BY <1>2, <2>2
    <3> QED
      BY <3>1, <3>2
  <2> QED
    BY <2>1, <2>2
<1>5. BlockRep(M, n)
  BY <1>2, <1>3, <1>4 DEF BlockRep
<1> QED
  BY <1>5 DEF n

(* The same for all the lists. *)
LEMMA BlockChangedRep ==
  ASSUME NEW L, NEW M, NEW pr, NEW r, NEW f, NEW d, NEW qs, Rep(L, pr, r, f, d, qs),
         NEW s \in Syncs, NEW e \in Events, e \notin Abs!Elements(r),
         \A t \in Syncs \ {s} : e \notin Abs!Elements(qs[t]),
         M \in ListsType, M.ready = L.ready, M.delay = L.delay,
         NEW S, LinksKept(L, M, S), Abs!Elements(r) \intersect S = {}, Abs!Elements(d) \intersect S = {},
         MultiKept(L, M, Abs!Elements(qs[s]) \union {e}),
         \A t \in Syncs \ {s} : M.head[t] = L.head[t],
         NEW q \in Seq(Events), IsList(M.multi_next, M.multi_previous, M.head[s], q),
         \A x \in Events \ {e} : /\ M.sync_head[x] = L.sync_head[x]
                                 /\ x \in Abs!Elements(q) <=> x \in Abs!Elements(qs[s]),
         \A t \in Syncs : M.sync_head[e] = t <=> (t = s /\ e \in Abs!Elements(q))
  PROVE  Rep(M, pr, r, f, d, [qs EXCEPT ![s] = q])
<1> DEFINE n == [qs EXCEPT ![s] = q]
           T == Abs!Elements(qs[s]) \union {e}
<1>1. L \in ListsType /\ DelayRep(L, d) /\ BlockRep(L, qs) /\ Apart(r, d, qs)
  BY DEF Rep
<1>2. BlockRep(M, n)
  BY ZenonT(60), <1>1, BlockReplaced
<1>3. DelayRep(M, d)
  BY <1>1, DelayKept
<1>4. qs \in [Syncs -> Seq(Events)] /\ n[s] = q /\ \A t \in Syncs \ {s} : n[t] = qs[t]
  BY <1>1 DEF BlockRep
<1> HIDE DEF n
<1>5. Abs!Elements(r) \intersect T = {}
  BY <1>1 DEF Apart
<1>6. Abs!Elements(r) \subseteq Events
  BY Places DEF Rep, ReadyRep, Abs!ReadyOK, IsQueue
<1>7. Apart(r, d, n)
  <2>1. ASSUME NEW t \in Syncs PROVE Abs!Elements(r) \intersect Abs!Elements(n[t]) = {}
    <3>1. CASE t # s
      BY <1>1, <1>4, <3>1 DEF Apart
    <3>2. CASE t = s
      BY <1>1, <1>4, <1>5, <1>6, <3>2
    <3> QED
      BY <3>1, <3>2
  <2> QED
    BY <1>1, <2>1 DEF Apart
<1> HIDE DEF T
<1>8. Rep(M, pr, r, f, d, n)
  <2>1. MultiKept(L, M, T)
    BY DEF T
  <2> QED
    BY <1>2, <1>3, <1>5, <1>7, <2>1, RepChanged
<1> QED
  BY <1>8 DEF n

(***************************************************************************)
(* The block-queue half of __Djy_AddRunningToBlock, once the event has     *)
(* left the ready queue.                                                   *)
(***************************************************************************)
EnterBlock(C, pr, s, e) ==
  LET cut == [C EXCEPT !.previous[e] = NULL, !.next[e] = NULL, !.sync_head[e] = s]
      h   == C.head[s]
  IN  IF h = NULL
      THEN [cut EXCEPT !.multi_next[e] = e, !.multi_previous[e] = e, !.head[s] = e]
      ELSE IF s \in PrioOrder
      THEN [MultiLinkBefore(cut, Search(cut.multi_next, h, pr, e), e)
              EXCEPT !.head[s] = IF pr[h] > pr[e] THEN e ELSE @]
      ELSE MultiLinkBefore(cut, h, e)

(* The queue that the event has entered. *)
Entered(q, pr, s, e) == IF s \in PrioOrder THEN Abs!InsertSorted(q, pr, e) ELSE Append(q, e)

(* It is the insertion into the block queue. *)
LEMMA EnterBlockRep ==
  ASSUME NEW C, NEW pr, NEW r, NEW f, NEW d, NEW qs, Rep(C, pr, r, f, d, qs), Abs!PrioOK(pr),
         NEW s \in Syncs, s \in PrioOrder => Abs!SortedBy(qs[s], pr),
         NEW e \in Events, e \notin Abs!Elements(r), e \notin Abs!Elements(d),
         \A t \in Syncs : e \notin Abs!Elements(qs[t])
  PROVE  Rep(EnterBlock(C, pr, s, e), pr, r, f, d, [qs EXCEPT ![s] = Entered(qs[s], pr, s, e)])
<1> DEFINE cut == [C EXCEPT !.previous[e] = NULL, !.next[e] = NULL, !.sync_head[e] = s]
           h == C.head[s]
           M == EnterBlock(C, pr, s, e)
           q == qs[s]
           q2 == Entered(q, pr, s, e)
           T == Abs!Elements(q) \union {e}
<1>1. C \in ListsType /\ BlockRep(C, qs)
  BY DEF Rep
<1>2. q \in Seq(Events) /\ IsList(C.multi_next, C.multi_previous, h, q) /\ \A x \in Events : pr[x] \in Nat
  BY <1>1 DEF BlockRep, Abs!PrioOK
<1>3. /\ IsQueue(q) /\ Len(q) \in Nat /\ (h = NULL <=> Len(q) = 0)
      /\ Len(q) > 0 => h \in Events /\ h \in Abs!Elements(q)
                       /\ C.multi_previous[h] \in Events /\ C.multi_previous[h] \in Abs!Elements(q)
  BY <1>2, ListHead
<1>4. /\ cut \in ListsType /\ cut.ready = C.ready /\ cut.delay = C.delay /\ cut.head = C.head
      /\ cut.multi_next = C.multi_next /\ cut.multi_previous = C.multi_previous
      /\ cut.sync_head[e] = s
      /\ \A x \in Events \ {e} : /\ cut.next[x] = C.next[x] /\ cut.previous[x] = C.previous[x]
                                 /\ cut.sync_head[x] = C.sync_head[x]
  BY <1>1 DEF ListsType, Pointers
<1> HIDE DEF cut
<1>5. ASSUME M \in ListsType, M.ready = cut.ready, M.delay = cut.delay, SameLinks(cut, M),
             M.sync_head = cut.sync_head, MultiKept(C, M, T),
             \A t \in Syncs \ {s} : M.head[t] = C.head[t],
             IsList(M.multi_next, M.multi_previous, M.head[s], q2),
             Abs!Elements(q2) = T
      PROVE  Rep(M, pr, r, f, d, [qs EXCEPT ![s] = q2])
  <2> HIDE DEF M, q2
  <2>1. M.ready = C.ready /\ M.delay = C.delay /\ LinksKept(C, M, {e})
    BY <1>4, <1>5 DEF SameLinks, LinksKept
  <2>2. \A x \in Events \ {e} : /\ M.sync_head[x] = C.sync_head[x]
                                /\ x \in Abs!Elements(q2) <=> x \in Abs!Elements(qs[s])
    BY <1>4, <1>5
  <2>3. \A t \in Syncs : M.sync_head[e] = t <=> (t = s /\ e \in Abs!Elements(q2))
    BY <1>4, <1>5
  <2>4. q2 \in Seq(Events) /\ MultiKept(C, M, Abs!Elements(qs[s]) \union {e})
    BY <1>5 DEF IsList, IsQueue
  <2>5. Abs!Elements(r) \intersect {e} = {} /\ Abs!Elements(d) \intersect {e} = {}
    OBVIOUS
  <2> QED
    BY <1>5, <2>1, <2>2, <2>3, <2>4, <2>5, BlockChangedRep
<1>6. CASE Len(q) = 0
  <2>1. M = [cut EXCEPT !.multi_next[e] = e, !.multi_previous[e] = e, !.head[s] = e]
    BY <1>3, <1>6 DEF EnterBlock, cut
  <2> HIDE DEF M
  <2>2. /\ M \in ListsType /\ M.ready = cut.ready /\ M.delay = cut.delay /\ SameLinks(cut, M)
        /\ M.sync_head = cut.sync_head /\ M.head[s] = e /\ \A t \in Syncs \ {s} : M.head[t] = cut.head[t]
        /\ M.multi_next[e] = e /\ M.multi_previous[e] = e
        /\ \A z \in Events : z # e => M.multi_next[z] = cut.multi_next[z]
                                      /\ M.multi_previous[z] = cut.multi_previous[z]
    BY ZenonT(60), <1>4, <2>1 DEF ListsType, Pointers, SameLinks
  <2>3. MultiKept(C, M, T)
    BY <1>4, <2>2 DEF MultiKept
  <2>4. IsQueue(q) /\ M.multi_next[e] = e /\ M.multi_previous[e] = e
    BY <1>3, <2>2
  <2>5. q2 = Append(q, e)
    <3>1. Abs!InsertSorted(q, pr, e) = Append(q, e)
      BY ONLY <1>2, <1>6, <2>4, e \in Events, ListFirst
    <3> QED
      BY <3>1 DEF Entered
  <2>6. IsList(M.multi_next, M.multi_previous, e, Append(q, e)) /\ Abs!Elements(Append(q, e)) = {e}
    BY ONLY <1>6, <2>4, e \in Events, ListFirst
  <2>7. Abs!Elements(q) = {}
    BY <1>6 DEF Abs!Elements
  <2> HIDE DEF q2
  <2>8. Rep(M, pr, r, f, d, [qs EXCEPT ![s] = q2])
    <3>1. Abs!Elements(q2) = T /\ IsList(M.multi_next, M.multi_previous, M.head[s], q2)
      BY <2>2, <2>5, <2>6, <2>7
    <3>2. \A t \in Syncs \ {s} : M.head[t] = C.head[t]
      BY <1>4, <2>2
    <3> QED
      BY <1>5, <2>2, <2>3, <3>1, <3>2 DEF M, q2
  <2> QED
    BY <2>8 DEF M, q2
<1>7. CASE Len(q) # 0 /\ s \notin PrioOrder
  <2>1. M = MultiLinkBefore(cut, h, e) /\ q2 = Append(q, e)
    BY <1>3, <1>7 DEF EnterBlock, Entered, cut
  <2>2. h \in Events /\ h # e /\ cut.multi_previous[h] \in Events
    BY <1>3, <1>4, <1>7
  <2> HIDE DEF h, M, q2
  <2>3. /\ M \in ListsType /\ SameLinks(cut, M) /\ SameHeads(cut, M)
        /\ \A z \in Events : M.multi_next[z]
             = IF z = e THEN h ELSE IF z = cut.multi_previous[h] THEN e ELSE cut.multi_next[z]
        /\ \A z \in Events : M.multi_previous[z]
             = IF z = h THEN e ELSE IF z = e THEN cut.multi_previous[h] ELSE cut.multi_previous[z]
    BY <1>4, <2>1, <2>2, MultiLinkBeforeFields
  <2>4. /\ C.multi_previous[h] \in Abs!Elements(q) /\ C.multi_previous[h] # e /\ h \in Abs!Elements(q)
    BY <1>3, <1>7 DEF h
  <2>5. MultiKept(C, M, T)
    BY <1>4, <2>3, <2>4 DEF MultiKept
  <2>6. /\ M.multi_next[e] = h /\ M.multi_next[C.multi_previous[h]] = e
        /\ M.multi_previous[e] = C.multi_previous[h] /\ M.multi_previous[h] = e
    BY <1>4, <2>2, <2>3, <2>4
  <2>7. \A z \in Abs!Elements(q) : /\ z # C.multi_previous[h] => M.multi_next[z] = C.multi_next[z]
                                   /\ z # h => M.multi_previous[z] = C.multi_previous[z]
    <3>1. Abs!Elements(q) \subseteq Events /\ e \notin Abs!Elements(q)
      BY <1>3, Places
    <3> QED
      BY <1>4, <2>3, <3>1
  <2>8. /\ IsList(M.multi_next, M.multi_previous, h, Append(q, e))
        /\ Abs!Elements(Append(q, e)) = Abs!Elements(q) \union {e}
    <3>1. Len(q) > 0 /\ IsList(C.multi_next, C.multi_previous, h, q) /\ e \notin Abs!Elements(q)
      BY <1>2, <1>3, <1>7 DEF h
    <3>2. \A n2, p2 :
            /\ n2[e] = h /\ n2[C.multi_previous[h]] = e /\ p2[e] = C.multi_previous[h] /\ p2[h] = e
            /\ \A z \in Abs!Elements(q) : /\ z # C.multi_previous[h] => n2[z] = C.multi_next[z]
                                          /\ z # h => p2[z] = C.multi_previous[z]
            => /\ IsList(n2, p2, h, Append(q, e))
               /\ Abs!Elements(Append(q, e)) = Abs!Elements(q) \union {e}
      BY SMTT(60), <3>1, ListAppend
    <3> QED
      BY <2>6, <2>7, <3>2
  <2>9. M.head = C.head /\ M.ready = cut.ready /\ M.delay = cut.delay /\ M.sync_head = cut.sync_head
    BY <1>4, <2>3 DEF SameHeads
  <2>10. Rep(M, pr, r, f, d, [qs EXCEPT ![s] = q2])
    <3>1. Abs!Elements(q2) = T /\ IsList(M.multi_next, M.multi_previous, M.head[s], q2)
      BY SMTT(60), <2>1, <2>8, <2>9 DEF h
    <3> QED
      BY <1>5, <2>3, <2>5, <2>9, <3>1 DEF M, q2
  <2> QED
    BY <2>10 DEF M, q2
<1>8. CASE Len(q) # 0 /\ s \in PrioOrder
  <2> DEFINE at == Search(C.multi_next, h, pr, e)
             h2 == IF pr[h] > pr[e] THEN e ELSE h
             B == MultiLinkBefore(cut, at, e)
  <2>1. M = [B EXCEPT !.head[s] = IF pr[h] > pr[e] THEN e ELSE @] /\ q2 = Abs!InsertSorted(q, pr, e)
    BY SMTT(60), <1>3, <1>4, <1>8 DEF EnterBlock, Entered, cut
  <2>2. /\ at \in Events /\ at \in Abs!Elements(q) /\ at # e
        /\ C.multi_previous[at] \in Events /\ C.multi_previous[at] \in Abs!Elements(q)
        /\ Abs!Elements(Abs!InsertSorted(q, pr, e)) = Abs!Elements(q) \union {e}
        /\ \A n2, p2 :
             /\ n2[e] = at /\ n2[C.multi_previous[at]] = e /\ p2[e] = C.multi_previous[at] /\ p2[at] = e
             /\ \A z \in Abs!Elements(q) : /\ z # C.multi_previous[at] => n2[z] = C.multi_next[z]
                                           /\ z # at => p2[z] = C.multi_previous[z]
             => IsList(n2, p2, h2, Abs!InsertSorted(q, pr, e))
    <3>1. Len(q) > 0 /\ Abs!SortedBy(q, pr) /\ e \notin Abs!Elements(q)
      BY <1>3, <1>8
    <3> QED
      BY <1>2, <3>1, ListInsert
  <2> HIDE DEF at, M, q2
  <2>3. cut.multi_previous[at] \in Events
    BY <1>4, <2>2
  <2>4. /\ B \in ListsType /\ SameLinks(cut, B) /\ SameHeads(cut, B)
        /\ \A z \in Events : B.multi_next[z]
             = IF z = e THEN at ELSE IF z = cut.multi_previous[at] THEN e ELSE cut.multi_next[z]
        /\ \A z \in Events : B.multi_previous[z]
             = IF z = at THEN e ELSE IF z = e THEN cut.multi_previous[at] ELSE cut.multi_previous[z]
    BY SMTT(60), <1>4, <2>2, <2>3, MultiLinkBeforeFields
  <2> HIDE DEF B
  <2>5. /\ M \in ListsType /\ SameLinks(B, M) /\ M.ready = B.ready /\ M.delay = B.delay
        /\ M.sync_head = B.sync_head /\ M.multi_next = B.multi_next
        /\ M.multi_previous = B.multi_previous
        /\ M.head[s] = (IF pr[h] > pr[e] THEN e ELSE B.head[s])
        /\ \A t \in Syncs \ {s} : M.head[t] = B.head[t]
    BY SMTT(60), <2>1, <2>4 DEF ListsType, Pointers, SameLinks
  <2>6. /\ M.ready = cut.ready /\ M.delay = cut.delay /\ SameLinks(cut, M)
        /\ M.sync_head = cut.sync_head /\ M.head[s] = h2
        /\ \A t \in Syncs \ {s} : M.head[t] = C.head[t]
    BY <1>4, <2>4, <2>5 DEF SameLinks, SameHeads
  <2> HIDE DEF h2
  <2>7. MultiKept(C, M, T)
    BY <1>4, <2>2, <2>4, <2>5 DEF MultiKept
  <2>8. /\ M.multi_next[e] = at /\ M.multi_next[C.multi_previous[at]] = e
        /\ M.multi_previous[e] = C.multi_previous[at] /\ M.multi_previous[at] = e
    <3>1. C.multi_previous[at] # e
      BY <2>2
    <3> QED
      BY <1>4, <2>2, <2>4, <2>5, <3>1
  <2>9. \A z \in Abs!Elements(q) : /\ z # C.multi_previous[at] => M.multi_next[z] = C.multi_next[z]
                                   /\ z # at => M.multi_previous[z] = C.multi_previous[z]
    <3>1. Abs!Elements(q) \subseteq Events /\ e \notin Abs!Elements(q)
      BY <1>3, Places
    <3> QED
      BY SMTT(60), <1>4, <2>4, <2>5, <3>1
  <2>10. IsList(M.multi_next, M.multi_previous, M.head[s], q2)
    BY SMTT(60), <2>1, <2>2, <2>6, <2>8, <2>9
  <2>11. Abs!Elements(q2) = T
    BY SMTT(60), <2>1, <2>2
  <2>12. Rep(M, pr, r, f, d, [qs EXCEPT ![s] = q2])
    BY SMTT(60), <1>5, <2>5, <2>6, <2>7, <2>10, <2>11 DEF M, q2
  <2> QED
    BY <2>12 DEF M, q2
<1> QED
  BY <1>6, <1>7, <1>8
--------------------------------------------------------------------------------
(***************************************************************************)
(* __Djy_AddRunningToBlock: the event leaves the ready queue and enters    *)
(* the block queue, with the pair of pointers that served the ring.        *)
(***************************************************************************)
LEMMA AddToBlockRep ==
  ASSUME NEW L, NEW pr, NEW r, NEW f, NEW d, NEW qs, Rep(L, pr, r, f, d, qs), Abs!PrioOK(pr),
         NEW s \in Syncs, s \in PrioOrder => Abs!SortedBy(qs[s], pr),
         NEW e \in Abs!Elements(r), e # Service
  PROVE  \E g : Rep(AddToBlock(L, pr, s, e), pr, Abs!CutFrom(r, e), g, d,
                    [qs EXCEPT ![s] = Entered(qs[s], pr, s, e)])
<1> DEFINE C == CutReadyEvent(L, pr, e)
           r2 == Abs!CutFrom(r, e)
           n == [qs EXCEPT ![s] = Entered(qs[s], pr, s, e)]
<1>1. PICK g : Rep(C, pr, r2, g, d, qs)
  BY CutReadyRep
<1>2. C.head[s] = L.head[s]
  <2>1. BlockRep(C, qs) /\ BlockRep(L, qs)
    BY <1>1 DEF Rep
  <2> HIDE DEF C
  <2> QED
    BY <2>1 DEF BlockRep, IsList
<1>3. AddToBlock(L, pr, s, e) = EnterBlock(C, pr, s, e)
  <2>1. AddToBlock(L, pr, s, e) =
          LET cut == [C EXCEPT !.previous[e] = NULL, !.next[e] = NULL, !.sync_head[e] = s]
              h   == L.head[s]
          IN  IF h = NULL
              THEN [cut EXCEPT !.multi_next[e] = e, !.multi_previous[e] = e, !.head[s] = e]
              ELSE IF s \in PrioOrder
              THEN [MultiLinkBefore(cut, Search(cut.multi_next, h, pr, e), e)
                      EXCEPT !.head[s] = IF pr[h] > pr[e] THEN e ELSE @]
              ELSE MultiLinkBefore(cut, h, e)
    BY DEF AddToBlock
  <2> HIDE DEF C
  <2> QED
    BY <1>2, <2>1 DEF EnterBlock
<1>4. /\ e \in Events /\ e \notin Abs!Elements(r2) /\ e \notin Abs!Elements(d)
      /\ \A t \in Syncs : e \notin Abs!Elements(qs[t])
  <2>1. Abs!ReadyOK(r, pr) /\ Apart(r, d, qs) /\ IsQueue(r)
    BY DEF Rep, ReadyRep, Abs!ReadyOK, IsQueue
  <2>2. Abs!Elements(r2) = Abs!Elements(r) \ {e}
    BY <2>1, AbsAssumption, Abs!ReadyCut DEF Abs!SchedAssumption
  <2> HIDE DEF r2
  <2> QED
    BY <2>1, <2>2, Places DEF Apart
<1> HIDE DEF C, r2
<1>5. Rep(EnterBlock(C, pr, s, e), pr, r2, g, d, n)
  BY <1>1, <1>4, EnterBlockRep
<1> QED
  BY <1>3, <1>5 DEF r2

(* An event leaves the block queue of s: what M must have done to the links. *)
LEMMA BlockCutRep ==
  ASSUME NEW L, NEW M, NEW pr, NEW r, NEW f, NEW d, NEW qs, Rep(L, pr, r, f, d, qs),
         NEW s \in Syncs, NEW e \in Abs!Elements(qs[s]),
         M \in ListsType, SameLinks(L, M), M.ready = L.ready, M.delay = L.delay,
         MultiKept(L, M, Abs!Elements(qs[s])),
         \A t \in Syncs \ {s} : M.head[t] = L.head[t],
         M.sync_head[e] = NULL, \A x \in Events \ {e} : M.sync_head[x] = L.sync_head[x],
         IF Len(qs[s]) = 1
         THEN M.head[s] = NULL
         ELSE /\ M.head[s] = IF e = L.head[s] THEN L.multi_next[L.head[s]] ELSE L.head[s]
              /\ M.multi_next[L.multi_previous[e]] = L.multi_next[e]
              /\ M.multi_previous[L.multi_next[e]] = L.multi_previous[e]
              /\ \A z \in Abs!Elements(qs[s]) \ {e} :
                   /\ z # L.multi_previous[e] => M.multi_next[z] = L.multi_next[z]
                   /\ z # L.multi_next[e] => M.multi_previous[z] = L.multi_previous[z]
  PROVE  /\ Rep(M, pr, r, f, d, [qs EXCEPT ![s] = Abs!CutFrom(qs[s], e)])
         /\ \A t \in Syncs : e \notin Abs!Elements([qs EXCEPT ![s] = Abs!CutFrom(qs[s], e)][t])
<1> DEFINE q == qs[s]
           q2 == Abs!CutFrom(q, e)
           n == [qs EXCEPT ![s] = q2]
<1>1. L \in ListsType /\ BlockRep(L, qs) /\ Apart(r, d, qs)
  BY DEF Rep
<1>2. /\ qs \in [Syncs -> Seq(Events)]
      /\ IsList(L.multi_next, L.multi_previous, L.head[s], q)
      /\ \A x \in Events, t \in Syncs : L.sync_head[x] = t <=> x \in Abs!Elements(qs[t])
  BY <1>1 DEF BlockRep
<1>3. IsQueue(q) /\ Len(q) \in Nat
  BY <1>2, ListHead
<1>4. PICK p \in 1..Len(q) : q[p] = e
  BY SMTT(60), <1>3, Places
<1>5. IsQueue(q2) /\ Abs!Elements(q2) = Abs!Elements(q) \ {e} /\ e \in Events
  <2> HIDE DEF q
  <2>1. /\ IsQueue(Abs!CutFrom(q, q[p])) /\ Abs!Elements(Abs!CutFrom(q, q[p])) = Abs!Elements(q) \ {q[p]}
        /\ q[p] \in Events
    BY ZenonT(60), <1>3, CutPlaces, Places
  <2> QED
    BY <1>4, <2>1
<1>6. IsList(M.multi_next, M.multi_previous, M.head[s], q2)
  <2>1. CASE Len(q) = 1
    BY <1>3, <2>1, ListEmptied
  <2>2. CASE Len(q) # 1
    <3>1. Len(q) > 1
      <4>1. \A k \in Nat : k # 1 /\ p \in 1..k => k > 1
        OBVIOUS
      <4>2. Len(q) \in Nat /\ p \in 1..Len(q)
        BY <1>3
      <4> QED
        BY ONLY <2>2, <4>1, <4>2
    <3>2. /\ M.head[s] = IF e = L.head[s] THEN L.multi_next[L.head[s]] ELSE L.head[s]
          /\ M.multi_next[L.multi_previous[e]] = L.multi_next[e]
          /\ M.multi_previous[L.multi_next[e]] = L.multi_previous[e]
          /\ \A z \in Abs!Elements(q) \ {e} :
               /\ z # L.multi_previous[e] => M.multi_next[z] = L.multi_next[z]
               /\ z # L.multi_next[e] => M.multi_previous[z] = L.multi_previous[z]
      BY <2>2
    <3>3. e \in Abs!Elements(q)
      OBVIOUS
    <3> HIDE DEF q
    <3>4. \A n2, p2, h2 :
            /\ n2[L.multi_previous[e]] = L.multi_next[e] /\ p2[L.multi_next[e]] = L.multi_previous[e]
            /\ \A z \in Abs!Elements(q) \ {e} :
                 /\ z # L.multi_previous[e] => n2[z] = L.multi_next[z]
                 /\ z # L.multi_next[e] => p2[z] = L.multi_previous[z]
            /\ h2 = IF e = L.head[s] THEN L.multi_next[L.head[s]] ELSE L.head[s]
            => IsList(n2, p2, h2, q2)
      BY SMTT(60), <1>2, <3>1, <3>3, ListCut
    <3> HIDE DEF q2
    <3> QED
      BY <3>2, <3>4
  <2> QED
    BY <2>1, <2>2
<1> HIDE DEF q2
<1>7. e \notin Abs!Elements(r) /\ \A t \in Syncs \ {s} : e \notin Abs!Elements(qs[t])
  BY <1>1, <1>2, <1>5 DEF Apart
<1>8. NULL \notin Syncs
  BY EcbAssumption DEF EcbAssumption
<1>9. /\ \A x \in Events \ {e} : /\ M.sync_head[x] = L.sync_head[x]
                                 /\ x \in Abs!Elements(q2) <=> x \in Abs!Elements(qs[s])
      /\ \A t \in Syncs : M.sync_head[e] = t <=> (t = s /\ e \in Abs!Elements(q2))
  BY <1>5, <1>8
<1>10. /\ LinksKept(L, M, {}) /\ MultiKept(L, M, Abs!Elements(qs[s]) \union {e})
       /\ q2 \in Seq(Events) /\ Abs!Elements(r) \intersect {} = {} /\ Abs!Elements(d) \intersect {} = {}
  BY <1>5 DEF SameLinks, LinksKept, MultiKept, IsQueue
<1>11. Rep(M, pr, r, f, d, n)
  BY <1>5, <1>6, <1>7, <1>9, <1>10, BlockChangedRep
<1>12. \A t \in Syncs : e \notin Abs!Elements(n[t])
  BY <1>2, <1>5, <1>7
<1> QED
  BY <1>11, <1>12 DEF q2

(***************************************************************************)
(* Lock_SempPost, Lock_MutexPost take the head out of the block queue.     *)
(***************************************************************************)
LEMMA TakeBlockHeadRep ==
  ASSUME NEW L, NEW pr, NEW r, NEW f, NEW d, NEW qs, Rep(L, pr, r, f, d, qs),
         NEW s \in Syncs, L.head[s] # NULL
  PROVE  /\ qs[s] # << >> /\ L.head[s] = Head(qs[s])
         /\ Rep(TakeBlockHead(L, s), pr, r, f, d, [qs EXCEPT ![s] = Tail(qs[s])])
         /\ \A t \in Syncs : L.head[s] \notin Abs!Elements([qs EXCEPT ![s] = Tail(qs[s])][t])
<1> DEFINE e == L.head[s]
           q == qs[s]
           M == TakeBlockHead(L, s)
           U == MultiUnlink(L, e)
<1>1. L \in ListsType /\ IsList(L.multi_next, L.multi_previous, e, q)
  BY DEF Rep, BlockRep
<1>2. /\ q # << >> /\ q \in Seq(Events) /\ Abs!NoDuplicates(q) /\ e = Head(q) /\ e \in Abs!Elements(q)
      /\ Abs!Elements(q) \subseteq Events
  BY <1>1, ListHead, Places DEF IsQueue
<1>3. Tail(q) = Abs!CutFrom(q, e)
  BY <1>2, AbsAssumption, Abs!TailIsCut DEF Abs!SchedAssumption
<1>4. /\ e \in Events /\ Len(q) \in Nat
      /\ L.multi_next[e] \in Events /\ L.multi_next[e] \in Abs!Elements(q)
      /\ L.multi_previous[e] \in Events /\ L.multi_previous[e] \in Abs!Elements(q)
      /\ L.multi_next[e] = e <=> Len(q) = 1
      /\ Len(q) # 1 => L.multi_previous[e] # e
  BY <1>1, <1>2, Neighbours
<1>5. CASE Len(q) = 1
  <2>1. M = [[L EXCEPT !.head[s] = NULL] EXCEPT !.sync_head[e] = NULL]
    BY <1>4, <1>5 DEF TakeBlockHead
  <2> HIDE DEF M
  <2>2. /\ M \in ListsType /\ SameLinks(L, M) /\ M.ready = L.ready /\ M.delay = L.delay
        /\ M.multi_next = L.multi_next /\ M.multi_previous = L.multi_previous
        /\ M.head[s] = NULL /\ \A t \in Syncs \ {s} : M.head[t] = L.head[t]
        /\ M.sync_head[e] = NULL /\ \A x \in Events \ {e} : M.sync_head[x] = L.sync_head[x]
    BY <1>1, <1>4, <2>1 DEF ListsType, Pointers, SameLinks
  <2>3. MultiKept(L, M, Abs!Elements(q))
    BY <2>2 DEF MultiKept
  <2>4. /\ Rep(M, pr, r, f, d, [qs EXCEPT ![s] = Abs!CutFrom(q, e)])
        /\ \A t \in Syncs : e \notin Abs!Elements([qs EXCEPT ![s] = Abs!CutFrom(q, e)][t])
    BY SMTT(60), <1>2, <1>5, <2>2, <2>3, BlockCutRep
  <2> QED
    BY <1>2, <1>3, <2>4 DEF M
<1>6. CASE Len(q) # 1
  <2>1. M = [[U EXCEPT !.head[s] = L.multi_next[e], !.multi_next[e] = NULL, !.multi_previous[e] = NULL]
               EXCEPT !.sync_head[e] = NULL]
    BY <1>4, <1>6 DEF TakeBlockHead
  <2>2. /\ U \in ListsType /\ SameLinks(L, U) /\ SameHeads(L, U)
        /\ \A z \in Events : U.multi_next[z]
             = IF z = L.multi_previous[e] THEN L.multi_next[e] ELSE L.multi_next[z]
        /\ \A z \in Events : U.multi_previous[z]
             = IF z = L.multi_next[e] THEN L.multi_previous[e] ELSE L.multi_previous[z]
    BY <1>1, <1>4, MultiUnlinkFields
  <2> HIDE DEF M, U
  <2>3. /\ M \in ListsType /\ SameLinks(U, M) /\ M.ready = U.ready /\ M.delay = U.delay
        /\ M.head[s] = L.multi_next[e] /\ \A t \in Syncs \ {s} : M.head[t] = U.head[t]
        /\ M.sync_head[e] = NULL /\ \A x \in Events \ {e} : M.sync_head[x] = U.sync_head[x]
        /\ \A z \in Events : z # e => M.multi_next[z] = U.multi_next[z]
                                      /\ M.multi_previous[z] = U.multi_previous[z]
    BY ZenonT(60), <1>4, <2>1, <2>2 DEF ListsType, Pointers, SameLinks
  <2>4. /\ SameLinks(L, M) /\ M.ready = L.ready /\ M.delay = L.delay
        /\ \A t \in Syncs \ {s} : M.head[t] = L.head[t]
        /\ \A x \in Events \ {e} : M.sync_head[x] = L.sync_head[x]
    BY <2>2, <2>3 DEF SameLinks, SameHeads
  <2>5. MultiKept(L, M, Abs!Elements(q))
    BY <1>2, <1>4, <2>2, <2>3 DEF MultiKept
  <2>6. /\ M.multi_next[L.multi_previous[e]] = L.multi_next[e]
        /\ M.multi_previous[L.multi_next[e]] = L.multi_previous[e]
    BY <1>4, <1>6, <2>2, <2>3
  <2>7. \A z \in Abs!Elements(q) \ {e} :
          /\ z # L.multi_previous[e] => M.multi_next[z] = L.multi_next[z]
          /\ z # L.multi_next[e] => M.multi_previous[z] = L.multi_previous[z]
    BY SMTT(60), <1>2, <2>2, <2>3
  <2>8. /\ Rep(M, pr, r, f, d, [qs EXCEPT ![s] = Abs!CutFrom(q, e)])
        /\ \A t \in Syncs : e \notin Abs!Elements([qs EXCEPT ![s] = Abs!CutFrom(q, e)][t])
    BY ZenonT(60), <1>2, <1>6, <2>3, <2>4, <2>5, <2>6, <2>7, BlockCutRep
  <2> QED
    BY <1>2, <1>3, <2>8 DEF M
<1> QED
  BY <1>5, <1>6

(***************************************************************************)
(* Djy_IsrTick: an event that times out leaves the block queue it is in,   *)
(* wherever it is in it.                                                   *)
(***************************************************************************)
LEMMA CutTimedOutRep ==
  ASSUME NEW L, NEW pr, NEW r, NEW f, NEW d, NEW qs, Rep(L, pr, r, f, d, qs), NEW e \in Events
  PROVE  LET n == [t \in Syncs |-> IF e \in Abs!Elements(qs[t]) THEN Abs!CutFrom(qs[t], e) ELSE qs[t]]
         IN  /\ Rep(CutTimedOut(L, e), pr, r, f, d, n)
             /\ \A t \in Syncs : e \notin Abs!Elements(n[t])
             /\ CutTimedOut(L, e).delay = L.delay
<1> DEFINE n == [t \in Syncs |-> IF e \in Abs!Elements(qs[t]) THEN Abs!CutFrom(qs[t], e) ELSE qs[t]]
           s == L.sync_head[e]
           M == CutTimedOut(L, e)
           U == MultiUnlink(L, e)
<1>1. /\ L \in ListsType /\ BlockRep(L, qs) /\ qs \in [Syncs -> Seq(Events)]
      /\ \A t \in Syncs : s = t <=> e \in Abs!Elements(qs[t])
      /\ s \in Syncs \union {NULL} /\ NULL \notin Syncs
  BY EcbAssumption DEF Rep, BlockRep, ListsType, EcbAssumption
<1>2. CASE s = NULL
  <2>1. M = L /\ \A t \in Syncs : e \notin Abs!Elements(qs[t])
    BY <1>1, <1>2 DEF CutTimedOut
  <2>2. n = qs
    BY <1>1, <2>1
  <2> QED
    BY <2>1, <2>2
<1>3. CASE s # NULL
  <2> DEFINE q == qs[s]
  <2>1. s \in Syncs /\ e \in Abs!Elements(q)
    BY <1>1, <1>3
  <2>2. n = [qs EXCEPT ![s] = Abs!CutFrom(q, e)]
    <3>1. \A t \in Syncs : n[t] = IF t = s THEN Abs!CutFrom(q, e) ELSE qs[t]
      BY <1>1, <2>1
    <3>2. n = [t \in Syncs |-> IF t = s THEN Abs!CutFrom(q, e) ELSE qs[t]]
      BY <3>1
    <3> HIDE DEF n, s
    <3> QED
      BY <1>1, <2>1, <3>2
  <2>3. IsList(L.multi_next, L.multi_previous, L.head[s], q)
    BY <1>1, <2>1 DEF BlockRep
  <2>4. /\ Len(q) \in Nat /\ L.head[s] \in Events /\ Abs!Elements(q) \subseteq Events
        /\ L.multi_next[e] \in Events /\ L.multi_next[e] \in Abs!Elements(q)
        /\ L.multi_previous[e] \in Events /\ L.multi_previous[e] \in Abs!Elements(q)
        /\ L.multi_next[e] = e <=> Len(q) = 1
        /\ Len(q) # 1 => L.multi_previous[e] # e
        /\ Len(q) = 1 => e = L.head[s]
    <3> HIDE DEF q, s, n
    <3>1. Abs!Elements(q) \subseteq Events
      BY <2>3, Places DEF IsList
    <3> QED
      BY <2>1, <2>3, <3>1, Neighbours
  <2> HIDE DEF n, s
  <2>5. CASE Len(q) = 1
    <3>1. M = [[L EXCEPT !.head[s] = NULL, !.multi_next[e] = NULL, !.multi_previous[e] = NULL]
                 EXCEPT !.sync_head[e] = NULL]
      BY <1>3, <2>4, <2>5 DEF CutTimedOut, s
    <3> HIDE DEF M
    <3>2. /\ M \in ListsType /\ SameLinks(L, M) /\ M.ready = L.ready /\ M.delay = L.delay
          /\ M.head[s] = NULL /\ \A t \in Syncs \ {s} : M.head[t] = L.head[t]
          /\ M.sync_head[e] = NULL /\ \A x \in Events \ {e} : M.sync_head[x] = L.sync_head[x]
          /\ \A z \in Events : z # e => M.multi_next[z] = L.multi_next[z]
                                        /\ M.multi_previous[z] = L.multi_previous[z]
      BY ZenonT(60), <1>1, <2>1, <3>1 DEF ListsType, Pointers, SameLinks
    <3>3. MultiKept(L, M, Abs!Elements(q))
      BY <2>1, <3>2 DEF MultiKept
    <3>4. /\ Rep(M, pr, r, f, d, [qs EXCEPT ![s] = Abs!CutFrom(q, e)])
          /\ \A t \in Syncs : e \notin Abs!Elements([qs EXCEPT ![s] = Abs!CutFrom(q, e)][t])
      BY <2>1, <2>5, <3>2, <3>3, BlockCutRep
    <3> QED
      BY SMTT(60), <2>2, <3>2, <3>4 DEF M, n
  <2>6. CASE Len(q) # 1
    <3>1. M = [[U EXCEPT !.head[s] = IF @ = e THEN L.multi_next[e] ELSE @] EXCEPT !.sync_head[e] = NULL]
      BY <1>3, <2>4, <2>6 DEF CutTimedOut, s
    <3>2. /\ U \in ListsType /\ SameLinks(L, U) /\ SameHeads(L, U)
          /\ \A z \in Events : U.multi_next[z]
               = IF z = L.multi_previous[e] THEN L.multi_next[e] ELSE L.multi_next[z]
          /\ \A z \in Events : U.multi_previous[z]
               = IF z = L.multi_next[e] THEN L.multi_previous[e] ELSE L.multi_previous[z]
      BY <1>1, <2>4, MultiUnlinkFields
    <3> HIDE DEF M, U
    <3>3. /\ M \in ListsType /\ SameLinks(U, M) /\ M.ready = U.ready /\ M.delay = U.delay
          /\ M.head[s] = (IF U.head[s] = e THEN L.multi_next[e] ELSE U.head[s])
          /\ \A t \in Syncs \ {s} : M.head[t] = U.head[t]
          /\ M.sync_head[e] = NULL /\ \A x \in Events \ {e} : M.sync_head[x] = U.sync_head[x]
          /\ M.multi_next = U.multi_next /\ M.multi_previous = U.multi_previous
      BY ZenonT(60), <2>1, <2>4, <3>1, <3>2 DEF ListsType, Pointers, SameLinks
    <3>4. /\ SameLinks(L, M) /\ M.ready = L.ready /\ M.delay = L.delay
          /\ M.head[s] = (IF e = L.head[s] THEN L.multi_next[L.head[s]] ELSE L.head[s])
          /\ \A t \in Syncs \ {s} : M.head[t] = L.head[t]
          /\ \A x \in Events \ {e} : M.sync_head[x] = L.sync_head[x]
      BY <3>2, <3>3 DEF SameLinks, SameHeads
    <3>5. MultiKept(L, M, Abs!Elements(q))
      BY <2>4, <3>2, <3>3 DEF MultiKept
    <3>6. /\ M.multi_next[L.multi_previous[e]] = L.multi_next[e]
          /\ M.multi_previous[L.multi_next[e]] = L.multi_previous[e]
      BY <2>4, <3>2, <3>3
    <3>7. \A z \in Abs!Elements(q) \ {e} :
            /\ z # L.multi_previous[e] => M.multi_next[z] = L.multi_next[z]
            /\ z # L.multi_next[e] => M.multi_previous[z] = L.multi_previous[z]
      BY SMTT(60), <2>4, <3>2, <3>3
    <3>8. /\ Rep(M, pr, r, f, d, [qs EXCEPT ![s] = Abs!CutFrom(q, e)])
          /\ \A t \in Syncs : e \notin Abs!Elements([qs EXCEPT ![s] = Abs!CutFrom(q, e)][t])
      BY SMTT(60), <2>1, <2>6, <3>3, <3>4, <3>5, <3>6, <3>7, BlockCutRep
    <3> QED
      BY SMTT(60), <2>2, <3>4, <3>8 DEF M, n
  <2> QED
    BY <2>5, <2>6
<1> QED
  BY <1>2, <1>3
--------------------------------------------------------------------------------
(* The same pointers represent the same queues. *)
LEMMA RepSame ==
  ASSUME NEW L, NEW M, NEW pr, NEW r, NEW f, NEW d, NEW qs, Rep(L, pr, r, f, d, qs),
         M \in ListsType, SameHeads(L, M), LinksKept(L, M, {}), MultiKept(L, M, {})
  PROVE  Rep(M, pr, r, f, d, qs)
<1>1. DelayRep(L, d) /\ BlockRep(L, qs) /\ Apart(r, d, qs)
  BY DEF Rep
<1>2. M.ready = L.ready /\ M.delay = L.delay /\ M.head = L.head /\ M.sync_head = L.sync_head
  BY DEF SameHeads
<1>3. DelayRep(M, d)
  BY <1>1, <1>2, DelayKept
<1>4. BlockRep(M, qs)
  BY <1>1, <1>2, BlockKept
<1> QED
  BY <1>1, <1>2, <1>3, <1>4, RepChanged

(* Where the ring search finds the place of e behind a first event of e's   *)
(* priority: at the first event of the next priority.                       *)
LEMMA BehindPeers ==
  ASSUME NEW L, NEW pr, NEW r, NEW f, ReadyRep(L, pr, r, f), L \in ListsType, Abs!PrioOK(pr),
         NEW e \in Events \ {Service}, e \notin Abs!Elements(r),
         NEW p \in 1..Len(r), IsFirst(pr, r, p), pr[r[p]] = pr[e]
  PROVE  LET at == Search(L.multi_next, L.ready, pr, e)
         IN  /\ at = L.multi_next[r[p]]
             /\ at \in Events /\ e # at /\ L.previous[at] \in Events
             /\ pr[e] = pr[L.previous[at]] /\ ~(pr[e] < pr[L.ready])
<1> DEFINE at == Search(L.multi_next, L.ready, pr, e)
           i == Abs!InsertPos(r, pr, e)
           j == Abs!InsertPos(f, pr, e)
           r2 == Abs!InsertSorted(r, pr, e)
<1>1. /\ Abs!ReadyOK(r, pr) /\ IsRing(L.next, L.previous, r) /\ L.ready = r[1]
      /\ FirstsOf(pr, r, f) /\ IsRing(L.multi_next, L.multi_previous, f)
  BY DEF ReadyRep
<1>2. /\ i \in 1..Len(r) /\ j \in 1..Len(f) /\ at = r[i] /\ at = f[j]
      /\ at \in Events /\ e # at /\ L.previous[at] \in Events
      /\ pr[e] < pr[L.ready] <=> i = 1
  BY ReadySearch
<1>3. /\ pr[r[i]] > pr[e] /\ \A k \in 1..(i - 1) : pr[r[k]] <= pr[e]
      /\ \A k \in 1..(j - 1) : pr[f[k]] <= pr[e]
  BY <1>1, FirstsPlace
<1> HIDE DEF at, i, j
<1>4. /\ Len(r) \in Nat /\ Len(f) \in Nat /\ IsQueue(r) /\ IsQueue(f)
      /\ \A x \in Events : pr[x] \in Nat
      /\ \A k \in 1..Len(r) : r[k] \in Events /\ pr[r[k]] \in Nat
      /\ \A k \in 1..Len(f) : f[k] \in Events /\ pr[f[k]] \in Nat
      /\ \A k, l \in 1..Len(r) : k < l => pr[r[k]] <= pr[r[l]]
      /\ \A k, l \in 1..Len(f) : k < l => pr[f[k]] < pr[f[l]]
      /\ \E k \in 1..Len(f) : f[k] = r[p]
  BY <1>1, FirstsFacts
<1>5. PICK k \in 1..Len(f) : f[k] = r[p]
  BY <1>4
<1>6. j = k + 1
  <2>1. pr[f[j]] > pr[e] /\ pr[f[k]] = pr[e] /\ pr[e] \in Nat /\ pr[f[j]] \in Nat
    BY <1>2, <1>3, <1>4, <1>5
  <2>2. k < j
    <3>1. ~(j < k) /\ j # k
      BY SMTT(60), <1>2, <1>4, <2>1
    <3> QED
      BY <1>2, <3>1
  <2>3. ASSUME k + 1 < j PROVE FALSE
    <3>1. k + 1 \in 1..(j - 1) /\ k + 1 \in 1..Len(f) /\ k < k + 1
      BY <1>2, <1>4, <2>3
    <3>2. pr[f[k + 1]] <= pr[e] /\ pr[f[k]] < pr[f[k + 1]] /\ pr[f[k + 1]] \in Nat
      BY <1>3, <1>4, <3>1
    <3> QED
      BY <2>1, <3>2
  <2> QED
    BY <1>2, <2>2, <2>3
<1>7. at = L.multi_next[r[p]]
  <2>1. Succ(f, k) = k + 1
    BY <1>2, <1>4, <1>6 DEF Succ
  <2>2. L.multi_next[f[k]] = f[Succ(f, k)]
    BY <1>1 DEF IsRing
  <2> QED
    BY SMTT(60), <1>2, <1>5, <1>6, <2>1, <2>2
<1>8. p < i
  <2>1. ~(i < p) /\ i # p
    <3>1. pr[r[i]] > pr[e] /\ pr[r[p]] = pr[e] /\ pr[e] \in Nat /\ pr[r[i]] \in Nat
      BY <1>2, <1>3, <1>4
    <3>2. i < p => pr[r[i]] <= pr[r[p]]
      BY <1>2, <1>4
    <3> QED
      BY <3>1, <3>2
  <2> QED
    BY <1>2, <2>1
<1>9. i # 1 /\ i - 1 \in 1..Len(r) /\ Pred(r, i) = i - 1 /\ i - 1 \in 1..(i - 1)
  BY <1>2, <1>4, <1>8 DEF Pred
<1>10. L.previous[at] = r[i - 1]
  BY <1>1, <1>2, <1>9 DEF IsRing
<1>11. pr[r[i - 1]] = pr[e]
  <2>1. pr[r[i - 1]] <= pr[e] /\ pr[r[i - 1]] \in Nat /\ pr[e] \in Nat
    BY SMTT(60), <1>3, <1>4, <1>9
  <2>2. pr[r[p]] <= pr[r[i - 1]]
    <3>1. CASE p = i - 1
      BY <2>1, <3>1
    <3>2. CASE p # i - 1
      <4>1. p < i - 1
        <5>1. p \in Nat /\ i \in Nat
          BY <1>2
        <5> QED
          BY ONLY <1>8, <3>2, <5>1
      <4> QED
        BY SMTT(60), <1>4, <1>9, <4>1
    <3> QED
      BY <3>1, <3>2
  <2> QED
    BY <2>1, <2>2
<1> QED
  BY <1>2, <1>7, <1>9, <1>10, <1>11 DEF at

(***************************************************************************)
(* The round robin of Djy_IsrTick does not search the ring: it goes by the *)
(* running event's own multi_next, and comes to the same as a cut and an   *)
(* insertion.                                                              *)
(***************************************************************************)
LEMMA RotateRep ==
  ASSUME NEW L, NEW pr, NEW r, NEW f, NEW d, NEW qs, Rep(L, pr, r, f, d, qs), Abs!PrioOK(pr),
         NEW p \in 1..Len(r), IsFirst(pr, r, p), r[p] # Service, pr[r[p + 1]] = pr[r[p]]
  PROVE  \E g : Rep(RotateRunning(L, r[p]), pr,
                    Abs!InsertSorted(Abs!CutFrom(r, r[p]), pr, r[p]), g, d, qs)
<1> DEFINE e == r[p]
           nx == L.next[e]
           mn == L.multi_next[e]
           r2 == Abs!CutFrom(r, e)
           r3 == Abs!InsertSorted(r2, pr, e)
           U == Unlink(L, e)
           cut == [U EXCEPT !.ready = IF e = L.ready THEN nx ELSE @]
           C == CutReadyEvent(L, pr, e)
           at == Search(C.multi_next, C.ready, pr, e)
           E == EventReady(C, pr, e)
           B == LinkBefore(C, at, e)
           X == MultiReplace(L, e, nx)
           ring == [X EXCEPT !.multi_next[e] = NULL, !.multi_previous[e] = NULL,
                             !.ready = IF @ = e THEN nx ELSE @]
           out == [ring EXCEPT !.next[ring.previous[e]] = nx, !.previous[nx] = ring.previous[e]]
           R == RotateRunning(L, e)
<1>1. /\ L \in ListsType /\ ReadyRep(L, pr, r, f) /\ Apart(r, d, qs) /\ Abs!ReadyOK(r, pr)
      /\ FirstsOf(pr, r, f) /\ IsQueue(r) /\ e \in Abs!Elements(r)
  BY Places DEF Rep, ReadyRep, Abs!ReadyOK, IsQueue
<1>2. /\ Len(r) \in Nat /\ p + 1 \in 1..Len(r) /\ e \in Events /\ nx = r[p + 1]
      /\ nx \in Events /\ nx \in Abs!Elements(r)
      /\ L.previous[e] \in Events /\ e \in Abs!Elements(f)
      /\ mn # NULL /\ pr[nx] = pr[e] /\ nx # e
  <2>1. /\ Len(r) \in Nat /\ p + 1 \in 1..Len(r) /\ e \in Events /\ nx = r[p + 1]
        /\ nx \in Events /\ nx \in Abs!Elements(r) /\ L.previous[e] \in Events
        /\ (mn = NULL <=> e \notin Abs!Elements(f))
        /\ (e \in Abs!Elements(f) <=> IsFirst(pr, r, p))
    BY <1>1, ReadyPlace
  <2>2. \A i, j \in 1..Len(r) : r[i] = r[j] => i = j
    BY <1>1, Places
  <2>3. nx # e
    BY <2>1, <2>2
  <2> QED
    BY <2>1, <2>3
<1>3. mn \in Events /\ L.multi_previous[e] \in Events
  <2>1. IsQueue(f) /\ IsRing(L.multi_next, L.multi_previous, f)
    BY <1>1, FirstsFacts DEF ReadyRep
  <2>2. PICK j \in 1..Len(f) : f[j] = e
    BY <1>2 DEF Abs!Elements
  <2>3. L.multi_next[f[j]] \in Events /\ L.multi_previous[f[j]] \in Events
    BY <2>1, RingPlace
  <2> QED
    BY <2>2, <2>3
<1>4. PICK g : Rep(C, pr, r2, g, d, qs)
  BY <1>1, CutReadyRep
<1>5. C = MultiReplace(cut, e, nx)
  BY <1>2 DEF CutReadyEvent
<1>6. RotateRunning(L, e) = LinkBefore(out, mn, e)
  BY DEF RotateRunning
<1>7. /\ C \in ListsType /\ ReadyRep(C, pr, r2, g) /\ e \notin Abs!Elements(r2) /\ e \notin Abs!Elements(d)
      /\ \A s \in Syncs : e \notin Abs!Elements(qs[s])
  <2>1. Abs!Elements(r2) = Abs!Elements(r) \ {e}
    BY <1>1, CutPlaces
  <2> HIDE DEF r2, C
  <2> QED
    BY <1>1, <1>4, <2>1 DEF Rep, Apart
<1>8. p \in 1..Len(r2) /\ r2[p] = nx /\ IsFirst(pr, r2, p)
  <2>1. /\ p + 1 \in 1..Len(r) /\ Len(r2) = Len(r) - 1
        /\ p \in 1..Len(r2) /\ r2[p] = r[p + 1] /\ (p > 1 => r2[p - 1] = r[p - 1])
    BY SMTT(60), <1>1, CutAround
  <2> HIDE DEF r2, nx
  <2> QED
    BY <1>2, <2>1 DEF IsFirst
<1>9. PICK h : Rep(E, pr, r3, h, d, qs)
  <2> HIDE DEF C, r2
  <2> QED
    BY <1>2, <1>4, <1>7, EventReadyRep
<1>10. /\ at = C.multi_next[nx] /\ at \in Events /\ e # at /\ C.previous[at] \in Events
       /\ pr[e] = pr[C.previous[at]] /\ ~(pr[e] < pr[C.ready])
  <2> HIDE DEF C, r2, nx, e
  <2>1. e \in Events \ {Service}
    BY <1>2 DEF e
  <2> QED
    BY <1>2, <1>7, <1>8, <2>1, BehindPeers
<1>11. /\ U \in ListsType /\ SameMulti(L, U) /\ SameHeads(L, U)
       /\ \A z \in Events : U.next[z] = IF z = L.previous[e] THEN nx ELSE L.next[z]
       /\ \A z \in Events : U.previous[z] = IF z = nx THEN L.previous[e] ELSE L.previous[z]
  BY <1>1, <1>2, UnlinkFields
<1> HIDE DEF U
<1>12. /\ cut \in ListsType /\ SameMulti(U, cut) /\ SameLinks(U, cut)
       /\ cut.delay = U.delay /\ cut.head = U.head /\ cut.sync_head = U.sync_head
       /\ cut.ready = IF e = L.ready THEN nx ELSE U.ready
  BY SMTT(60), <1>2, <1>11 DEF ListsType, Pointers, SameMulti, SameLinks
<1> HIDE DEF cut
<1>13. /\ cut.multi_next[e] \in Events /\ cut.multi_previous[e] \in Events
       /\ cut.multi_next = L.multi_next /\ cut.multi_previous = L.multi_previous
       /\ cut.next = U.next /\ cut.previous = U.previous
  BY <1>3, <1>11, <1>12 DEF SameMulti, SameLinks
<1>14. /\ SameLinks(cut, C) /\ SameHeads(cut, C)
       /\ \A z \in Events : C.multi_next[z]
            = IF z = nx THEN mn ELSE IF z = L.multi_previous[e] THEN nx ELSE L.multi_next[z]
       /\ \A z \in Events : C.multi_previous[z]
            = IF z = mn THEN nx ELSE IF z = nx THEN L.multi_previous[e] ELSE L.multi_previous[z]
  BY SMTT(60), <1>2, <1>5, <1>12, <1>13, MultiReplaceFields
<1> HIDE DEF C
<1>15. at = mn
  BY <1>2, <1>10, <1>14
<1>16. /\ C.next = U.next /\ C.previous = U.previous
       /\ C.delay = L.delay /\ C.head = L.head /\ C.sync_head = L.sync_head
       /\ C.ready = IF e = L.ready THEN nx ELSE L.ready
  BY <1>11, <1>12, <1>13, <1>14 DEF SameLinks, SameHeads
<1> HIDE DEF at
<1>17. /\ B \in ListsType /\ SameMulti(C, B) /\ SameHeads(C, B)
       /\ \A z \in Events : B.next[z] = IF z = C.previous[at] THEN e ELSE IF z = e THEN at ELSE C.next[z]
       /\ \A z \in Events : B.previous[z]
            = IF z = at THEN e ELSE IF z = e THEN C.previous[at] ELSE C.previous[z]
  <2> HIDE DEF e
  <2>1. C \in ListsType /\ e \in Events /\ at \in Events /\ C.previous[at] \in Events /\ e # at
    <3> HIDE DEF r2
    <3> QED
      BY SMTT(60), <1>2, <1>7, <1>10
  <2> QED
    BY SMTT(60), <2>1, LinkBeforeFields
<1>18. E = [[B EXCEPT !.multi_next[e] = NULL, !.multi_previous[e] = NULL] EXCEPT !.ready = @]
  <2>1. B.previous[e] = C.previous[at]
    BY ZenonT(60), <1>2, <1>10, <1>17
  <2>2. E = [(IF pr[e] # pr[B.previous[e]]
              THEN MultiLinkBefore(B, at, e)
              ELSE [B EXCEPT !.multi_next[e] = NULL, !.multi_previous[e] = NULL])
             EXCEPT !.ready = IF pr[e] < pr[C.ready] THEN e ELSE @]
    <3> HIDE DEF e
    <3> QED
      BY DEF EventReady, at
  <2> HIDE DEF E, B, e
  <2> QED
    BY ZenonT(60), <1>10, <2>1, <2>2
<1> HIDE DEF E, B
<1>19. /\ SameLinks(B, E) /\ SameHeads(B, E)
       /\ \A z \in Events : E.multi_next[z] = IF z = e THEN NULL ELSE B.multi_next[z]
       /\ \A z \in Events : E.multi_previous[z] = IF z = e THEN NULL ELSE B.multi_previous[z]
  BY <1>2, <1>17, <1>18 DEF ListsType, Pointers, SameLinks, SameHeads
<1>20. /\ X \in ListsType /\ SameLinks(L, X) /\ SameHeads(L, X)
       /\ \A z \in Events : X.multi_next[z]
            = IF z = nx THEN mn ELSE IF z = L.multi_previous[e] THEN nx ELSE L.multi_next[z]
       /\ \A z \in Events : X.multi_previous[z]
            = IF z = mn THEN nx ELSE IF z = nx THEN L.multi_previous[e] ELSE L.multi_previous[z]
  BY SMTT(60), <1>1, <1>2, <1>3, MultiReplaceFields
<1> HIDE DEF X
<1>21. /\ ring \in ListsType /\ SameLinks(X, ring)
       /\ ring.delay = X.delay /\ ring.head = X.head /\ ring.sync_head = X.sync_head
       /\ ring.ready = IF X.ready = e THEN nx ELSE X.ready
       /\ \A z \in Events : ring.multi_next[z] = IF z = e THEN NULL ELSE X.multi_next[z]
       /\ \A z \in Events : ring.multi_previous[z] = IF z = e THEN NULL ELSE X.multi_previous[z]
  BY ZenonT(60), <1>2, <1>20 DEF ListsType, Pointers, SameLinks
<1> HIDE DEF ring
<1>22. ring.next = L.next /\ ring.previous = L.previous
  BY <1>20, <1>21 DEF SameLinks
<1>23. /\ out \in ListsType /\ SameMulti(ring, out) /\ SameHeads(ring, out)
       /\ \A z \in Events : out.next[z] = IF z = ring.previous[e] THEN nx ELSE ring.next[z]
       /\ \A z \in Events : out.previous[z] = IF z = nx THEN ring.previous[e] ELSE ring.previous[z]
  BY ZenonT(60), <1>2, <1>21, <1>22 DEF ListsType, Pointers, SameMulti, SameHeads
<1> HIDE DEF out
<1>24. \A z \in Events : out.next[z] = C.next[z] /\ out.previous[z] = C.previous[z]
  BY SMTT(60), <1>11, <1>16, <1>22, <1>23
<1>25. out.previous[mn] \in Events /\ mn # e
  BY SMTT(60), <1>3, <1>10, <1>15, <1>24
<1>26. /\ R \in ListsType /\ SameMulti(out, R) /\ SameHeads(out, R)
       /\ \A z \in Events : R.next[z] = IF z = out.previous[mn] THEN e ELSE IF z = e THEN mn ELSE out.next[z]
       /\ \A z \in Events : R.previous[z]
            = IF z = mn THEN e ELSE IF z = e THEN out.previous[mn] ELSE out.previous[z]
  BY SMTT(60), <1>2, <1>3, <1>6, <1>23, <1>25, LinkBeforeFields
<1> HIDE DEF R
<1>27. LinksKept(E, R, {})
  <2>1. E.next = B.next /\ E.previous = B.previous
    BY <1>19 DEF SameLinks
  <2>2. out.previous[mn] = C.previous[at]
    BY <1>3, <1>15, <1>24
  <2> HIDE DEF mn, nx, e
  <2> QED
    BY SMTT(60), <1>15, <1>17, <1>24, <1>26, <2>1, <2>2 DEF LinksKept
<1>28. MultiKept(E, R, {})
  <2>1. R.multi_next = ring.multi_next /\ R.multi_previous = ring.multi_previous
    BY <1>23, <1>26 DEF SameMulti
  <2>2. B.multi_next = C.multi_next /\ B.multi_previous = C.multi_previous
    BY <1>17 DEF SameMulti
  <2> HIDE DEF mn, nx, e
  <2> QED
    BY SMTT(60), <1>14, <1>19, <1>20, <1>21, <2>1, <2>2 DEF MultiKept
<1>29. SameHeads(E, R)
  <2> HIDE DEF mn, nx, e
  <2> QED
    BY SMTT(60), <1>16, <1>17, <1>19, <1>20, <1>21, <1>23, <1>26 DEF SameHeads
<1>30. Rep(R, pr, r3, h, d, qs)
  <2> HIDE DEF r3, r2
  <2> QED
    BY SMTT(60), <1>9, <1>26, <1>27, <1>28, <1>29, RepSame
<1> QED
  BY <1>30 DEF R
--------------------------------------------------------------------------------
(* The queues that the pointers represent are the ones that walking along   *)
(* them yields.                                                             *)
LEMMA RepQueues ==
  ASSUME NEW L, NEW pr, NEW r, NEW f, NEW d, NEW qs, Rep(L, pr, r, f, d, qs)
  PROVE  /\ Unroll(L.next, L.ready) = r /\ Unroll(L.next, L.delay) = d
         /\ [s \in Syncs |-> Unroll(L.multi_next, L.head[s])] = qs
         /\ Unroll(L.multi_next, L.ready) = f
<1>1. ASSUME NEW nxt, NEW prv, NEW h, NEW q, IsList(nxt, prv, h, q) PROVE Unroll(nxt, h) = q
  <2>1. IsQueue(q) /\ IsRing(nxt, prv, q) /\ Len(q) \in Nat /\ (h = NULL <=> q = << >>)
        /\ (Len(q) > 0 => h = q[1]) /\ (h = NULL <=> Len(q) = 0)
    BY <1>1, ListHead
  <2>2. CASE Len(q) = 0
    BY <2>1, <2>2, UnrollNone
  <2>3. CASE Len(q) > 0
    BY <2>1, <2>3, UnrollIs
  <2> QED
    BY <2>1, <2>2, <2>3
<1>2. /\ IsQueue(r) /\ IsRing(L.next, L.previous, r) /\ Len(r) > 0 /\ L.ready = r[1]
      /\ IsQueue(f) /\ IsRing(L.multi_next, L.multi_previous, f) /\ Len(f) > 0 /\ f[1] = r[1]
  BY DEF Rep, ReadyRep, FirstsOf, Abs!ReadyOK, IsQueue
<1>3. Unroll(L.next, L.ready) = r
  BY <1>2, UnrollIs
<1>4. Unroll(L.multi_next, L.ready) = f
  <2>1. Unroll(L.multi_next, f[1]) = f
    BY <1>2, UnrollIs
  <2> QED
    BY <1>2, <2>1
<1>5. Unroll(L.next, L.delay) = d
  BY <1>1 DEF Rep, DelayRep
<1>6. qs \in [Syncs -> Seq(Events)] /\ \A s \in Syncs : Unroll(L.multi_next, L.head[s]) = qs[s]
  BY <1>1 DEF Rep, BlockRep
<1>7. [s \in Syncs |-> Unroll(L.multi_next, L.head[s])] = qs
  BY <1>6
<1> QED
  BY <1>3, <1>4, <1>5, <1>7

(* The pointer test of Djy_EventDelay and Djy_IsrTick, prio = next->prio and *)
(* next # itself, finds a peer behind the running event, and no other: at    *)
(* the tail next goes round to the first event.                              *)
LEMMA PeerFound ==
  ASSUME NEW r, NEW f, NEW d, NEW qs, Rep(lists, prio, r, f, d, qs), Abs!PrioOK(prio),
         NEW p \in 1..Len(r), r[p] = running
  PROVE  /\ HasPeer <=> Abs!HasPeer(r, prio, running)
         /\ HasPeer => running # Service /\ prio[r[p + 1]] = prio[r[p]]
<1>1. /\ lists \in ListsType /\ ReadyRep(lists, prio, r, f) /\ Abs!ReadyOK(r, prio) /\ IsQueue(r)
      /\ FirstsOf(prio, r, f) /\ IsRing(lists.next, lists.previous, r)
  BY DEF Rep, ReadyRep, Abs!ReadyOK, IsQueue
<1>2. /\ Len(r) \in Nat /\ \A i, j \in 1..Len(r) : r[i] = r[j] => i = j
      /\ r[Len(r)] = Service /\ \A x \in Events \ {Service} : prio[x] < prio[Service]
      /\ \A i \in 1..Len(r) : r[i] \in Events /\ prio[r[i]] \in Nat
  BY <1>1, FirstsFacts
<1>3. Abs!PosOf(r, running) = p
  BY <1>2 DEF Abs!PosOf
<1>4. Abs!HasPeer(r, prio, running) <=> (p < Len(r) /\ prio[r[p + 1]] = prio[r[p]])
  BY <1>3 DEF Abs!HasPeer
<1>5. CASE running = Service
  <2>1. p = Len(r) /\ Succ(r, p) = 1 /\ 1 \in 1..Len(r)
    BY <1>2, <1>5 DEF Succ
  <2>2. lists.next[running] = r[1]
    BY <1>1, <2>1 DEF IsRing
  <2>3. r[1] \in Events /\ prio[r[1]] \in Nat /\ prio[Service] \in Nat
    BY <1>2, <1>5, <2>1
  <2>4. ~HasPeer
    <3>1. r[1] # Service => prio[r[1]] < prio[Service]
      BY <1>2, <2>3
    <3> QED
      BY <1>5, <2>2, <2>3, <3>1 DEF HasPeer
  <2> QED
    BY <1>4, <2>1, <2>4
<1>6. CASE running # Service
  <2>1. p + 1 \in 1..Len(r) /\ lists.next[r[p]] = r[p + 1]
    BY <1>1, <1>6, ReadyPlace
  <2>2. r[p + 1] # r[p] /\ p < Len(r)
    BY <1>2, <2>1
  <2> QED
    BY SMTT(60), <1>4, <1>6, <2>1, <2>2 DEF HasPeer
<1> QED
  BY <1>5, <1>6

(* The cardinality EventSched speaks of. *)
LEMMA SameCardinality == Abs!Cardinality(Events) = Cardinality(Events)
  BY DEF Cardinality, Abs!Cardinality
--------------------------------------------------------------------------------
(***************************************************************************)
(* The start: the service event alone, then one insertion after the other. *)
(***************************************************************************)
Alone == [e \in Events |-> IF e = Service THEN Service ELSE NULL]
Start == [next |-> Alone, previous |-> Alone, multi_next |-> Alone, multi_previous |-> Alone,
          ready |-> Service, delay |-> NULL,
          head |-> [s \in Syncs |-> NULL], sync_head |-> [e \in Events |-> NULL]]
NoQueues == [s \in Syncs |-> << >>]

(* The service event alone. *)
LEMMA StartRep ==
  ASSUME NEW pr, Abs!PrioOK(pr)
  PROVE  Rep(Start, pr, <<Service>>, <<Service>>, << >>, NoQueues)
<1> DEFINE r == <<Service>>
<1>1. Service \in Events /\ NULL \notin Events /\ NULL \notin Syncs
  BY EcbAssumption DEF EcbAssumption
<1>2. Alone \in [Events -> Pointers] /\ Alone[Service] = Service
  BY <1>1 DEF Alone, Pointers
<1>3. /\ Start.next = Alone /\ Start.previous = Alone
      /\ Start.multi_next = Alone /\ Start.multi_previous = Alone
      /\ Start.ready = Service /\ Start.delay = NULL
      /\ \A s \in Syncs : Start.head[s] = NULL
      /\ \A x \in Events : Start.sync_head[x] = NULL
  BY DEF Start
<1>4. Start \in ListsType
  BY <1>1, <1>2 DEF Start, ListsType, Pointers
<1> HIDE DEF Start, Alone
<1>5. r \in Seq(Events) /\ Len(r) = 1 /\ r[1] = Service /\ Abs!Elements(r) = {Service}
  BY <1>1 DEF Abs!Elements
<1> HIDE DEF r
<1>6. IsQueue(r) /\ Abs!ReadyOK(r, pr)
  BY <1>5 DEF IsQueue, Abs!NoDuplicates, Abs!ReadyOK, Abs!SortedBy
<1>7. IsRing(Alone, Alone, r)
  BY <1>2, <1>5 DEF IsRing, Succ, Pred
<1>8. FirstsOf(pr, r, r)
  BY <1>5, <1>6 DEF FirstsOf, IsFirst
<1>9. ReadyRep(Start, pr, r, r)
  BY SMTT(60), <1>3, <1>5, <1>6, <1>7, <1>8 DEF ReadyRep
<1>10. /\ << >> \in Seq(Events) /\ Len(<< >>) = 0 /\ Abs!Elements(<< >>) = {}
       /\ \A nxt, prv : IsList(nxt, prv, NULL, << >>)
  BY DEF Abs!Elements, IsList, IsQueue, IsRing, Abs!NoDuplicates
<1>11. DelayRep(Start, << >>)
  BY <1>3, <1>10 DEF DelayRep
<1>12. NoQueues \in [Syncs -> Seq(Events)] /\ \A s \in Syncs : NoQueues[s] = << >>
  BY <1>10 DEF NoQueues
<1>13. BlockRep(Start, NoQueues)
  BY SMTT(60), <1>1, <1>3, <1>10, <1>12 DEF BlockRep
<1>14. Apart(r, << >>, NoQueues)
  BY <1>10, <1>12 DEF Apart
<1> QED
  BY SMTT(60), <1>4, <1>9, <1>11, <1>13, <1>14 DEF Rep, r

(* One insertion after the other. *)
LEMMA LinkedRep ==
  ASSUME NEW pr, Abs!PrioOK(pr), NEW n \in Nat, NEW seq \in [1..n -> Events \ {Service}],
         \A i, j \in 1..n : seq[i] = seq[j] => i = j
  PROVE  \E r, f : Rep(Linked(pr, seq), pr, r, f, << >>, NoQueues) /\ Len(r) = n + 1
<1> DEFINE Step(g, k) == IF k = 0 THEN Start ELSE EventReady(g[k - 1], pr, seq[k])
           Is(m, g) == g = [k \in 0..m |-> Step(g, k)]
<1> HIDE DEF Start, NoQueues
<1>1. \E g : Is(n, g)
  <2> DEFINE T == {m \in 0..n : \E g : Is(m, g)}
  <2>1. 0 \in T
    <3> DEFINE g == [k \in 0..0 |-> Start]
    <3>1. Is(0, g) /\ 0 \in 0..n
      OBVIOUS
    <3> HIDE DEF g
    <3>2. \E x : Is(0, x)
      BY <3>1
    <3> HIDE DEF Is
    <3> QED
      BY <3>1, <3>2
  <2>2. ASSUME NEW m \in T, m < n PROVE m + 1 \in T
    <3>1. m \in Nat /\ m + 1 \in 0..n
      BY <2>2
    <3>2. PICK g : Is(m, g)
      BY <2>2
    <3>3. \A k \in 0..m : g[k] = Step(g, k)
      BY <3>2
    <3> DEFINE h == [k \in 0..(m + 1) |-> IF k = m + 1 THEN EventReady(g[m], pr, seq[m + 1]) ELSE g[k]]
    <3>4. \A k \in 0..m : h[k] = g[k]
      BY <3>1
    <3>5. h[m + 1] = EventReady(g[m], pr, seq[m + 1])
      BY <3>1
    <3>6. ASSUME NEW k \in 0..(m + 1) PROVE h[k] = Step(h, k)
      <4> HIDE DEF h
      <4>1. CASE k = m + 1
        <5>1. k # 0 /\ k - 1 = m /\ m \in 0..m
          BY <3>1, <4>1
        <5> QED
          BY <3>4, <3>5, <4>1, <5>1
      <4>2. CASE k = 0
        BY <3>1, <3>3, <3>4, <4>2
      <4>3. CASE k # m + 1 /\ k # 0
        <5>1. k \in 0..m /\ k - 1 \in 0..m
          BY <3>1, <4>3
        <5> QED
          BY SMTT(60), <3>3, <3>4, <4>3, <5>1
      <4> QED
        BY <4>1, <4>2, <4>3
    <3>7. Is(m + 1, h)
      <4>1. h = [k \in 0..(m + 1) |-> h[k]]
        OBVIOUS
      <4> HIDE DEF h
      <4> QED
        BY <3>6, <4>1
    <3> QED
      BY <3>1, <3>7
  <2>3. T \in SUBSET (0..n) /\ \A m \in T : m < n => m + 1 \in T
    BY <2>2
  <2> HIDE DEF T
  <2>4. T = 0..n
    BY <2>1, <2>3, UpTo
  <2>5. n \in T
    BY <2>4
  <2> QED
    BY <2>5 DEF T
<1> DEFINE L == CHOOSE g : Is(n, g)
<1>2. Is(n, L)
  BY <1>1
<1>3. Len(seq) = n
  OBVIOUS
<1>4. Linked(pr, seq) = L[n]
  BY <1>3 DEF Linked, Start, Alone
<1> HIDE DEF L
<1>5. L[0] = Start /\ \A k \in 1..n : L[k] = EventReady(L[k - 1], pr, seq[k])
  <2>1. \A k \in 0..n : L[k] = Step(L, k)
    BY <1>2
  <2> QED
    BY <2>1
<1> DEFINE Good(k) ==
             \E r, f : /\ Rep(L[k], pr, r, f, << >>, NoQueues) /\ Len(r) = k + 1
                       /\ \A i \in (k + 1)..n : seq[i] \notin Abs!Elements(r)
           T == {k \in 0..n : Good(k)}
<1>6. 0 \in T
  <2> DEFINE r == <<Service>>
  <2>1. Rep(L[0], pr, r, r, << >>, NoQueues)
    BY <1>5, StartRep
  <2>2. Len(r) = 0 + 1 /\ \A i \in (0 + 1)..n : seq[i] \notin Abs!Elements(r)
    <3>1. Abs!Elements(r) = {Service}
      BY DEF Abs!Elements
    <3> QED
      BY <3>1
  <2> HIDE DEF r
  <2> QED
    BY <2>1, <2>2
<1>7. ASSUME NEW k \in T, k < n PROVE k + 1 \in T
  <2>1. k \in 0..n /\ k + 1 \in 1..n /\ k + 1 \in 0..n /\ k + 1 \in (k + 1)..n /\ k \in Nat
    BY <1>7
  <2>2. PICK r, f : /\ Rep(L[k], pr, r, f, << >>, NoQueues) /\ Len(r) = k + 1
                    /\ \A i \in (k + 1)..n : seq[i] \notin Abs!Elements(r)
    BY <1>7
  <2> DEFINE e == seq[k + 1]
             r2 == Abs!InsertSorted(r, pr, e)
  <2>3. e \in Events \ {Service} /\ e \notin Abs!Elements(r)
    BY <2>1, <2>2
  <2>4. e \notin Abs!Elements(<< >>) /\ \A s \in Syncs : e \notin Abs!Elements(NoQueues[s])
    BY DEF Abs!Elements, NoQueues
  <2>5. L[k + 1] = EventReady(L[k], pr, e)
    BY <1>5, <2>1
  <2> HIDE DEF e
  <2>6. PICK g : Rep(L[k + 1], pr, r2, g, << >>, NoQueues)
    BY SMTT(60), <2>2, <2>3, <2>4, <2>5, EventReadyRep
  <2>7. Len(r2) = Len(r) + 1 /\ Abs!Elements(r2) = Abs!Elements(r) \union {e}
    <3>1. /\ r \in Seq(Events) /\ Abs!NoDuplicates(r) /\ Abs!SortedBy(r, pr)
          /\ \A x \in Events : pr[x] \in Nat
      BY <2>2 DEF Rep, ReadyRep, Abs!ReadyOK, Abs!PrioOK
    <3> QED
      BY SMTT(60), <2>3, <3>1, AbsAssumption, Abs!Inserted DEF Abs!SchedAssumption
  <2> HIDE DEF r2
  <2>8. Len(r2) = (k + 1) + 1
    BY <2>2, <2>7
  <2>9. ASSUME NEW i \in ((k + 1) + 1)..n PROVE seq[i] \notin Abs!Elements(r2)
    <3>1. i \in (k + 1)..n /\ i \in 1..n /\ i # k + 1
      BY <2>1, <2>9
    <3>2. seq[i] # e
      BY <2>1, <3>1 DEF e
    <3> QED
      BY <2>2, <2>7, <3>1, <3>2
  <2>10. Good(k + 1)
    BY <2>6, <2>8, <2>9
  <2> QED
    BY <2>1, <2>10
<1>8. T \in SUBSET (0..n) /\ \A k \in T : k < n => k + 1 \in T
  BY SMTT(60), <1>7
<1> HIDE DEF T
<1>9. T = 0..n
  BY <1>6, <1>8, UpTo
<1>10. Good(n)
  <2>1. n \in T
    BY <1>9
  <2> QED
    BY <2>1 DEF T
<1> QED
  BY <1>4, <1>10
--------------------------------------------------------------------------------
(***************************************************************************)
(* The inductive invariant: the lists are the queues that walking along    *)
(* them yields, in both directions and with the ring, and these queues     *)
(* satisfy the invariant of EventSched.                                    *)
(***************************************************************************)
ListsRep == Rep(lists, prio, ReadyQueue, FirstsRing, AlarmQueue, BlockQueue)

ListInv == Abs!SchedInv /\ ListsRep

(* Whatever queues the new pointers represent are the new queues. *)
LEMMA Represented ==
  ASSUME NEW r, NEW d, NEW qs, \E f : Rep(lists', prio', r, f, d, qs)
  PROVE  /\ ReadyQueue' = r /\ AlarmQueue' = d /\ BlockQueue' = qs /\ ListsRep'
         /\ lists'.ready = Head(r)
<1>1. PICK f : Rep(lists', prio', r, f, d, qs)
  OBVIOUS
<1>2. ReadyQueue' = r /\ AlarmQueue' = d /\ BlockQueue' = qs /\ FirstsRing' = f
  BY <1>1, RepQueues DEF ReadyQueue, AlarmQueue, BlockQueue, FirstsRing
<1>3. lists'.ready = Head(r)
  BY <1>1 DEF Rep, ReadyRep, Abs!ReadyOK
<1> QED
  BY <1>1, <1>2, <1>3 DEF ListsRep

(* The lists and the priorities stay as they are. *)
LEMMA ListsStay ==
  ASSUME ListsRep, lists' = lists, prio' = prio
  PROVE  /\ ReadyQueue' = ReadyQueue /\ AlarmQueue' = AlarmQueue /\ BlockQueue' = BlockQueue
         /\ ListsRep' /\ lists'.ready = Head(ReadyQueue)
  BY Represented DEF ListsRep

(* What the invariant says of the running event. *)
LEMMA ListFacts ==
  ASSUME ListInv
  PROVE  /\ ListsRep /\ Abs!PrioOK(prio) /\ Abs!PrioOK(prio_base)
         /\ Abs!ReadyOK(ReadyQueue, prio) /\ Abs!DelayOK(AlarmQueue, remain, isr)
         /\ Abs!QueuesOK(BlockQueue, prio) /\ Abs!StatusOK /\ Abs!RunningOK
         /\ running \in Events /\ running \in Abs!Elements(ReadyQueue)
         /\ Apart(ReadyQueue, AlarmQueue, BlockQueue)
         /\ \A e \in Events : event_status[e] = "READY" => e \in Abs!Elements(ReadyQueue)
<1>1. /\ ListsRep /\ Abs!SchedInv
      /\ Abs!PrioOK(prio) /\ Abs!PrioOK(prio_base)
      /\ Abs!ReadyOK(ReadyQueue, prio) /\ Abs!DelayOK(AlarmQueue, remain, isr)
      /\ Abs!QueuesOK(BlockQueue, prio) /\ Abs!StatusOK /\ Abs!RunningOK
  BY DEF ListInv, Abs!SchedInv
<1>2. running \in Events /\ running \in Abs!Elements(ReadyQueue)
  BY <1>1, AbsAssumption, Abs!RunningFacts DEF Abs!SchedAssumption
<1>3. Apart(ReadyQueue, AlarmQueue, BlockQueue)
  BY <1>1 DEF ListsRep, Rep
<1>4. \A e \in Events : event_status[e] = "READY" => e \in Abs!Elements(ReadyQueue)
  BY <1>1 DEF Abs!StatusOK
<1> QED
  BY <1>1, <1>2, <1>3, <1>4

(* Cut, change the priority or leave it, insert. *)
LEMMA CutInsertRep ==
  ASSUME NEW L, NEW pr, NEW pr2, NEW r, NEW f, NEW d, NEW qs, Rep(L, pr, r, f, d, qs),
         Abs!PrioOK(pr), Abs!PrioOK(pr2), NEW e \in Abs!Elements(r), e # Service,
         \A x \in Events \ {e} : pr2[x] = pr[x]
  PROVE  \E g : Rep(EventReady(CutReadyEvent(L, pr, e), pr2, e), pr2,
                    Abs!InsertSorted(Abs!CutFrom(r, e), pr2, e), g, d, qs)
<1> DEFINE C == CutReadyEvent(L, pr, e)
           r2 == Abs!CutFrom(r, e)
<1>1. PICK g : Rep(C, pr, r2, g, d, qs)
  BY CutReadyRep
<1>2. /\ Abs!ReadyOK(r, pr) /\ Apart(r, d, qs) /\ Abs!Elements(r) \subseteq Events
  BY Places DEF Rep, ReadyRep, Abs!ReadyOK, IsQueue
<1>3. Abs!Elements(r2) = Abs!Elements(r) \ {e}
  BY <1>2, AbsAssumption, Abs!ReadyCut DEF Abs!SchedAssumption
<1> HIDE DEF C, r2
<1>4. Rep(C, pr2, r2, g, d, qs)
  BY SMTT(60), <1>1, <1>2, <1>3, RepPrio
<1>5. /\ e \in Events \ {Service} /\ e \notin Abs!Elements(r2) /\ e \notin Abs!Elements(d)
      /\ \A s \in Syncs : e \notin Abs!Elements(qs[s])
  BY <1>2, <1>3 DEF Apart
<1>6. \E h : Rep(EventReady(C, pr2, e), pr2, Abs!InsertSorted(r2, pr2, e), h, d, qs)
  BY <1>4, <1>5, EventReadyRep
<1> QED
  BY <1>6 DEF C, r2

(* Djy_EventDelay(0) is EventSched's Yield. *)
LEMMA YieldStep == ASSUME ListInv, Yield PROVE Abs!Yield /\ ListsRep'
<1>1. /\ InThread /\ Dispatch
      /\ UNCHANGED <<remain, sync_event, prio, prio_base, event_status, phase, isr>>
      /\ lists' = IF HasPeer
                  THEN EventReady(CutReadyEvent(lists, prio, running), prio, running)
                  ELSE lists
  BY DEF Yield
<1>2. /\ ListsRep /\ Abs!PrioOK(prio) /\ running \in Abs!Elements(ReadyQueue)
  BY ListFacts
<1>3. PICK p \in 1..Len(ReadyQueue) : ReadyQueue[p] = running
  BY <1>2 DEF Abs!Elements
<1>4. /\ HasPeer <=> Abs!HasPeer(ReadyQueue, prio, running)
      /\ HasPeer => running # Service
  BY <1>2, <1>3, PeerFound DEF ListsRep
<1> DEFINE r2 == IF HasPeer
                 THEN Abs!InsertSorted(Abs!CutFrom(ReadyQueue, running), prio, running)
                 ELSE ReadyQueue
<1>5. \E g : Rep(lists', prio', r2, g, AlarmQueue, BlockQueue)
  <2>1. CASE HasPeer
    BY SMTT(60), <1>1, <1>2, <1>4, <2>1, CutInsertRep DEF ListsRep
  <2>2. CASE ~HasPeer
    BY <1>1, <1>2, <2>2 DEF ListsRep
  <2> QED
    BY <2>1, <2>2
<1>6. /\ ReadyQueue' = r2 /\ AlarmQueue' = AlarmQueue /\ BlockQueue' = BlockQueue /\ ListsRep'
      /\ lists'.ready = Head(r2)
  <2> HIDE DEF r2
  <2> QED
    BY <1>5, Represented
<1>7. Abs!InThread /\ Abs!Dispatch
  BY <1>1, <1>6 DEF InThread, Dispatch, Abs!InThread, Abs!Dispatch
<1> QED
  BY SMTT(60), <1>1, <1>4, <1>6, <1>7 DEF Abs!Yield

(* The running event's alarm is set: its own key is new, the alarm queue is *)
(* still sorted.                                                            *)
LEMMA AlarmSet ==
  ASSUME ListInv, NEW t \in 1..MaxTicks, remain' = [remain EXCEPT ![running] = t]
  PROVE  /\ running \notin Abs!Elements(AlarmQueue)
         /\ \A x \in Events : remain'[x] \in Nat
         /\ Abs!SortedBy(AlarmQueue, remain')
<1>1. /\ running \in Abs!Elements(ReadyQueue) /\ running \in Events
      /\ Abs!DelayOK(AlarmQueue, remain, isr) /\ Apart(ReadyQueue, AlarmQueue, BlockQueue)
  BY ListFacts
<1>2. running \notin Abs!Elements(AlarmQueue)
  BY <1>1 DEF Apart
<1>3. /\ remain \in [Events -> 0..MaxTicks] /\ Abs!SortedBy(AlarmQueue, remain)
      /\ AlarmQueue \in Seq(Events)
  BY <1>1 DEF Abs!DelayOK
<1>4. \A x \in Events : remain'[x] \in Nat /\ (x # running => remain'[x] = remain[x])
  BY <1>1, <1>3, EcbAssumption DEF EcbAssumption
<1>5. \A x \in Abs!Elements(AlarmQueue) : remain[x] = remain'[x]
  BY <1>2, <1>3, <1>4 DEF Abs!Elements
<1>6. Abs!SortedBy(AlarmQueue, remain')
  BY <1>3, <1>5, AbsAssumption, Abs!SameKeys DEF Abs!SchedAssumption
<1> QED
  BY <1>2, <1>4, <1>6

(* Djy_EventDelay is Delay. *)
LEMMA DelayStep == ASSUME ListInv, NEW t \in 1..MaxTicks, Delay(t) PROVE Abs!Delay(t) /\ ListsRep'
<1> DEFINE C == CutReadyEvent(lists, prio, running)
           r2 == Abs!CutFrom(ReadyQueue, running)
           d2 == Abs!InsertSorted(AlarmQueue, remain', running)
<1>1. /\ InThread /\ running # Service /\ Dispatch
      /\ remain' = [remain EXCEPT ![running] = t]
      /\ lists' = AddToDelay(C, remain', running)
      /\ event_status' = [event_status EXCEPT ![running] = "DELAY"]
      /\ UNCHANGED <<sync_event, prio, prio_base, phase, isr>>
  BY DEF Delay
<1>2. /\ ListsRep /\ Abs!PrioOK(prio) /\ running \in Abs!Elements(ReadyQueue) /\ running \in Events
      /\ Abs!ReadyOK(ReadyQueue, prio) /\ Abs!DelayOK(AlarmQueue, remain, isr)
      /\ Apart(ReadyQueue, AlarmQueue, BlockQueue)
  BY ListFacts
<1>3. PICK g : Rep(C, prio, r2, g, AlarmQueue, BlockQueue)
  BY SMTT(60), <1>1, <1>2, CutReadyRep DEF ListsRep
<1>4. running \notin Abs!Elements(AlarmQueue) /\ running \notin Abs!Elements(r2)
  <2>1. Abs!Elements(r2) = Abs!Elements(ReadyQueue) \ {running}
    BY SMTT(60), <1>1, <1>2, AbsAssumption, Abs!ReadyCut DEF Abs!SchedAssumption
  <2> QED
    BY <1>2, <2>1 DEF Apart
<1>5. (\A x \in Events : remain'[x] \in Nat) /\ Abs!SortedBy(AlarmQueue, remain')
  BY <1>1, AlarmSet
<1> HIDE DEF C, r2
<1>6. Rep(AddToDelay(C, remain', running), prio, r2, g, d2, BlockQueue)
  BY <1>2, <1>3, <1>4, <1>5, AddToDelayRep
<1> HIDE DEF d2
<1>7. /\ ReadyQueue' = r2 /\ AlarmQueue' = d2 /\ BlockQueue' = BlockQueue /\ ListsRep'
      /\ lists'.ready = Head(r2)
  <2>1. Rep(lists', prio', r2, g, d2, BlockQueue)
    BY <1>1, <1>6
  <2> QED
    BY <2>1, Represented
<1>8. Abs!InThread /\ Abs!Dispatch
  BY <1>1, <1>7 DEF InThread, Dispatch, Abs!InThread, Abs!Dispatch
<1> QED
  BY <1>1, <1>7, <1>8 DEF Abs!Delay, r2, d2
--------------------------------------------------------------------------------
(* __Djy_AddRunningToBlock is Block. *)
LEMMA BlockStep ==
  ASSUME ListInv, NEW s \in Syncs, NEW t \in 0..MaxTicks, Block(s, t)
  PROVE  Abs!Block(s, t) /\ ListsRep'
<1> DEFINE B == AddToBlock(lists, prio, s, running)
           r2 == Abs!CutFrom(ReadyQueue, running)
           n == [BlockQueue EXCEPT ![s] = Entered(BlockQueue[s], prio, s, running)]
           d2 == IF t = 0 THEN AlarmQueue ELSE Abs!InsertSorted(AlarmQueue, remain', running)
<1>1. /\ InThread /\ running # Service /\ Dispatch
      /\ t = 0 => lists' = B /\ UNCHANGED remain
      /\ t # 0 => /\ remain' = [remain EXCEPT ![running] = t]
                  /\ lists' = AddToDelay(B, remain', running)
      /\ event_status' = [event_status EXCEPT
                            ![running] = IF t = 0 THEN "WAIT" ELSE "WAIT_TIMEOUT"]
      /\ UNCHANGED <<sync_event, prio, prio_base, phase, isr>>
  BY DEF Block
<1>2. /\ ListsRep /\ Abs!PrioOK(prio) /\ running \in Abs!Elements(ReadyQueue) /\ running \in Events
      /\ Abs!ReadyOK(ReadyQueue, prio) /\ Abs!QueuesOK(BlockQueue, prio)
  BY ListFacts
<1>3. s \in PrioOrder => Abs!SortedBy(BlockQueue[s], prio)
  BY <1>2 DEF Abs!QueuesOK
<1>4. PICK g : Rep(B, prio, r2, g, AlarmQueue, n)
  BY <1>1, <1>2, <1>3, AddToBlockRep DEF ListsRep
<1>5. running \notin Abs!Elements(r2)
  <2>1. Abs!Elements(r2) = Abs!Elements(ReadyQueue) \ {running}
    BY SMTT(60), <1>1, <1>2, AbsAssumption, Abs!ReadyCut DEF Abs!SchedAssumption
  <2> QED
    BY <2>1
<1>6. n = [BlockQueue EXCEPT ![s] = IF s \in PrioOrder
                                    THEN Abs!InsertSorted(@, prio, running)
                                    ELSE Append(@, running)]
  BY DEF Entered
<1> HIDE DEF B, r2, n
<1>7. Rep(lists', prio', r2, g, d2, n)
  <2>1. CASE t = 0
    BY <1>1, <1>4, <2>1
  <2>2. CASE t # 0
    <3>1. t \in 1..MaxTicks
      BY <2>2, EcbAssumption DEF EcbAssumption
    <3>2. /\ running \notin Abs!Elements(AlarmQueue)
          /\ \A x \in Events : remain'[x] \in Nat
          /\ Abs!SortedBy(AlarmQueue, remain')
      BY SMTT(60), <1>1, <2>2, <3>1, AlarmSet
    <3>3. Rep(AddToDelay(B, remain', running), prio, r2, g,
              Abs!InsertSorted(AlarmQueue, remain', running), n)
      BY SMTT(60), <1>2, <1>4, <1>5, <3>2, AddToDelayRep
    <3> QED
      BY <1>1, <2>2, <3>3
  <2> QED
    BY <2>1, <2>2
<1> HIDE DEF d2
<1>8. /\ ReadyQueue' = r2 /\ AlarmQueue' = d2 /\ BlockQueue' = n /\ ListsRep'
      /\ lists'.ready = Head(r2)
  BY <1>7, Represented
<1>9. Abs!InThread /\ Abs!Dispatch
  BY <1>1, <1>8 DEF InThread, Dispatch, Abs!InThread, Abs!Dispatch
<1>10. Abs!EnterBlockQueue(s, t)
  <2>1. Abs!Forever = 0
    BY DEF Abs!Forever
  <2>2. CASE t = 0
    BY SMTT(60), <1>1, <1>6, <1>8, <2>1, <2>2 DEF Abs!EnterBlockQueue, d2
  <2>3. CASE t # 0
    BY SMTT(60), <1>1, <1>6, <1>8, <2>1, <2>3 DEF Abs!EnterBlockQueue, d2
  <2> QED
    BY <2>2, <2>3
<1> QED
  BY <1>1, <1>8, <1>9, <1>10 DEF Abs!Block, r2

(* Lock_SempPost with a waiter is Wake. *)
LEMMA WakeStep == ASSUME ListInv, NEW s \in Syncs, Wake(s) PROVE Abs!Wake(s) /\ ListsRep'
<1> DEFINE e == lists.head[s]
           T == TakeBlockHead(lists, s)
           R == IF event_status[e] = "WAIT_TIMEOUT" THEN ResumeDelay(T, e) ELSE T
           n == [BlockQueue EXCEPT ![s] = Tail(BlockQueue[s])]
           d2 == IF event_status[e] = "WAIT_TIMEOUT" THEN Abs!CutFrom(AlarmQueue, e) ELSE AlarmQueue
           r2 == Abs!InsertSorted(ReadyQueue, prio, e)
<1>1. /\ ~isr /\ e # NULL /\ Dispatch
      /\ lists' = EventReady(R, prio, e)
      /\ remain' = [remain EXCEPT ![e] = 0]
      /\ event_status' = [event_status EXCEPT ![e] = "READY"]
      /\ UNCHANGED <<sync_event, prio, prio_base, phase, isr>>
  BY DEF Wake
<1>2. /\ ListsRep /\ Abs!PrioOK(prio) /\ Abs!StatusOK /\ Abs!DelayOK(AlarmQueue, remain, isr)
      /\ Apart(ReadyQueue, AlarmQueue, BlockQueue) /\ Abs!SchedInv
  BY ListFacts DEF ListInv
<1>3. /\ BlockQueue[s] # << >> /\ e = Head(BlockQueue[s])
      /\ Rep(T, prio, ReadyQueue, FirstsRing, AlarmQueue, n)
      /\ \A u \in Syncs : e \notin Abs!Elements(n[u])
  BY SMTT(60), <1>1, <1>2, TakeBlockHeadRep DEF ListsRep
<1>4. /\ e \in Events \ {Service} /\ event_status[e] \in Abs!Waiting
      /\ e \notin Abs!Elements(ReadyQueue)
  BY SMTT(60), <1>2, <1>3, AbsAssumption, Abs!HeadWaits DEF Abs!SchedAssumption
<1>5. e \in Abs!Elements(AlarmQueue) <=> event_status[e] = "WAIT_TIMEOUT"
  BY <1>2, <1>4 DEF Abs!StatusOK, Abs!Waiting, Abs!Timed
<1> HIDE DEF e, T, n
<1>6. Rep(R, prio, ReadyQueue, FirstsRing, d2, n) /\ e \notin Abs!Elements(d2)
  <2>1. CASE event_status[e] = "WAIT_TIMEOUT"
    <3>1. Rep(ResumeDelay(T, e), prio, ReadyQueue, FirstsRing, Abs!CutFrom(AlarmQueue, e), n)
      BY <1>3, <1>5, <2>1, ResumeDelayRep
    <3>2. e \notin Abs!Elements(Abs!CutFrom(AlarmQueue, e))
      <4>1. AlarmQueue \in Seq(Events) /\ Abs!NoDuplicates(AlarmQueue)
        BY <1>2 DEF Abs!DelayOK
      <4>2. Abs!Elements(Abs!CutFrom(AlarmQueue, e)) = Abs!Elements(AlarmQueue) \ {e}
        BY <1>5, <2>1, <4>1, AbsAssumption, Abs!Cut DEF Abs!SchedAssumption
      <4> QED
        BY <4>2
    <3> QED
      BY <2>1, <3>1, <3>2
  <2>2. CASE event_status[e] # "WAIT_TIMEOUT"
    BY <1>3, <1>5, <2>2
  <2> QED
    BY <2>1, <2>2
<1> HIDE DEF R, d2
<1>7. \E g : Rep(lists', prio', r2, g, d2, n)
  <2>1. \E g : Rep(EventReady(R, prio, e), prio, Abs!InsertSorted(ReadyQueue, prio, e), g, d2, n)
    BY SMTT(60), <1>2, <1>3, <1>4, <1>6, EventReadyRep
  <2> QED
    BY <1>1, <2>1
<1>8. /\ ReadyQueue' = r2 /\ AlarmQueue' = d2 /\ BlockQueue' = n /\ ListsRep'
      /\ lists'.ready = Head(r2)
  <2> HIDE DEF r2
  <2> QED
    BY <1>7, Represented
<1>9. Abs!Dispatch
  BY SMTT(60), <1>1, <1>8 DEF Dispatch, Abs!Dispatch
<1>10. Abs!LeaveBlockQueue(s)
  <2>1. BlockQueue' = [BlockQueue EXCEPT ![s] = Tail(@)]
    BY <1>8 DEF n
  <2> QED
    BY <1>1, <1>3, <1>8, <2>1 DEF Abs!LeaveBlockQueue, d2
<1> QED
  BY SMTT(60), <1>1, <1>3, <1>8, <1>9, <1>10 DEF Abs!Wake

(* A ready event changes its priority. *)
LEMMA ReprioritiseStep ==
  ASSUME ListInv, NEW e \in Events \ {Service}, event_status[e] = "READY", NEW p \in Prios,
         Reprioritise(e, p)
  PROVE  /\ Abs!Reprioritise(e, p) /\ AlarmQueue' = AlarmQueue /\ BlockQueue' = BlockQueue
         /\ ListsRep' /\ lists'.ready = Head(ReadyQueue')
<1> DEFINE r2 == Abs!InsertSorted(Abs!CutFrom(ReadyQueue, e), prio', e)
<1>1. /\ prio' = [prio EXCEPT ![e] = p]
      /\ lists' = EventReady(CutReadyEvent(lists, prio, e), prio', e)
  BY DEF Reprioritise
<1>2. ListsRep /\ Abs!PrioOK(prio) /\ e \in Abs!Elements(ReadyQueue)
  BY ListFacts
<1>3. Abs!PrioOK(prio') /\ \A x \in Events \ {e} : prio'[x] = prio[x]
  BY <1>1, <1>2, EcbAssumption DEF Abs!PrioOK, EcbAssumption
<1>4. \E g : Rep(lists', prio', r2, g, AlarmQueue, BlockQueue)
  BY <1>1, <1>2, <1>3, CutInsertRep DEF ListsRep
<1>5. /\ ReadyQueue' = r2 /\ AlarmQueue' = AlarmQueue /\ BlockQueue' = BlockQueue /\ ListsRep'
      /\ lists'.ready = Head(r2)
  <2> HIDE DEF r2
  <2> QED
    BY <1>4, Represented
<1> QED
  BY <1>1, <1>5 DEF Abs!Reprioritise

(* Djy_SetEventPrio is SetEventPrio. *)
LEMMA SetEventPrioStep ==
  ASSUME ListInv, NEW e \in Events, NEW p \in Prios, SetEventPrio(e, p)
  PROVE  Abs!SetEventPrio(e, p) /\ ListsRep'
<1> DEFINE Moves == p # prio[e] /\ event_status[e] = "READY"
<1>1. /\ InThread /\ e # Service /\ Dispatch
      /\ prio_base' = [prio_base EXCEPT ![e] = p]
      /\ Moves => Reprioritise(e, p)
      /\ ~Moves => UNCHANGED <<prio, lists>>
      /\ UNCHANGED <<remain, sync_event, event_status, phase, isr>>
  BY DEF SetEventPrio
<1>2. /\ Moves => Abs!Reprioritise(e, p)
      /\ ~Moves => UNCHANGED <<prio, ReadyQueue>>
      /\ AlarmQueue' = AlarmQueue /\ BlockQueue' = BlockQueue
      /\ ListsRep' /\ lists'.ready = Head(ReadyQueue')
  <2>1. CASE Moves
    BY <1>1, <2>1, ReprioritiseStep
  <2>2. CASE ~Moves
    BY SMTT(60), <1>1, <2>2, ListFacts, ListsStay
  <2> QED
    BY <2>1, <2>2
<1>3. Abs!InThread /\ Abs!Dispatch
  BY <1>1, <1>2 DEF InThread, Dispatch, Abs!InThread, Abs!Dispatch
<1> QED
  BY <1>1, <1>2, <1>3 DEF Abs!SetEventPrio

(* Djy_RaiseTempPrio is RaiseTempPrio. *)
LEMMA RaiseTempPrioStep ==
  ASSUME ListInv, NEW e \in Events, RaiseTempPrio(e)
  PROVE  Abs!RaiseTempPrio(e) /\ ListsRep'
<1> DEFINE Moves == prio[running] < prio[e] /\ event_status[e] = "READY"
<1>1. /\ InThread /\ e # Service /\ Dispatch
      /\ Moves => Reprioritise(e, prio[running])
      /\ ~Moves => UNCHANGED <<prio, lists>>
      /\ UNCHANGED <<remain, sync_event, prio_base, event_status, phase, isr>>
  BY DEF RaiseTempPrio
<1>2. ListsRep /\ Abs!PrioOK(prio) /\ running \in Events
  BY ListFacts
<1>3. Moves => prio[running] \in Prios
  <2>1. /\ prio[e] \in Prios /\ prio[Service] = ServicePrio /\ prio[e] \in Nat
        /\ ServicePrio \in Nat /\ prio[e] < ServicePrio
    BY <1>1, <1>2, EcbAssumption DEF Abs!PrioOK, EcbAssumption
  <2>2. prio[running] < prio[e] => running # Service
    BY <2>1
  <2> QED
    BY <1>2, <2>2 DEF Abs!PrioOK
<1>4. /\ Moves => Abs!Reprioritise(e, prio[running])
      /\ ~Moves => UNCHANGED <<prio, ReadyQueue>>
      /\ AlarmQueue' = AlarmQueue /\ BlockQueue' = BlockQueue
      /\ ListsRep' /\ lists'.ready = Head(ReadyQueue')
  <2>1. CASE Moves
    BY SMTT(60), <1>1, <1>3, <2>1, ReprioritiseStep
  <2>2. CASE ~Moves
    BY SMTT(60), <1>1, <1>2, <2>2, ListsStay
  <2> QED
    BY <2>1, <2>2
<1>5. Abs!InThread /\ Abs!Dispatch
  BY <1>1, <1>4 DEF InThread, Dispatch, Abs!InThread, Abs!Dispatch
<1> QED
  BY <1>1, <1>4, <1>5 DEF Abs!RaiseTempPrio

(* Djy_RestorePrio is RestorePrio. *)
LEMMA RestorePrioStep == ASSUME ListInv, RestorePrio PROVE Abs!RestorePrio /\ ListsRep'
<1> DEFINE Moves == prio[running] # prio_base[running]
<1>1. /\ InThread /\ Dispatch
      /\ Moves => Reprioritise(running, prio_base[running])
      /\ ~Moves => UNCHANGED <<prio, lists>>
      /\ UNCHANGED <<remain, sync_event, prio_base, event_status, phase, isr>>
  BY DEF RestorePrio
<1>2. ListsRep /\ Abs!PrioOK(prio) /\ Abs!PrioOK(prio_base) /\ running \in Events
  BY ListFacts
<1>3. Moves => running # Service /\ prio_base[running] \in Prios /\ event_status[running] = "READY"
  BY <1>1, <1>2 DEF Abs!PrioOK, InThread
<1>4. /\ Moves => Abs!Reprioritise(running, prio_base[running])
      /\ ~Moves => UNCHANGED <<prio, ReadyQueue>>
      /\ AlarmQueue' = AlarmQueue /\ BlockQueue' = BlockQueue
      /\ ListsRep' /\ lists'.ready = Head(ReadyQueue')
  <2>1. CASE Moves
    BY SMTT(60), <1>1, <1>2, <1>3, <2>1, ReprioritiseStep
  <2>2. CASE ~Moves
    BY SMTT(60), <1>1, <1>2, <2>2, ListsStay
  <2> QED
    BY <2>1, <2>2
<1>5. Abs!InThread /\ Abs!Dispatch
  BY <1>1, <1>4 DEF InThread, Dispatch, Abs!InThread, Abs!Dispatch
<1> QED
  BY <1>1, <1>4, <1>5 DEF Abs!RestorePrio
--------------------------------------------------------------------------------
(* The clock tick changes no list. *)
LEMMA TickBeginStep == ASSUME ListInv, TickBegin PROVE Abs!TickBegin /\ ListsRep'
<1>1. /\ ~isr /\ isr' = TRUE
      /\ remain' = [e \in Events |-> IF remain[e] > 0 THEN remain[e] - 1 ELSE 0]
      /\ phase' = IF Slice = 0 THEN 0 ELSE (phase + 1) % Slice
      /\ UNCHANGED <<lists, running, sync_event, prio, prio_base, event_status>>
  BY DEF TickBegin
<1>2. /\ ReadyQueue' = ReadyQueue /\ AlarmQueue' = AlarmQueue /\ BlockQueue' = BlockQueue /\ ListsRep'
  BY <1>1, ListFacts, ListsStay
<1> QED
  BY <1>1, <1>2 DEF Abs!TickBegin

(* The pointer test of the alarm loop looks at the head of the queue. *)
LEMMA AlarmSeen == ASSUME ListInv PROVE AlarmDue <=> Abs!AlarmDue
<1>1. Rep(lists, prio, ReadyQueue, FirstsRing, AlarmQueue, BlockQueue)
  BY ListFacts DEF ListsRep
<1>2. lists.delay # NULL => AlarmQueue # << >> /\ lists.delay = Head(AlarmQueue)
  BY <1>1, PopDelayRep
<1>3. lists.delay = NULL => AlarmQueue = << >>
  <2>1. IsList(lists.next, lists.previous, lists.delay, AlarmQueue)
    BY <1>1 DEF Rep, DelayRep
  <2> QED
    BY <2>1, ListHead
<1> QED
  BY <1>2, <1>3 DEF AlarmDue, Abs!AlarmDue

(* One iteration of the alarm loop is TickWake. *)
LEMMA TickWakeStep == ASSUME ListInv, TickWake PROVE Abs!TickWake /\ ListsRep'
<1> DEFINE e == lists.delay
           C == CutTimedOut(lists, e)
           n == [s \in Syncs |-> IF e \in Abs!Elements(BlockQueue[s])
                                 THEN Abs!CutFrom(BlockQueue[s], e) ELSE BlockQueue[s]]
           d2 == Tail(AlarmQueue)
           r2 == Abs!InsertSorted(ReadyQueue, prio, e)
<1>1. /\ isr /\ AlarmDue
      /\ lists' = EventReady(PopDelayHead(C), prio, e)
      /\ event_status' = [event_status EXCEPT ![e] = "READY"]
      /\ UNCHANGED <<running, remain, sync_event, prio, prio_base, phase, isr>>
  BY DEF TickWake
<1>2. /\ ListsRep /\ Abs!PrioOK(prio) /\ Abs!StatusOK /\ Abs!DelayOK(AlarmQueue, remain, isr)
      /\ Apart(ReadyQueue, AlarmQueue, BlockQueue) /\ Abs!AlarmDue /\ e # NULL
  BY <1>1, ListFacts, AlarmSeen DEF AlarmDue
<1>3. AlarmQueue # << >> /\ e = Head(AlarmQueue)
  BY SMTT(60), <1>2, PopDelayRep DEF ListsRep
<1>4. /\ AlarmQueue \in Seq(Events) /\ Abs!NoDuplicates(AlarmQueue)
      /\ d2 = Abs!CutFrom(AlarmQueue, e) /\ e \in Abs!Elements(AlarmQueue) /\ e \in Events
  <2>1. AlarmQueue \in Seq(Events) /\ Abs!NoDuplicates(AlarmQueue)
    BY <1>2 DEF Abs!DelayOK
  <2>2. d2 = Abs!CutFrom(AlarmQueue, e) /\ e \in Abs!Elements(AlarmQueue)
    BY SMTT(60), <1>3, <2>1, AbsAssumption, Abs!TailIsCut DEF Abs!SchedAssumption
  <2>3. e \in Events
    BY <1>3, <2>1
  <2> QED
    BY <2>1, <2>2, <2>3
<1>5. e \notin Abs!Elements(d2)
  <2>1. Abs!Elements(Abs!CutFrom(AlarmQueue, e)) = Abs!Elements(AlarmQueue) \ {e}
    BY <1>4, AbsAssumption, Abs!Cut DEF Abs!SchedAssumption
  <2> QED
    BY <1>4, <2>1
<1>6. e # Service /\ e \notin Abs!Elements(ReadyQueue)
  <2>1. event_status[Service] = "READY" /\ event_status[e] \in Abs!Timed
    BY <1>2, <1>4 DEF Abs!StatusOK
  <2>2. e # Service
    BY <2>1 DEF Abs!Timed
  <2> QED
    BY <1>2, <1>4, <2>2 DEF Apart
<1>7. /\ Rep(C, prio, ReadyQueue, FirstsRing, AlarmQueue, n) /\ C.delay = e
      /\ \A s \in Syncs : e \notin Abs!Elements(n[s])
  BY ZenonT(60), <1>2, <1>4, CutTimedOutRep DEF ListsRep
<1> HIDE DEF C, n, e
<1>8. Rep(PopDelayHead(C), prio, ReadyQueue, FirstsRing, d2, n)
  BY <1>2, <1>7, PopDelayRep
<1>9. \E g : Rep(lists', prio', r2, g, d2, n)
  <2>1. \E g : Rep(EventReady(PopDelayHead(C), prio, e), prio, r2, g, d2, n)
    BY SMTT(60), <1>2, <1>4, <1>5, <1>6, <1>7, <1>8, EventReadyRep
  <2> QED
    BY <1>1, <2>1
<1>10. ReadyQueue' = r2 /\ AlarmQueue' = d2 /\ BlockQueue' = n /\ ListsRep'
  <2> HIDE DEF r2, d2
  <2> QED
    BY <1>9, Represented
<1> QED
  BY <1>1, <1>2, <1>3, <1>10 DEF Abs!TickWake, n

(* The end of the tick is TickEnd: the running event is the first of its    *)
(* priority, so that its multi_next is linked when it is dereferenced.      *)
LEMMA TickEndStep == ASSUME ListInv, TickEnd PROVE Abs!TickEnd /\ ListsRep'
<1> DEFINE Turns == Slice # 0 /\ HasPeer /\ phase = 0
           r2 == IF Turns THEN Abs!InsertSorted(Abs!CutFrom(ReadyQueue, running), prio, running)
                 ELSE ReadyQueue
<1>1. /\ isr /\ ~AlarmDue /\ isr' = FALSE /\ Dispatch
      /\ lists' = IF Turns THEN RotateRunning(lists, running) ELSE lists
      /\ UNCHANGED <<remain, sync_event, prio, prio_base, event_status, phase>>
  BY DEF TickEnd
<1>2. ListsRep /\ Abs!PrioOK(prio) /\ Abs!RunningOK /\ Abs!ReadyOK(ReadyQueue, prio)
  BY ListFacts
<1>3. PICK p \in 1..Len(ReadyQueue) :
        /\ ReadyQueue[p] = running
        /\ \A i \in 1..(p - 1) : prio[ReadyQueue[i]] < prio[running]
  BY <1>2 DEF Abs!RunningOK
<1>4. IsFirst(prio, ReadyQueue, p)
  <2>1. CASE p = 1
    BY <2>1 DEF IsFirst
  <2>2. CASE p # 1
    <3>1. p - 1 \in 1..(p - 1) /\ p - 1 \in 1..Len(ReadyQueue) /\ p \in 1..Len(ReadyQueue)
      <4>1. ReadyQueue \in Seq(Events)
        BY <1>2 DEF Abs!ReadyOK
      <4> QED
        BY <2>2, <4>1
    <3>2. prio[ReadyQueue[p - 1]] < prio[ReadyQueue[p]]
      BY <1>3, <3>1
    <3>3. prio[ReadyQueue[p - 1]] \in Nat /\ prio[ReadyQueue[p]] \in Nat
      <4>1. ReadyQueue[p - 1] \in Events /\ ReadyQueue[p] \in Events
        BY <1>2, <3>1 DEF Abs!ReadyOK
      <4> QED
        BY <1>2, <4>1 DEF Abs!PrioOK
    <3> QED
      BY <3>2, <3>3 DEF IsFirst
  <2> QED
    BY <2>1, <2>2
<1>5. /\ HasPeer <=> Abs!HasPeer(ReadyQueue, prio, running)
      /\ HasPeer => running # Service /\ prio[ReadyQueue[p + 1]] = prio[ReadyQueue[p]]
  BY <1>2, <1>3, PeerFound DEF ListsRep
<1>6. \E g : Rep(lists', prio', r2, g, AlarmQueue, BlockQueue)
  <2>1. CASE Turns
    <3>1. ReadyQueue[p] # Service /\ prio[ReadyQueue[p + 1]] = prio[ReadyQueue[p]]
      BY <1>3, <1>5, <2>1
    <3>2. \E g : Rep(RotateRunning(lists, ReadyQueue[p]), prio,
                     Abs!InsertSorted(Abs!CutFrom(ReadyQueue, ReadyQueue[p]), prio, ReadyQueue[p]),
                     g, AlarmQueue, BlockQueue)
      BY <1>2, <1>4, <3>1, RotateRep DEF ListsRep
    <3> QED
      BY <1>1, <1>3, <2>1, <3>2
  <2>2. CASE ~Turns
    BY <1>1, <1>2, <2>2 DEF ListsRep
  <2> QED
    BY <2>1, <2>2
<1>7. /\ ReadyQueue' = r2 /\ AlarmQueue' = AlarmQueue /\ BlockQueue' = BlockQueue /\ ListsRep'
      /\ lists'.ready = Head(r2)
  <2> HIDE DEF r2
  <2> QED
    BY <1>6, Represented
<1>8. Abs!Dispatch /\ ~Abs!AlarmDue
  BY <1>1, <1>7, AlarmSeen DEF Dispatch, Abs!Dispatch
<1>9. r2 = IF Slice # 0 /\ phase = 0 /\ Abs!HasPeer(ReadyQueue, prio, running)
           THEN Abs!InsertSorted(Abs!CutFrom(ReadyQueue, running), prio, running)
           ELSE ReadyQueue
  BY <1>5
<1> HIDE DEF r2
<1> QED
  BY SMTT(60), <1>1, <1>7, <1>8, <1>9 DEF Abs!TickEnd

(* Int_AsynSignalSync is AsynSignalSync. *)
LEMMA AsynSignalSyncStep ==
  ASSUME ListInv, NEW l \in Lines, AsynSignalSync(l)
  PROVE  Abs!AsynSignalSync(l) /\ ListsRep'
<1> DEFINE C == CutReadyEvent(lists, prio, running)
           M == [C EXCEPT !.next[running] = NULL, !.previous[running] = NULL]
           r2 == Abs!CutFrom(ReadyQueue, running)
<1>1. /\ InThread /\ running # Service /\ sync_event[l] = NULL /\ Dispatch
      /\ lists' = M
      /\ sync_event' = [sync_event EXCEPT ![l] = running]
      /\ event_status' = [event_status EXCEPT ![running] = "ASYN_SIGNAL"]
      /\ UNCHANGED <<remain, prio, prio_base, phase, isr>>
  BY DEF AsynSignalSync
<1>2. /\ ListsRep /\ Abs!PrioOK(prio) /\ running \in Abs!Elements(ReadyQueue) /\ running \in Events
      /\ Abs!ReadyOK(ReadyQueue, prio) /\ Apart(ReadyQueue, AlarmQueue, BlockQueue)
  BY ListFacts
<1>3. PICK g : Rep(C, prio, r2, g, AlarmQueue, BlockQueue)
  BY <1>1, <1>2, CutReadyRep DEF ListsRep
<1>4. running \notin Abs!Elements(r2) /\ running \notin Abs!Elements(AlarmQueue)
  <2>1. Abs!Elements(r2) = Abs!Elements(ReadyQueue) \ {running}
    BY SMTT(60), <1>1, <1>2, AbsAssumption, Abs!ReadyCut DEF Abs!SchedAssumption
  <2> QED
    BY <1>2, <2>1 DEF Apart
<1> HIDE DEF C, r2
<1>5. /\ M \in ListsType /\ SameMulti(C, M) /\ SameHeads(C, M) /\ LinksKept(C, M, {running})
  <2>1. C \in ListsType
    BY <1>3 DEF Rep
  <2> QED
    BY <1>2, <2>1 DEF ListsType, Pointers, SameMulti, SameHeads, LinksKept
<1> HIDE DEF M
<1>6. Rep(lists', prio', r2, g, AlarmQueue, BlockQueue)
  <2>1. Rep(M, prio, r2, g, AlarmQueue, BlockQueue)
    BY SMTT(60), <1>2, <1>3, <1>4, <1>5, RepForget
  <2> QED
    BY <1>1, <2>1
<1>7. /\ ReadyQueue' = r2 /\ AlarmQueue' = AlarmQueue /\ BlockQueue' = BlockQueue /\ ListsRep'
      /\ lists'.ready = Head(r2)
  BY <1>6, Represented
<1>8. Abs!InThread /\ Abs!Dispatch
  BY <1>1, <1>7 DEF InThread, Dispatch, Abs!InThread, Abs!Dispatch
<1> QED
  BY <1>1, <1>7, <1>8 DEF Abs!AsynSignalSync, r2

(* __Int_EngineAsynSignal is EngineAsynSignal. *)
LEMMA EngineAsynSignalStep ==
  ASSUME ListInv, NEW l \in Lines, EngineAsynSignal(l)
  PROVE  Abs!EngineAsynSignal(l) /\ ListsRep'
<1> DEFINE e == sync_event[l]
           r2 == Abs!InsertSorted(ReadyQueue, prio, e)
<1>1. /\ ~isr /\ e # NULL /\ Dispatch
      /\ lists' = EventReady(lists, prio, e)
      /\ sync_event' = [sync_event EXCEPT ![l] = NULL]
      /\ UNCHANGED <<remain, prio, prio_base, event_status, phase, isr>>
  BY DEF EngineAsynSignal
<1>2. ListsRep /\ Abs!PrioOK(prio) /\ Abs!StatusOK
  BY ListFacts
<1>3. e \in Events /\ event_status[e] = "ASYN_SIGNAL" /\ e # Service
  BY <1>1, <1>2 DEF Abs!StatusOK
<1>4. e \notin Abs!Elements(ReadyQueue)
  BY <1>2, <1>3 DEF Abs!StatusOK
<1>5. e \notin Abs!Elements(AlarmQueue) /\ \A s \in Syncs : e \notin Abs!Elements(BlockQueue[s])
  BY <1>2, <1>3 DEF Abs!StatusOK, Abs!Timed, Abs!Waiting
<1>6. \E g : Rep(lists', prio', r2, g, AlarmQueue, BlockQueue)
  <2>1. e \in Events \ {Service}
    BY <1>3
  <2> HIDE DEF e
  <2>2. \E g : Rep(EventReady(lists, prio, e), prio, r2, g, AlarmQueue, BlockQueue)
    BY SMTT(60), <1>2, <1>4, <1>5, <2>1, EventReadyRep DEF ListsRep
  <2> QED
    BY <1>1, <2>2
<1>7. /\ ReadyQueue' = r2 /\ AlarmQueue' = AlarmQueue /\ BlockQueue' = BlockQueue /\ ListsRep'
      /\ lists'.ready = Head(r2)
  <2> HIDE DEF r2
  <2> QED
    BY <1>6, Represented
<1>8. Abs!Dispatch
  BY <1>1, <1>7 DEF Dispatch, Abs!Dispatch
<1> QED
  BY <1>1, <1>7, <1>8 DEF Abs!EngineAsynSignal

(* The return from Int_AsynSignalSync changes no list. *)
LEMMA AsynSignalReturnStep == ASSUME ListInv, AsynSignalReturn PROVE Abs!AsynSignalReturn /\ ListsRep'
<1>1. /\ ~isr /\ event_status[running] = "ASYN_SIGNAL"
      /\ event_status' = [event_status EXCEPT ![running] = "READY"]
      /\ UNCHANGED <<lists, running, remain, sync_event, prio, prio_base, phase, isr>>
  BY DEF AsynSignalReturn
<1>2. /\ ReadyQueue' = ReadyQueue /\ AlarmQueue' = AlarmQueue /\ BlockQueue' = BlockQueue /\ ListsRep'
  BY <1>1, ListFacts, ListsStay
<1> QED
  BY <1>1, <1>2 DEF Abs!AsynSignalReturn
--------------------------------------------------------------------------------
(* The lists after start-up are a start of EventSched. *)
LEMMA ListInit == Init => Abs!Init /\ ListInv
<1> SUFFICES ASSUME Init PROVE Abs!Init /\ ListInv
  OBVIOUS
<1> DEFINE n == Cardinality(Events) - 1
<1>1. /\ prio \in [Events -> Prios \union {ServicePrio}]
      /\ \A e \in Events : prio[e] = ServicePrio <=> e = Service
      /\ prio_base = prio /\ running = lists.ready
      /\ remain = [e \in Events |-> 0] /\ sync_event = [l \in Lines |-> NULL]
      /\ event_status = [e \in Events |-> "READY"] /\ phase = 0 /\ isr = FALSE
  BY DEF Init
<1>2. PICK seq \in [1..n -> Events \ {Service}] :
        /\ \A i, j \in DOMAIN seq : seq[i] = seq[j] => i = j
        /\ lists = Linked(prio, seq)
  BY DEF Init
<1>3. Abs!PrioOK(prio)
  BY <1>1, EcbAssumption DEF Abs!PrioOK, EcbAssumption
<1>4. n \in Nat /\ Cardinality(Events) = n + 1
  <2>1. Cardinality(Events) \in Nat
    BY EcbAssumption, FS_CardinalityType DEF EcbAssumption
  <2>2. Cardinality(Events) # 0
    BY EcbAssumption, FS_EmptySet DEF EcbAssumption
  <2> QED
    BY <2>1, <2>2
<1> HIDE DEF n
<1>5. PICK r, f : Rep(lists, prio, r, f, << >>, NoQueues) /\ Len(r) = n + 1
  <2>1. \A i, j \in 1..n : seq[i] = seq[j] => i = j
    BY <1>2
  <2> QED
    BY SMTT(60), <1>2, <1>3, <1>4, <2>1, LinkedRep
<1>6. ReadyQueue = r /\ AlarmQueue = << >> /\ BlockQueue = NoQueues /\ FirstsRing = f
  BY <1>5, RepQueues DEF ReadyQueue, AlarmQueue, BlockQueue, FirstsRing
<1>7. /\ r \in Seq(Events) /\ Abs!NoDuplicates(r) /\ Abs!SortedBy(r, prio) /\ Len(r) > 0
      /\ lists.ready = r[1]
  BY <1>5 DEF Rep, ReadyRep, Abs!ReadyOK
<1>8. Abs!Init
  <2>1. ReadyQueue \in [1..Abs!Cardinality(Events) -> Events]
    <3>1. Len(r) = Abs!Cardinality(Events)
      BY <1>4, <1>5, SameCardinality
    <3>2. r \in [1..Len(r) -> Events]
      BY <1>7
    <3> QED
      BY <1>6, <3>1, <3>2
  <2>2. running = Head(ReadyQueue)
    BY <1>1, <1>6, <1>7
  <2>3. BlockQueue = [s \in Syncs |-> << >>]
    BY <1>6 DEF NoQueues
  <2> QED
    BY SMTT(60), <1>1, <1>6, <1>7, <2>1, <2>2, <2>3 DEF Abs!Init
<1>9. Abs!SchedInv
  BY <1>8, AbsAssumption, Abs!SchedInit DEF Abs!SchedAssumption
<1> QED
  BY <1>5, <1>6, <1>8, <1>9 DEF ListInv, ListsRep

(* Every step of the list code is a step of EventSched, and the lists       *)
(* represent its queues again.                                              *)
LEMMA ListStep == ListInv /\ [Next]_vars => [Abs!Next]_(Abs!schedVars) /\ ListInv'
<1> SUFFICES ASSUME ListInv, [Next]_vars PROVE [Abs!Next]_(Abs!schedVars) /\ ListInv'
  OBVIOUS
<1>1. CASE Next
  <2>1. ASSUME Yield PROVE Abs!Next /\ ListsRep'
    BY <2>1, YieldStep DEF Abs!Next
  <2>2. ASSUME NEW t \in 1..MaxTicks, Delay(t) PROVE Abs!Next /\ ListsRep'
    BY <2>2, DelayStep DEF Abs!Next
  <2>3. ASSUME NEW s \in Syncs, NEW t \in 0..MaxTicks, Block(s, t) PROVE Abs!Next /\ ListsRep'
    <3>1. t \in {Abs!Forever} \union 1..MaxTicks
      BY EcbAssumption DEF Abs!Forever, EcbAssumption
    <3>2. Abs!Block(s, t) /\ ListsRep'
      BY <2>3, BlockStep
    <3> QED
      BY <3>1, <3>2 DEF Abs!Next
  <2>4. ASSUME NEW s \in Syncs, Wake(s) PROVE Abs!Next /\ ListsRep'
    BY <2>4, WakeStep DEF Abs!Next
  <2>5. ASSUME NEW e \in Events, NEW p \in Prios, SetEventPrio(e, p) PROVE Abs!Next /\ ListsRep'
    BY <2>5, SetEventPrioStep DEF Abs!Next
  <2>6. ASSUME NEW e \in Events, RaiseTempPrio(e) PROVE Abs!Next /\ ListsRep'
    BY <2>6, RaiseTempPrioStep DEF Abs!Next
  <2>7. ASSUME RestorePrio PROVE Abs!Next /\ ListsRep'
    BY <2>7, RestorePrioStep DEF Abs!Next
  <2>8. ASSUME TickBegin PROVE Abs!Next /\ ListsRep'
    BY <2>8, TickBeginStep DEF Abs!Next
  <2>9. ASSUME TickWake PROVE Abs!Next /\ ListsRep'
    BY <2>9, TickWakeStep DEF Abs!Next
  <2>10. ASSUME TickEnd PROVE Abs!Next /\ ListsRep'
    BY <2>10, TickEndStep DEF Abs!Next
  <2>11. ASSUME NEW l \in Lines, AsynSignalSync(l) PROVE Abs!Next /\ ListsRep'
    BY <2>11, AsynSignalSyncStep DEF Abs!Next
  <2>12. ASSUME NEW l \in Lines, EngineAsynSignal(l) PROVE Abs!Next /\ ListsRep'
    BY <2>12, EngineAsynSignalStep DEF Abs!Next
  <2>13. ASSUME AsynSignalReturn PROVE Abs!Next /\ ListsRep'
    BY <2>13, AsynSignalReturnStep DEF Abs!Next
  <2>14. Abs!Next /\ ListsRep'
    BY SMTT(60), <1>1, <2>1, <2>2, <2>3, <2>4, <2>5, <2>6, <2>7, <2>8, <2>9, <2>10, <2>11, <2>12, <2>13
       DEF Next
  <2>15. Abs!SchedInv
    BY DEF ListInv
  <2>16. Abs!SchedInv'
    BY <2>14, <2>15, AbsAssumption, Abs!SchedStep DEF Abs!SchedAssumption
  <2> QED
    BY <2>14, <2>16 DEF ListInv
<1>2. CASE UNCHANGED vars
  <2>1. /\ lists' = lists /\ prio' = prio
        /\ UNCHANGED <<running, remain, sync_event, prio_base, event_status, phase, isr>>
    BY <1>2 DEF vars
  <2>2. ListsRep /\ Abs!SchedInv
    BY DEF ListInv
  <2>3. /\ ReadyQueue' = ReadyQueue /\ AlarmQueue' = AlarmQueue /\ BlockQueue' = BlockQueue /\ ListsRep'
    BY <2>1, <2>2, ListsStay
  <2>4. UNCHANGED Abs!schedVars
    BY <2>1, <2>3 DEF Abs!schedVars
  <2>5. Abs!SchedInv'
    BY <2>2, <2>4, AbsAssumption, Abs!SchedStep DEF Abs!SchedAssumption
  <2> QED
    BY <2>3, <2>4, <2>5 DEF ListInv
<1> QED
  BY <1>1, <1>2
--------------------------------------------------------------------------------
(***************************************************************************)
(* At every moment between two critical sections the pointers are the      *)
(* ready queue, the alarm queue, the block queues and the ring of first    *)
(* events, and these satisfy the invariant of the scheduler.               *)
(***************************************************************************)
THEOREM ListInvariance == Spec => []ListInv
<1>1. Init => ListInv
  BY ListInit
<1>2. ListInv /\ [Next]_vars => ListInv'
  BY ListStep
<1> QED
  BY <1>1, <1>2, PTL DEF Spec

(* The pointers and the variables keep their types. *)
LEMMA ListInvTyped == ListInv => TypeOK
<1> SUFFICES ASSUME ListInv PROVE TypeOK
  OBVIOUS
<1>1. /\ ListsRep /\ Abs!PrioOK(prio) /\ Abs!PrioOK(prio_base) /\ running \in Events
      /\ Abs!DelayOK(AlarmQueue, remain, isr) /\ Abs!StatusOK
  BY ListFacts
<1>2. \A pr : Abs!PrioOK(pr) => pr \in [Events -> Prios \union {ServicePrio}]
  BY DEF Abs!PrioOK
<1>3. lists \in ListsType /\ remain \in [Events -> 0..MaxTicks] /\ sync_event \in [Lines -> Pointers]
  BY <1>1 DEF ListsRep, Rep, Abs!DelayOK, Abs!StatusOK, Pointers
<1> QED
  BY <1>1, <1>2, <1>3 DEF TypeOK

(***************************************************************************)
(* Type correctness of the list code: g_ptEventReady never becomes NULL,   *)
(* and no pointer that the operations assign through is NULL.              *)
(***************************************************************************)
THEOREM EcbTypeCorrect == Spec => []TypeOK
  BY ListInvariance, ListInvTyped, PTL

(* A list that represents a queue is intact in both directions. *)
LEMMA RingIntact ==
  ASSUME NEW nxt, NEW prv, NEW q, IsQueue(q), IsRing(nxt, prv, q)
  PROVE  DoublyLinked(nxt, prv, q) /\ InList(q) = Abs!Elements(q)
<1>1. InList(q) = Abs!Elements(q)
  BY DEF InList, Abs!Elements, IsQueue
<1>2. ASSUME NEW e \in InList(q) PROVE nxt[e] \in InList(q) /\ prv[nxt[e]] = e
  <2>1. PICK i \in 1..Len(q) : q[i] = e
    BY <1>1, <1>2 DEF Abs!Elements
  <2>2. /\ Succ(q, i) \in 1..Len(q) /\ Pred(q, Succ(q, i)) = i
        /\ q[Succ(q, i)] \in Abs!Elements(q)
    BY SMTT(60), Places
  <2>3. nxt[e] = q[Succ(q, i)] /\ prv[q[Succ(q, i)]] = q[i]
    BY <2>1, <2>2 DEF IsRing
  <2> QED
    BY <1>1, <2>1, <2>2, <2>3
<1> QED
  BY <1>1, <1>2 DEF DoublyLinked

(* The lists are intact. *)
LEMMA ListInvIntact == ListInv => ListsIntact
<1> SUFFICES ASSUME ListInv PROVE ListsIntact
  OBVIOUS
<1>1. Rep(lists, prio, ReadyQueue, FirstsRing, AlarmQueue, BlockQueue)
  BY DEF ListInv, ListsRep
<1>2. DoublyLinked(lists.next, lists.previous, ReadyQueue)
  BY <1>1, RingIntact DEF Rep, ReadyRep, Abs!ReadyOK, IsQueue
<1>3. DoublyLinked(lists.next, lists.previous, AlarmQueue)
  BY <1>1, RingIntact DEF Rep, DelayRep, IsList
<1>4. ASSUME NEW s \in Syncs
      PROVE  /\ DoublyLinked(lists.multi_next, lists.multi_previous, BlockQueue[s])
             /\ InList(BlockQueue[s]) = {e \in Events : lists.sync_head[e] = s}
  <2>1. /\ IsList(lists.multi_next, lists.multi_previous, lists.head[s], BlockQueue[s])
        /\ \A e \in Events : lists.sync_head[e] = s <=> e \in Abs!Elements(BlockQueue[s])
    BY <1>1 DEF Rep, BlockRep
  <2>2. /\ DoublyLinked(lists.multi_next, lists.multi_previous, BlockQueue[s])
        /\ InList(BlockQueue[s]) = Abs!Elements(BlockQueue[s])
    BY SMTT(60), <2>1, RingIntact DEF IsList
  <2>3. Abs!Elements(BlockQueue[s]) \subseteq Events
    BY SMTT(60), <2>1, Places DEF IsList
  <2> QED
    BY <2>1, <2>2, <2>3
<1> QED
  BY <1>2, <1>3, <1>4 DEF ListsIntact

(***************************************************************************)
(* All circular lists stay intact in both directions, although two lists   *)
(* share a pair of pointers and stale values stay behind.                  *)
(***************************************************************************)
THEOREM ListsStayIntact == Spec => []ListsIntact
  BY ListInvariance, ListInvIntact, PTL

(* The ring of first events. *)
LEMMA ListInvMonotone == ListInv => MonotoneRing
<1> SUFFICES ASSUME ListInv PROVE MonotoneRing
  OBVIOUS
<1> DEFINE r == ReadyQueue
           ring == FirstsRing
<1>1. /\ lists \in ListsType /\ ReadyRep(lists, prio, r, ring) /\ Abs!PrioOK(prio)
      /\ Abs!ReadyOK(r, prio) /\ FirstsOf(prio, r, ring)
      /\ IsRing(lists.multi_next, lists.multi_previous, ring) /\ IsQueue(r) /\ IsQueue(ring)
  BY ListFacts DEF ListsRep, Rep, ReadyRep, FirstsOf, Abs!ReadyOK, IsQueue
<1>2. DOMAIN r = 1..Len(r) /\ DOMAIN ring = 1..Len(ring)
  BY <1>1 DEF IsQueue
<1>3. /\ DoublyLinked(lists.multi_next, lists.multi_previous, ring)
      /\ InList(ring) = Abs!Elements(ring)
  BY SMTT(60), <1>1, RingIntact
<1>4. InList(r) = Abs!Elements(r)
  BY <1>2 DEF InList, Abs!Elements
<1>5. /\ InList(ring) \subseteq InList(r)
      /\ \A i, j \in DOMAIN ring : i < j => prio[ring[i]] < prio[ring[j]]
  BY <1>1, <1>2, <1>3, <1>4 DEF FirstsOf
<1>6. ASSUME NEW i \in DOMAIN r
      PROVE  LET first == i = 1 \/ prio[r[i - 1]] # prio[r[i]]
             IN  /\ r[i] \in InList(ring) <=> first
                 /\ lists.multi_next[r[i]] # NULL <=> first
  <2>1. r[i] \in Abs!Elements(ring) <=> IsFirst(prio, r, i)
    BY SMTT(60), <1>1, <1>2, <1>6 DEF FirstsOf
  <2>2. lists.multi_next[r[i]] # NULL <=> r[i] \in Abs!Elements(ring)
    <3>1. r[i] \in Abs!Elements(r)
      BY <1>1, <1>2, <1>6, Places
    <3>2. ASSUME r[i] \in Abs!Elements(ring) PROVE lists.multi_next[r[i]] # NULL
      <4>1. PICK j \in 1..Len(ring) : ring[j] = r[i]
        BY <3>2 DEF Abs!Elements
      <4>2. lists.multi_next[ring[j]] \in Events
        BY SMTT(60), <1>1, RingPlace
      <4> QED
        BY <4>1, <4>2, EcbAssumption DEF EcbAssumption
    <3> QED
      BY <1>1, <3>1, <3>2 DEF ReadyRep
  <2> QED
    BY <1>3, <2>1, <2>2 DEF IsFirst
<1> QED
  BY SMTT(60), <1>3, <1>5, <1>6 DEF MonotoneRing

(***************************************************************************)
(* The ring through multi_next always holds exactly the first event of     *)
(* each ready priority, in priority order.                                 *)
(***************************************************************************)
THEOREM RingIsMonotone == Spec => []MonotoneRing
  BY ListInvariance, ListInvMonotone, PTL
--------------------------------------------------------------------------------
(* The queue operators of the refinement mapping are those of the proofs. *)
LEMMA SameOperators ==
  /\ \A q, key, e : Sched!InsertSorted(q, key, e) = Abs!InsertSorted(q, key, e)
  /\ \A q, e : Sched!CutFrom(q, e) = Abs!CutFrom(q, e)
  /\ \A q, pr, e : Sched!HasPeer(q, pr, e) <=> Abs!HasPeer(q, pr, e)
  /\ \A q : Sched!Elements(q) = Abs!Elements(q)
  /\ \A q : Sched!NoDuplicates(q) <=> Abs!NoDuplicates(q)
  /\ \A q, key : Sched!SortedBy(q, key) <=> Abs!SortedBy(q, key)
  BY DEF Sched!InsertSorted, Abs!InsertSorted, Sched!InsertPos, Abs!InsertPos,
         Sched!InsertAtPos, Abs!InsertAtPos, Sched!CutFrom, Abs!CutFrom, Sched!HasPeer, Abs!HasPeer,
         Sched!PosOf, Abs!PosOf, Sched!Elements, Abs!Elements, Sched!NoDuplicates, Abs!NoDuplicates,
         Sched!SortedBy, Abs!SortedBy

(* So are its initial states. *)
LEMMA SameInit == Abs!Init => Sched!Init
<1>1. Sched!Cardinality(Events) = Abs!Cardinality(Events)
  BY DEF Sched!Cardinality, Abs!Cardinality
<1> QED
  BY <1>1, SameOperators DEF Abs!Init, Sched!Init

(* So are its steps. *)
LEMMA SameNext == Abs!Next => Sched!Next
<1> USE DEF Abs!Dispatch, Sched!Dispatch, Abs!InThread, Sched!InThread, Abs!AlarmDue, Sched!AlarmDue,
            Abs!Reprioritise, Sched!Reprioritise
<1>1. Abs!Yield => Sched!Yield
  BY SameOperators DEF Abs!Yield, Sched!Yield
<1>2. ASSUME NEW t PROVE Abs!Delay(t) => Sched!Delay(t)
  BY SameOperators DEF Abs!Delay, Sched!Delay
<1>3. ASSUME NEW s, NEW t PROVE Abs!Block(s, t) => Sched!Block(s, t)
  BY SameOperators DEF Abs!Block, Sched!Block, Abs!EnterBlockQueue, Sched!EnterBlockQueue,
                       Abs!Forever, Sched!Forever
<1>4. ASSUME NEW s PROVE Abs!Wake(s) => Sched!Wake(s)
  BY SameOperators DEF Abs!Wake, Sched!Wake, Abs!LeaveBlockQueue, Sched!LeaveBlockQueue
<1>5. ASSUME NEW e, NEW p PROVE Abs!SetEventPrio(e, p) => Sched!SetEventPrio(e, p)
  BY SameOperators DEF Abs!SetEventPrio, Sched!SetEventPrio
<1>6. ASSUME NEW e PROVE Abs!RaiseTempPrio(e) => Sched!RaiseTempPrio(e)
  BY SameOperators DEF Abs!RaiseTempPrio, Sched!RaiseTempPrio
<1>7. Abs!RestorePrio => Sched!RestorePrio
  BY SameOperators DEF Abs!RestorePrio, Sched!RestorePrio
<1>8. Abs!TickBegin => Sched!TickBegin
  BY DEF Abs!TickBegin, Sched!TickBegin
<1>9. Abs!TickWake => Sched!TickWake
  BY SameOperators DEF Abs!TickWake, Sched!TickWake
<1>10. Abs!TickEnd => Sched!TickEnd
  BY SameOperators DEF Abs!TickEnd, Sched!TickEnd
<1>11. ASSUME NEW l PROVE Abs!AsynSignalSync(l) => Sched!AsynSignalSync(l)
  BY SameOperators DEF Abs!AsynSignalSync, Sched!AsynSignalSync
<1>12. ASSUME NEW l PROVE Abs!EngineAsynSignal(l) => Sched!EngineAsynSignal(l)
  BY SameOperators DEF Abs!EngineAsynSignal, Sched!EngineAsynSignal
<1>13. Abs!AsynSignalReturn => Sched!AsynSignalReturn
  BY DEF Abs!AsynSignalReturn, Sched!AsynSignalReturn
<1>14. Abs!Forever = Sched!Forever
  BY DEF Abs!Forever, Sched!Forever
<1> QED
  BY SMTT(60), <1>1, <1>2, <1>3, <1>4, <1>5, <1>6, <1>7, <1>8, <1>9, <1>10, <1>11, <1>12, <1>13, <1>14
     DEF Abs!Next, Sched!Next

(***************************************************************************)
(* The linked lists implement the queues: with the queues that walking     *)
(* along the pointers yields, the list code starts as EventSched does and  *)
(* every critical section is one of its steps, or leaves the queues alone. *)
(***************************************************************************)
THEOREM ListsImplementQueues == Spec => ImplementsSched
<1>1. Init => Sched!Init
  BY ListInit, SameInit
<1>2. ListInv /\ [Next]_vars => [Sched!Next]_(Sched!schedVars)
  <2> SUFFICES ASSUME ListInv, [Next]_vars PROVE [Sched!Next]_(Sched!schedVars)
    OBVIOUS
  <2>1. [Abs!Next]_(Abs!schedVars)
    BY ListStep
  <2>2. Abs!schedVars' = Abs!schedVars => Sched!schedVars' = Sched!schedVars
    BY DEF Abs!schedVars, Sched!schedVars
  <2> QED
    BY <2>1, <2>2, SameNext
<1> QED
  BY <1>1, <1>2, ListInvariance, PTL DEF Spec, ImplementsSched, Sched!Spec
================================================================================
