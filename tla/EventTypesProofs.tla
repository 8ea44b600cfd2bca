---------------------------- MODULE EventTypesProofs ---------------------------
(***************************************************************************)
(* The counters and the queues of event types are right for any number of  *)
(* types and events, any kinds of types and any amount of memory.          *)
(*                                                                         *)
(* TypesInv is the inductive invariant.  It is stated of a state as a      *)
(* record, as the pieces of the kernel's functions are, with a type h that *)
(* holds a thread: while Djy_EventComplete has released the control block  *)
(* and not yet disposed of its thread, the counters are right but for it.  *)
(***************************************************************************)
EXTENDS EventTypes, FiniteSetTheorems, SequenceTheorems, TLAPS

Places == {"free", "ready", "event", "done", "pop", "mem", "none"}
KindType == [correlative : BOOLEAN, urgent : BOOLEAN, vpus_res : Nat, vpus_limit : Nat]
EvttType == [registered : BOOLEAN, deleting : BOOLEAN, inuse : BOOLEAN, kind : KindType,
             events : Nat, vpus : Nat, free_vm : Nat,
             mark : Seq(Ecbs), pop_sync : Seq(Ecbs), done_sync : Seq(Ecbs)]
EcbType == [place : Places, type : Evtts \union {NoEvtt}, vm : BOOLEAN, counter : Int,
            sync : Seq(Ecbs)]
StateType == [evtt : [Evtts -> EvttType], ecb : [Ecbs -> EcbType], memq : Seq(Ecbs),
              mem : Int, dead : BOOLEAN]

NoDuplicates(q) == \A i, j \in 1..Len(q) : q[i] = q[j] => i = j

(* The events of type t, those that have a thread, and those that lack one. *)
Of(s, t) == {e \in Ecbs : s.ecb[e].place # "free" /\ s.ecb[e].type = t}
Busy(s, t) == {e \in Of(s, t) : s.ecb[e].vm}
Lacks(s, e) == s.ecb[e].place \in {"mem", "none"}
Lacking(s, t) == {e \in Of(s, t) : Lacks(s, e)}

(* A control block is in the free list and blank, or belongs to a type; an  *)
(* event that lacks a thread has none.                                      *)
Live(s) ==
  \A e \in Ecbs : /\ IF s.ecb[e].place = "free"
                     THEN s.ecb[e].type = NoEvtt /\ ~s.ecb[e].vm /\ s.ecb[e].sync = << >>
                     ELSE s.ecb[e].type \in Evtts
                  /\ Lacks(s, e) => ~s.ecb[e].vm

(* The counters, when type h has a thread that neither is idle nor serves an *)
(* event: that of an event that has just been completed.                    *)
Counted(s, h) ==
  \A t \in Evtts : /\ s.evtt[t].events = Cardinality(Of(s, t))
                   /\ s.evtt[t].vpus = s.evtt[t].free_vm + Cardinality(Busy(s, t))
                                       + (IF t = h THEN 1 ELSE 0)

(* No idle thread beside an event that lacks one. *)
NoIdle(s) == \A t \in Evtts : Lacking(s, t) # {} => s.evtt[t].free_vm = 0

(* A type that is not in use has no event; a correlative one that is has one. *)
Uses(s) ==
  \A t \in Evtts : /\ ~s.evtt[t].registered => ~s.evtt[t].inuse
                   /\ ~s.evtt[t].inuse => Of(s, t) = {}
                   /\ s.evtt[t].inuse /\ s.evtt[t].kind.correlative => Of(s, t) = {s.evtt[t].mark[1]}

(* The mark queue of an independent type holds its events without a thread. *)
Marks(s) ==
  \A t \in Evtts : ~s.evtt[t].kind.correlative =>
    ToSet(s.evtt[t].mark) = Lacking(s, t) /\ NoDuplicates(s.evtt[t].mark)

Core(s, h) ==
  s \in StateType /\ Live(s) /\ Counted(s, h) /\ NoIdle(s) /\ Uses(s) /\ Marks(s)

(***************************************************************************)
(* The queues F[x], for x in D, are disjoint and hold the events at place p.*)
(***************************************************************************)
Hold(F, D, pl, p) ==
  /\ \A w \in Ecbs : (\E x \in D : w \in F[x]) <=> pl[w] = p
  /\ \A w \in Ecbs : \A x, y \in D : w \in F[x] /\ w \in F[y] => x = y

PlaceOf(s) == [e \in Ecbs |-> s.ecb[e].place]
SyncOf(s) == [e \in Ecbs |-> ToSet(s.ecb[e].sync)]
DoneOf(s) == [t \in Evtts |-> ToSet(s.evtt[t].done_sync)]
PopOf(s) == [t \in Evtts |-> ToSet(s.evtt[t].pop_sync)]

MemQueue(s) == /\ NoDuplicates(s.memq)
               /\ \A w \in Ecbs : w \in ToSet(s.memq) <=> s.ecb[w].place = "mem"

(* Nobody waits for a type that is gone or going. *)
NobodyLeft(s) ==
  \A t \in Evtts : ~s.evtt[t].registered \/ s.evtt[t].deleting =>
    s.evtt[t].pop_sync = << >> /\ s.evtt[t].done_sync = << >>

Waits(s) == /\ Hold(SyncOf(s), Ecbs, PlaceOf(s), "event")
            /\ Hold(DoneOf(s), Evtts, PlaceOf(s), "done")
            /\ Hold(PopOf(s), Evtts, PlaceOf(s), "pop")
            /\ MemQueue(s) /\ NobodyLeft(s)

TypesInv == Core(Now, NoEvtt) /\ Waits(Now)
--------------------------------------------------------------------------------
(***************************************************************************)
(* Queues.                                                                 *)
(***************************************************************************)
(* The elements of a sequence. *)
LEMMA Elements ==
  ASSUME NEW S, NEW q \in Seq(S)
  PROVE  /\ Len(q) \in Nat /\ ToSet(q) = {q[i] : i \in 1..Len(q)}
         /\ ToSet(q) \subseteq S
         /\ q = << >> <=> ToSet(q) = {}
         /\ q # << >> => q[1] \in ToSet(q)
<1>1. Len(q) \in Nat /\ DOMAIN q = 1..Len(q) /\ \A i \in 1..Len(q) : q[i] \in S
  OBVIOUS
<1>2. q = << >> <=> Len(q) = 0
  OBVIOUS
<1>3. ToSet(q) = {q[i] : i \in 1..Len(q)}
  BY <1>1 DEF ToSet
<1>4. CASE Len(q) = 0
  BY <1>1, <1>2, <1>3, <1>4
<1>5. CASE Len(q) # 0
  <2>1. 1 \in 1..Len(q)
    BY <1>1, <1>5
  <2>2. q[1] \in ToSet(q)
    BY <1>3, <2>1
  <2>3. ToSet(q) \subseteq S
    BY <1>1, <1>3
  <2> QED
    BY <1>1, <1>2, <1>3, <1>5, <2>2, <2>3
<1> QED
  BY <1>4, <1>5

(* The rank of a number in a finite set of numbers counts through the set. *)
LEMMA Ranks ==
  ASSUME NEW n \in Nat, NEW S \in SUBSET (1..n)
  PROVE  LET Rank(i) == Cardinality({j \in S : j <= i})
         IN  /\ Cardinality(S) \in Nat
             /\ \A i \in S : Rank(i) \in 1..Cardinality(S)
             /\ \A i, j \in S : Rank(i) = Rank(j) => i = j
             /\ \A k \in 1..Cardinality(S) : \E i \in S : Rank(i) = k
<1> DEFINE Up(i) == {j \in S : j <= i}
           Rank(i) == Cardinality(Up(i))
           c == Cardinality(S)
<1>1. IsFiniteSet(S) /\ c \in Nat
  <2>1. IsFiniteSet(1..n)
    BY FS_Interval
  <2>2. IsFiniteSet(S)
    BY <2>1, FS_Subset
  <2> QED
    BY <2>2, FS_CardinalityType
<1>2. ASSUME NEW i \in S PROVE IsFiniteSet(Up(i)) /\ Rank(i) \in 1..c
  <2>1. Up(i) \in SUBSET S /\ i \in Up(i)
    OBVIOUS
  <2>2. IsFiniteSet(Up(i)) /\ Rank(i) <= c /\ Rank(i) \in Nat
    BY <1>1, <2>1, FS_Subset, FS_CardinalityType
  <2>3. Rank(i) # 0
    BY <2>1, <2>2, FS_EmptySet
  <2> HIDE DEF Rank, c
  <2> QED
    BY <1>1, <2>2, <2>3
<1>3. ASSUME NEW i \in S, NEW j \in S, i < j PROVE Rank(i) # Rank(j)
  <2>0. i \in Int /\ j \in Int /\ \A k \in S : k \in Int
    OBVIOUS
  <2>1. Up(i) \in SUBSET Up(j) /\ j \in Up(j) /\ j \notin Up(i)
    <3>1. \A k \in Int : k <= i => k <= j
      BY <1>3, <2>0
    <3>2. ~(j <= i) /\ j <= j
      BY <1>3, <2>0
    <3> QED
      BY <2>0, <3>1, <3>2
  <2>2. IsFiniteSet(Up(j))
    BY <1>2
  <2> QED
    BY <2>1, <2>2, FS_Subset
<1>4. \A i, j \in S : Rank(i) = Rank(j) => i = j
  BY <1>3
<1> DEFINE f == [i \in S |-> Rank(i)]
<1>5. f \in Injection(S, 1..c)
  <2>1. f \in [S -> 1..c]
    BY <1>2
  <2>2. \A i, j \in S : f[i] = f[j] => i = j
    BY <1>4
  <2> HIDE DEF f
  <2> QED
    BY <2>1, <2>2 DEF Injection, IsInjective
<1>6. IsFiniteSet(1..c) /\ Cardinality(1..c) = c
  BY <1>1, FS_Interval
<1>7. f \in Surjection(S, 1..c)
  BY <1>5, <1>6, FS_Injection
<1>8. \A k \in 1..c : \E i \in S : f[i] = k
  <2> HIDE DEF f
  <2> QED
    BY <1>7 DEF Surjection
<1>9. \A k \in 1..c : \E i \in S : Rank(i) = k
  BY <1>8
<1> QED
  BY <1>1, <1>2, <1>4, <1>9

(* Taking events out of a queue. *)
LEMMA WithoutFacts ==
  ASSUME NEW q \in Seq(Ecbs), NEW X
  PROVE  /\ Without(q, X) \in Seq(Ecbs)
         /\ ToSet(Without(q, X)) = ToSet(q) \ X
         /\ NoDuplicates(q) => NoDuplicates(Without(q, X))
<1> DEFINE Stay == {i \in 1..Len(q) : q[i] \notin X}
           Rank(i) == Cardinality({j \in Stay : j <= i})
           c == Cardinality(Stay)
           at == [k \in 1..c |-> CHOOSE i \in Stay : Rank(i) = k]
           r == Without(q, X)
<1>1. Len(q) \in Nat /\ ToSet(q) = {q[i] : i \in 1..Len(q)} /\ \A i \in 1..Len(q) : q[i] \in Ecbs
  BY Elements
<1>2. Stay \in SUBSET (1..Len(q))
  OBVIOUS
<1>3. /\ c \in Nat /\ \A i \in Stay : Rank(i) \in 1..c
      /\ \A i, j \in Stay : Rank(i) = Rank(j) => i = j
      /\ \A k \in 1..c : \E i \in Stay : Rank(i) = k
  <2> HIDE DEF Stay
  <2> QED
    BY ZenonT(60), <1>1, <1>2, Ranks
<1>4. r = [k \in 1..c |-> q[CHOOSE i \in Stay : Rank(i) = k]]
  BY DEF Without
<1> HIDE DEF r
<1>5. \A k \in 1..c : at[k] \in Stay /\ Rank(at[k]) = k
  <2> HIDE DEF Stay, Rank, c
  <2> QED
    BY <1>3
<1>6. r = [k \in 1..c |-> q[at[k]]]
  <2> HIDE DEF Stay, Rank, c
  <2> QED
    BY <1>4
<1>7. \A i \in Stay : \E k \in 1..c : at[k] = i
  <2> HIDE DEF Stay, Rank, c, at
  <2> QED
    BY <1>3, <1>5
<1> HIDE DEF Rank, c, at
<1>8. r \in Seq(Ecbs) /\ Len(r) = c
  BY SMTT(60), <1>1, <1>3, <1>5, <1>6
<1>9. ToSet(r) = {q[at[k]] : k \in 1..c}
  <2>1. ToSet(r) = {r[k] : k \in 1..c}
    BY <1>8, Elements
  <2> QED
    BY <1>6, <2>1
<1>10. ToSet(r) = ToSet(q) \ X
  BY <1>1, <1>5, <1>7, <1>9
<1>11. NoDuplicates(q) => NoDuplicates(r)
  BY SMTT(60), <1>3, <1>5, <1>6, <1>8 DEF NoDuplicates
<1> QED
  BY <1>8, <1>10, <1>11 DEF r
--------------------------------------------------------------------------------
(***************************************************************************)
(* Steps that move events between the ready queue and the queues in which  *)
(* they wait for events and types: the counters and the threads stay.      *)
(***************************************************************************)
(* The fields of a state. *)
LEMMA StateFields ==
  ASSUME NEW s \in StateType
  PROVE  /\ s.evtt \in [Evtts -> EvttType] /\ s.ecb \in [Ecbs -> EcbType]
         /\ s.memq \in Seq(Ecbs) /\ s.mem \in Int /\ s.dead \in BOOLEAN
  BY DEF StateType

(* The fields of an event type. *)
LEMMA TypeFields ==
  ASSUME NEW s \in StateType, NEW t \in Evtts
  PROVE  /\ s.evtt[t] \in EvttType
         /\ s.evtt[t].registered \in BOOLEAN /\ s.evtt[t].deleting \in BOOLEAN
         /\ s.evtt[t].inuse \in BOOLEAN /\ s.evtt[t].kind \in KindType
         /\ s.evtt[t].kind.correlative \in BOOLEAN
         /\ s.evtt[t].events \in Nat /\ s.evtt[t].vpus \in Nat /\ s.evtt[t].free_vm \in Nat
         /\ s.evtt[t].mark \in Seq(Ecbs)
         /\ s.evtt[t].pop_sync \in Seq(Ecbs) /\ s.evtt[t].done_sync \in Seq(Ecbs)
  BY SMTT(60) DEF StateType, EvttType, KindType

(* The fields of an event. *)
LEMMA EventFields ==
  ASSUME NEW s \in StateType, NEW e \in Ecbs
  PROVE  /\ s.ecb[e] \in EcbType
         /\ s.ecb[e].place \in Places /\ s.ecb[e].type \in Evtts \union {NoEvtt}
         /\ s.ecb[e].vm \in BOOLEAN /\ s.ecb[e].counter \in Int /\ s.ecb[e].sync \in Seq(Ecbs)
  BY DEF StateType, EcbType

(* Which queues are empty. *)
LEMMA Empty == \A q \in Seq(Ecbs) : q = << >> <=> ToSet(q) = {}
  BY Elements

SameEvent(s, r, e) ==
  /\ r.ecb[e].type = s.ecb[e].type /\ r.ecb[e].vm = s.ecb[e].vm
  /\ r.ecb[e].place = "free" <=> s.ecb[e].place = "free"
  /\ Lacks(r, e) <=> Lacks(s, e)
SameCounts(s, r, t) ==
  /\ r.evtt[t].registered = s.evtt[t].registered /\ r.evtt[t].inuse = s.evtt[t].inuse
  /\ r.evtt[t].kind = s.evtt[t].kind /\ r.evtt[t].events = s.evtt[t].events
  /\ r.evtt[t].vpus = s.evtt[t].vpus /\ r.evtt[t].free_vm = s.evtt[t].free_vm
  /\ r.evtt[t].mark = s.evtt[t].mark

(* Events with the same type, thread and freedom are counted alike. *)
LEMMA SameSets ==
  ASSUME NEW s, NEW r, \A e \in Ecbs : SameEvent(s, r, e)
  PROVE  \A t : Of(r, t) = Of(s, t) /\ Busy(r, t) = Busy(s, t) /\ Lacking(r, t) = Lacking(s, t)
<1>1. ASSUME NEW t PROVE Of(r, t) = Of(s, t)
  BY DEF Of, SameEvent
<1>2. ASSUME NEW t PROVE Busy(r, t) = Busy(s, t)
  BY <1>1 DEF Busy, Of, SameEvent
<1>3. ASSUME NEW t PROVE Lacking(r, t) = Lacking(s, t)
  BY <1>1 DEF Lacking, Of, SameEvent
<1> QED
  BY <1>1, <1>2, <1>3

(* Nothing that Core speaks about has changed. *)
LEMMA CoreKept ==
  ASSUME NEW s, NEW r, NEW h, Core(s, h), r \in StateType,
         \A e \in Ecbs : SameEvent(s, r, e), \A t \in Evtts : SameCounts(s, r, t),
         \A e \in Ecbs : s.ecb[e].place = "free" /\ s.ecb[e].sync = << >> => r.ecb[e].sync = << >>
  PROVE  Core(r, h)
<1>1. \A t : Of(r, t) = Of(s, t) /\ Busy(r, t) = Busy(s, t) /\ Lacking(r, t) = Lacking(s, t)
  BY SameSets
<1>2. Live(r)
  BY DEF Core, Live, SameEvent
<1>3. Counted(r, h)
  BY <1>1 DEF Core, Counted, SameCounts
<1>4. NoIdle(r)
  BY <1>1 DEF Core, NoIdle, SameCounts
<1>5. Uses(r)
  BY <1>1 DEF Core, Uses, SameCounts
<1>6. Marks(r)
  BY <1>1 DEF Core, Marks, SameCounts
<1> QED
  BY <1>2, <1>3, <1>4, <1>5, <1>6 DEF Core

(* Events leave queues. *)
LEMMA HoldLeave ==
  ASSUME NEW F, NEW G, NEW D, NEW pl, NEW pl2, NEW p, NEW X, Hold(F, D, pl, p),
         \A x \in D : G[x] = F[x] \ X,
         \A w \in Ecbs : pl2[w] = p <=> pl[w] = p /\ w \notin X
  PROVE  Hold(G, D, pl2, p)
  BY DEF Hold

(* An event enters a queue. *)
LEMMA HoldEnter ==
  ASSUME NEW F, NEW G, NEW D, NEW pl, NEW pl2, NEW p, NEW e \in Ecbs, NEW d \in D,
         Hold(F, D, pl, p), pl[e] # p, pl2[e] = p,
         \A w \in Ecbs \ {e} : pl2[w] = p <=> pl[w] = p,
         G[d] = F[d] \union {e}, \A x \in D \ {d} : G[x] = F[x]
  PROVE  Hold(G, D, pl2, p)
<1>1. \A x \in D : e \notin F[x]
  BY DEF Hold
<1>2. \A x \in D, w \in Ecbs : w \in G[x] <=> w \in F[x] \/ (w = e /\ x = d)
  OBVIOUS
<1>3. ASSUME NEW w \in Ecbs PROVE (\E x \in D : w \in G[x]) <=> pl2[w] = p
  BY <1>2 DEF Hold
<1>4. ASSUME NEW w \in Ecbs, NEW x \in D, NEW y \in D, w \in G[x], w \in G[y] PROVE x = y
  BY <1>1, <1>2, <1>4 DEF Hold
<1> QED
  BY <1>3, <1>4 DEF Hold

(* The events of X, which wait, are unlinked and made ready. *)
Woken(s, r, X) ==
  /\ r \in StateType /\ r.memq = s.memq
  /\ \A e \in Ecbs : /\ e \in X => s.ecb[e].place \in {"event", "done", "pop"}
                     /\ r.ecb[e].place = IF e \in X THEN "ready" ELSE s.ecb[e].place
                     /\ r.ecb[e].type = s.ecb[e].type /\ r.ecb[e].vm = s.ecb[e].vm
                     /\ ToSet(r.ecb[e].sync) = ToSet(s.ecb[e].sync) \ X
  /\ \A t \in Evtts : /\ SameCounts(s, r, t) /\ r.evtt[t].deleting = s.evtt[t].deleting
                      /\ ToSet(r.evtt[t].done_sync) = ToSet(s.evtt[t].done_sync) \ X
                      /\ ToSet(r.evtt[t].pop_sync) = ToSet(s.evtt[t].pop_sync) \ X

(* That keeps the invariant: they leave the queues they waited in. *)
LEMMA WakeUp ==
  ASSUME NEW s, NEW r, NEW h, NEW X, Core(s, h), Waits(s), Woken(s, r, X)
  PROVE  Core(r, h) /\ Waits(r)
<1>1. s \in StateType /\ r \in StateType
  BY DEF Core, Woken
<1>2. \A e \in Ecbs : SameEvent(s, r, e)
  BY DEF Woken, SameEvent, Lacks
<1>3. \A e \in Ecbs : s.ecb[e].sync = << >> => r.ecb[e].sync = << >>
  <2> SUFFICES ASSUME NEW e \in Ecbs, s.ecb[e].sync = << >> PROVE r.ecb[e].sync = << >>
    OBVIOUS
  <2>1. r.ecb[e].sync \in Seq(Ecbs) /\ s.ecb[e].sync \in Seq(Ecbs)
    BY <1>1, EventFields
  <2>2. ToSet(s.ecb[e].sync) = {}
    BY <2>1, Elements
  <2>3. ToSet(r.ecb[e].sync) = {}
    BY SMTT(60), <2>2 DEF Woken
  <2> QED
    BY SMTT(60), <2>1, <2>3, Elements
<1>4. Core(r, h)
  BY <1>1, <1>2, <1>3, CoreKept DEF Woken
<1>5. \A w \in Ecbs : PlaceOf(r)[w] = IF w \in X THEN "ready" ELSE PlaceOf(s)[w]
  BY DEF PlaceOf, Woken
<1>6. Hold(SyncOf(r), Ecbs, PlaceOf(r), "event")
  <2>1. \A x \in Ecbs : SyncOf(r)[x] = SyncOf(s)[x] \ X
    BY DEF SyncOf, Woken
  <2>2. \A w \in Ecbs : PlaceOf(r)[w] = "event" <=> PlaceOf(s)[w] = "event" /\ w \notin X
    BY <1>5
  <2> QED
    BY ZenonT(60), <2>1, <2>2, HoldLeave DEF Waits
<1>7. Hold(DoneOf(r), Evtts, PlaceOf(r), "done")
  <2>1. \A x \in Evtts : DoneOf(r)[x] = DoneOf(s)[x] \ X
    BY DEF DoneOf, Woken
  <2>2. \A w \in Ecbs : PlaceOf(r)[w] = "done" <=> PlaceOf(s)[w] = "done" /\ w \notin X
    BY <1>5
  <2> QED
    BY ZenonT(60), <2>1, <2>2, HoldLeave DEF Waits
<1>8. Hold(PopOf(r), Evtts, PlaceOf(r), "pop")
  <2>1. \A x \in Evtts : PopOf(r)[x] = PopOf(s)[x] \ X
    BY DEF PopOf, Woken
  <2>2. \A w \in Ecbs : PlaceOf(r)[w] = "pop" <=> PlaceOf(s)[w] = "pop" /\ w \notin X
    BY <1>5
  <2> QED
    BY ZenonT(60), <2>1, <2>2, HoldLeave DEF Waits
<1>9. MemQueue(r)
  BY DEF Waits, MemQueue, Woken
<1>10. NobodyLeft(r)
  <2> SUFFICES ASSUME NEW t \in Evtts, ~r.evtt[t].registered \/ r.evtt[t].deleting
               PROVE  r.evtt[t].pop_sync = << >> /\ r.evtt[t].done_sync = << >>
    BY DEF NobodyLeft
  <2>1. /\ r.evtt[t].pop_sync \in Seq(Ecbs) /\ r.evtt[t].done_sync \in Seq(Ecbs)
        /\ s.evtt[t].pop_sync \in Seq(Ecbs) /\ s.evtt[t].done_sync \in Seq(Ecbs)
    BY <1>1, TypeFields
  <2>2. s.evtt[t].pop_sync = << >> /\ s.evtt[t].done_sync = << >>
    BY DEF Waits, NobodyLeft, Woken, SameCounts
  <2>3. ToSet(s.evtt[t].pop_sync) = {} /\ ToSet(s.evtt[t].done_sync) = {}
    BY <2>1, <2>2, Empty
  <2>4. ToSet(r.evtt[t].pop_sync) = {} /\ ToSet(r.evtt[t].done_sync) = {}
    BY <2>3 DEF Woken
  <2> QED
    BY <2>1, <2>4, Empty
<1> QED
  BY <1>4, <1>6, <1>7, <1>8, <1>9, <1>10 DEF Waits
--------------------------------------------------------------------------------
(***************************************************************************)
(* What wakes waiters: Djy_EventPop, Djy_EventSessionComplete, the waiters *)
(* for an event and for completions in Djy_EventComplete, Djy_IsrTick.     *)
(***************************************************************************)
(* Moving events to a place changes nothing else. *)
LEMMA MovedFields ==
  ASSUME NEW s \in StateType, NEW X, NEW p \in Places
  PROVE  LET r == Moved(s, X, p)
         IN  /\ r \in StateType
             /\ r.evtt = s.evtt /\ r.memq = s.memq /\ r.mem = s.mem /\ r.dead = s.dead
             /\ \A e \in Ecbs : /\ r.ecb[e].place = IF e \in X THEN p ELSE s.ecb[e].place
                                /\ r.ecb[e].type = s.ecb[e].type /\ r.ecb[e].vm = s.ecb[e].vm
                                /\ r.ecb[e].counter = s.ecb[e].counter
                                /\ r.ecb[e].sync = s.ecb[e].sync
<1> DEFINE E == [e \in Ecbs |-> IF e \in X THEN [s.ecb[e] EXCEPT !.place = p] ELSE s.ecb[e]]
<1>1. E \in [Ecbs -> EcbType]
  <2>1. ASSUME NEW e \in Ecbs PROVE [s.ecb[e] EXCEPT !.place = p] \in EcbType
    BY EventFields DEF EcbType
  <2> QED
    BY <2>1, StateFields
<1>2. \A e \in Ecbs : /\ E[e].place = IF e \in X THEN p ELSE s.ecb[e].place
                      /\ E[e].type = s.ecb[e].type /\ E[e].vm = s.ecb[e].vm
                      /\ E[e].counter = s.ecb[e].counter /\ E[e].sync = s.ecb[e].sync
  BY EventFields DEF EcbType
<1> HIDE DEF E
<1>3. Moved(s, X, p) = [s EXCEPT !.ecb = E]
  BY DEF Moved, E
<1> QED
  BY SMTT(60), <1>1, <1>2, <1>3 DEF StateType

(* Waiters for pops of type t are nowhere else. *)
LEMMA InPop ==
  ASSUME NEW s \in StateType, Waits(s), NEW t \in Evtts, NEW X \in SUBSET ToSet(s.evtt[t].pop_sync)
  PROVE  /\ X \subseteq Ecbs /\ \A e \in X : s.ecb[e].place = "pop"
         /\ \A x \in Ecbs : ToSet(s.ecb[x].sync) = ToSet(s.ecb[x].sync) \ X
         /\ \A u \in Evtts : ToSet(s.evtt[u].done_sync) = ToSet(s.evtt[u].done_sync) \ X
         /\ \A u \in Evtts \ {t} : ToSet(s.evtt[u].pop_sync) = ToSet(s.evtt[u].pop_sync) \ X
<1>1. X \subseteq Ecbs
  BY TypeFields, Elements
<1>2. \A e \in X : PlaceOf(s)[e] = "pop"
  BY <1>1 DEF Waits, Hold, PopOf
<1>3. \A e \in X : s.ecb[e].place = "pop"
  BY <1>1, <1>2 DEF PlaceOf
<1>4. \A x \in Ecbs, e \in X : e \notin ToSet(s.ecb[x].sync)
  BY <1>1, <1>2 DEF Waits, Hold, SyncOf
<1>5. \A u \in Evtts, e \in X : e \notin ToSet(s.evtt[u].done_sync)
  BY <1>1, <1>2 DEF Waits, Hold, DoneOf
<1>6. \A u \in Evtts \ {t}, e \in X : e \notin ToSet(s.evtt[u].pop_sync)
  BY <1>1 DEF Waits, Hold, PopOf
<1> QED
  BY <1>1, <1>3, <1>4, <1>5, <1>6

(* Nor are waiters for its completions. *)
LEMMA InDone ==
  ASSUME NEW s \in StateType, Waits(s), NEW t \in Evtts, NEW X \in SUBSET ToSet(s.evtt[t].done_sync)
  PROVE  /\ X \subseteq Ecbs /\ \A e \in X : s.ecb[e].place = "done"
         /\ \A x \in Ecbs : ToSet(s.ecb[x].sync) = ToSet(s.ecb[x].sync) \ X
         /\ \A u \in Evtts : ToSet(s.evtt[u].pop_sync) = ToSet(s.evtt[u].pop_sync) \ X
         /\ \A u \in Evtts \ {t} : ToSet(s.evtt[u].done_sync) = ToSet(s.evtt[u].done_sync) \ X
<1>1. X \subseteq Ecbs
  BY TypeFields, Elements
<1>2. \A e \in X : PlaceOf(s)[e] = "done"
  BY <1>1 DEF Waits, Hold, DoneOf
<1>3. \A e \in X : s.ecb[e].place = "done"
  BY <1>1, <1>2 DEF PlaceOf
<1>4. \A x \in Ecbs, e \in X : e \notin ToSet(s.ecb[x].sync)
  BY <1>1, <1>2 DEF Waits, Hold, SyncOf
<1>5. \A u \in Evtts, e \in X : e \notin ToSet(s.evtt[u].pop_sync)
  BY <1>1, <1>2 DEF Waits, Hold, PopOf
<1>6. \A u \in Evtts \ {t}, e \in X : e \notin ToSet(s.evtt[u].done_sync)
  BY <1>1 DEF Waits, Hold, DoneOf
<1> QED
  BY <1>1, <1>3, <1>4, <1>5, <1>6

(* Nor are waiters for event x. *)
LEMMA InSync ==
  ASSUME NEW s \in StateType, Waits(s), NEW x \in Ecbs, NEW X \in SUBSET ToSet(s.ecb[x].sync)
  PROVE  /\ X \subseteq Ecbs /\ \A e \in X : s.ecb[e].place = "event"
         /\ \A y \in Ecbs \ {x} : ToSet(s.ecb[y].sync) = ToSet(s.ecb[y].sync) \ X
         /\ \A u \in Evtts : ToSet(s.evtt[u].pop_sync) = ToSet(s.evtt[u].pop_sync) \ X
         /\ \A u \in Evtts : ToSet(s.evtt[u].done_sync) = ToSet(s.evtt[u].done_sync) \ X
<1>1. X \subseteq Ecbs
  BY EventFields, Elements
<1>2. \A e \in X : PlaceOf(s)[e] = "event"
  BY <1>1 DEF Waits, Hold, SyncOf
<1>3. \A e \in X : s.ecb[e].place = "event"
  BY <1>1, <1>2 DEF PlaceOf
<1>4. \A y \in Ecbs \ {x}, e \in X : e \notin ToSet(s.ecb[y].sync)
  BY <1>1 DEF Waits, Hold, SyncOf
<1>5. \A u \in Evtts, e \in X : e \notin ToSet(s.evtt[u].pop_sync)
  BY <1>1, <1>2 DEF Waits, Hold, PopOf
<1>6. \A u \in Evtts, e \in X : e \notin ToSet(s.evtt[u].done_sync)
  BY <1>1, <1>2 DEF Waits, Hold, DoneOf
<1> QED
  BY <1>1, <1>3, <1>4, <1>5, <1>6

(* The queue of waiters for pops is replaced. *)
LEMMA PopField ==
  ASSUME NEW y \in EvttType, NEW q \in Seq(Ecbs)
  PROVE  LET z == [y EXCEPT !.pop_sync = q]
         IN  /\ z \in EvttType /\ z.pop_sync = q /\ z.done_sync = y.done_sync
             /\ z.deleting = y.deleting /\ z.registered = y.registered
             /\ z.inuse = y.inuse /\ z.kind = y.kind /\ z.events = y.events
             /\ z.vpus = y.vpus /\ z.free_vm = y.free_vm /\ z.mark = y.mark
  BY DEF EvttType

(* The queue of waiters for completions is replaced. *)
LEMMA DoneField ==
  ASSUME NEW y \in EvttType, NEW q \in Seq(Ecbs)
  PROVE  LET z == [y EXCEPT !.done_sync = q]
         IN  /\ z \in EvttType /\ z.done_sync = q /\ z.pop_sync = y.pop_sync
             /\ z.deleting = y.deleting /\ z.registered = y.registered
             /\ z.inuse = y.inuse /\ z.kind = y.kind /\ z.events = y.events
             /\ z.vpus = y.vpus /\ z.free_vm = y.free_vm /\ z.mark = y.mark
  BY DEF EvttType

(* The queue of waiters for an event is replaced. *)
LEMMA SyncField ==
  ASSUME NEW x \in EcbType, NEW q \in Seq(Ecbs)
  PROVE  LET z == [x EXCEPT !.sync = q]
         IN  /\ z \in EcbType /\ z.sync = q /\ z.place = x.place /\ z.type = x.type
             /\ z.vm = x.vm /\ z.counter = x.counter
  BY DEF EcbType

(* The empty queue. *)
LEMMA NoQueue == << >> \in Seq(Ecbs) /\ ToSet(<< >>) = {}
<1>1. << >> \in Seq(Ecbs)
  OBVIOUS
<1> QED
  BY <1>1, Empty

(* Djy_EventPop wakes waiters for pops of its type. *)
LEMMA PopSyncSafe ==
  ASSUME NEW s, NEW h, Core(s, h), Waits(s), NEW t \in Evtts, NEW hybrid
  PROVE  LET r == PopSync(s, t, hybrid)
         IN  /\ Core(r, h) /\ Waits(r)
             /\ \A e \in Ecbs : /\ s.ecb[e].place = "free" <=> r.ecb[e].place = "free"
                                /\ s.ecb[e].place = "ready" => r.ecb[e].place = "ready"
                                /\ r.ecb[e].type = s.ecb[e].type
             /\ \A u \in Evtts : SameCounts(s, r, u) /\ r.evtt[u].deleting = s.evtt[u].deleting
<1> DEFINE q == s.evtt[t].pop_sync
           Counts(w) == \/ s.evtt[t].kind.correlative
                        \/ w = hybrid
                        \/ s.ecb[w].type # t
           Due(w) == Counts(w) /\ s.ecb[w].counter <= 1
           X == {w \in ToSet(q) : Due(w)}
           r == PopSync(s, t, hybrid)
<1>1. s \in StateType /\ q \in Seq(Ecbs) /\ s.evtt[t] \in EvttType
  BY TypeFields DEF Core
<1>2. ASSUME NEW Y, Woken(s, r, Y)
      PROVE  /\ Core(r, h) /\ Waits(r)
             /\ \A e \in Ecbs : /\ s.ecb[e].place = "free" <=> r.ecb[e].place = "free"
                                /\ s.ecb[e].place = "ready" => r.ecb[e].place = "ready"
                                /\ r.ecb[e].type = s.ecb[e].type
             /\ \A u \in Evtts : SameCounts(s, r, u) /\ r.evtt[u].deleting = s.evtt[u].deleting
  <2> HIDE DEF r
  <2>1. Core(r, h) /\ Waits(r)
    BY <1>2, WakeUp
  <2> QED
    BY <1>2, <2>1 DEF Woken
<1>3. CASE q = << >>
  <2>1. r = s
    BY <1>3 DEF PopSync
  <2> QED
    BY <2>1 DEF SameCounts
<1>4. CASE q # << >> /\ Due(q[1])
  <2> DEFINE m == Ready(s, ToSet(q))
             y == [s.evtt[t] EXCEPT !.pop_sync = << >>]
             d == \E w \in ToSet(q) : ~Counts(w)
  <2>1. r = [m EXCEPT !.evtt[t].pop_sync = << >>, !.dead = d]
    BY ZenonT(30), <1>4 DEF PopSync
  <2>2. /\ m \in StateType /\ m.evtt = s.evtt /\ m.memq = s.memq
        /\ \A e \in Ecbs : /\ m.ecb[e].place = IF e \in ToSet(q) THEN "ready" ELSE s.ecb[e].place
                           /\ m.ecb[e].type = s.ecb[e].type /\ m.ecb[e].vm = s.ecb[e].vm
                           /\ m.ecb[e].sync = s.ecb[e].sync
    BY <1>1, MovedFields DEF Ready, Places
  <2> HIDE DEF m
  <2>3. /\ y \in EvttType /\ y.pop_sync = << >> /\ y.done_sync = s.evtt[t].done_sync
        /\ y.deleting = s.evtt[t].deleting /\ y.registered = s.evtt[t].registered
        /\ y.inuse = s.evtt[t].inuse /\ y.kind = s.evtt[t].kind /\ y.events = s.evtt[t].events
        /\ y.vpus = s.evtt[t].vpus /\ y.free_vm = s.evtt[t].free_vm /\ y.mark = s.evtt[t].mark
    BY ZenonT(60), <1>1, NoQueue, PopField
  <2>4. r = [m EXCEPT !.evtt = [s.evtt EXCEPT ![t] = y], !.dead = d]
    BY <2>1, <2>2
  <2>5. d \in BOOLEAN
    OBVIOUS
  <2> HIDE DEF y, d, r
  <2>6. /\ r \in StateType /\ r.memq = s.memq /\ r.ecb = m.ecb
        /\ \A u \in Evtts : r.evtt[u] = IF u = t THEN y ELSE s.evtt[u]
    BY <2>2, <2>3, <2>4, <2>5 DEF StateType
  <2>7. Woken(s, r, ToSet(q))
    <3>1. /\ \A e \in ToSet(q) : s.ecb[e].place = "pop"
          /\ \A x \in Ecbs : ToSet(s.ecb[x].sync) = ToSet(s.ecb[x].sync) \ ToSet(q)
          /\ \A u \in Evtts : ToSet(s.evtt[u].done_sync) = ToSet(s.evtt[u].done_sync) \ ToSet(q)
          /\ \A u \in Evtts \ {t} : ToSet(s.evtt[u].pop_sync) = ToSet(s.evtt[u].pop_sync) \ ToSet(q)
      <4>1. PICK Y : Y = ToSet(q)
        OBVIOUS
      <4>2. Y \in SUBSET ToSet(q)
        BY <4>1
      <4>3. /\ \A e \in Y : s.ecb[e].place = "pop"
            /\ \A x \in Ecbs : ToSet(s.ecb[x].sync) = ToSet(s.ecb[x].sync) \ Y
            /\ \A u \in Evtts : ToSet(s.evtt[u].done_sync) = ToSet(s.evtt[u].done_sync) \ Y
            /\ \A u \in Evtts \ {t} : ToSet(s.evtt[u].pop_sync) = ToSet(s.evtt[u].pop_sync) \ Y
        BY SMTT(60), <1>1, <4>2, InPop
      <4> QED
        BY <4>1, <4>3
    <3>2. ToSet(y.pop_sync) = {}
      BY <2>3, NoQueue
    <3>3. \A u \in Evtts : /\ SameCounts(s, r, u) /\ r.evtt[u].deleting = s.evtt[u].deleting
                           /\ ToSet(r.evtt[u].done_sync) = ToSet(s.evtt[u].done_sync) \ ToSet(q)
                           /\ ToSet(r.evtt[u].pop_sync) = ToSet(s.evtt[u].pop_sync) \ ToSet(q)
      BY <2>3, <2>6, <3>1, <3>2 DEF SameCounts
    <3> HIDE DEF q
    <3>4. \A e \in Ecbs : /\ e \in ToSet(q) => s.ecb[e].place \in {"event", "done", "pop"}
                          /\ r.ecb[e].place = IF e \in ToSet(q) THEN "ready" ELSE s.ecb[e].place
                          /\ r.ecb[e].type = s.ecb[e].type /\ r.ecb[e].vm = s.ecb[e].vm
                          /\ ToSet(r.ecb[e].sync) = ToSet(s.ecb[e].sync) \ ToSet(q)
      BY <2>2, <2>6, <3>1
    <3> QED
      BY <2>6, <3>3, <3>4 DEF Woken
  <2> QED
    BY SMTT(60), <1>2, <2>7 DEF r
<1>5. CASE q # << >> /\ ~Due(q[1])
  <2> DEFINE E == [w \in Ecbs |-> IF w \in ToSet(q) \ X /\ Counts(w)
                                  THEN [s.ecb[w] EXCEPT !.counter = @ - 1] ELSE s.ecb[w]]
             n == Without(q, X)
             y == [s.evtt[t] EXCEPT !.pop_sync = n]
             m == [s EXCEPT !.evtt = [s.evtt EXCEPT ![t] = y], !.ecb = E]
  <2>1. r = Ready(m, X)
    BY ZenonT(60), <1>1, <1>5 DEF PopSync, StateType
  <2>2. n \in Seq(Ecbs) /\ ToSet(n) = ToSet(q) \ X
    BY <1>1, WithoutFacts
  <2>3. /\ E \in [Ecbs -> EcbType]
        /\ \A e \in Ecbs : /\ E[e].place = s.ecb[e].place /\ E[e].type = s.ecb[e].type
                           /\ E[e].vm = s.ecb[e].vm /\ E[e].sync = s.ecb[e].sync
    <3>1. ASSUME NEW e \in Ecbs
          PROVE  LET x == [s.ecb[e] EXCEPT !.counter = @ - 1]
                 IN  /\ x \in EcbType /\ x.place = s.ecb[e].place /\ x.type = s.ecb[e].type
                     /\ x.vm = s.ecb[e].vm /\ x.sync = s.ecb[e].sync
      BY <1>1, EventFields DEF EcbType
    <3>2. \A e \in Ecbs : E[e] = IF e \in ToSet(q) \ X /\ Counts(e)
                                 THEN [s.ecb[e] EXCEPT !.counter = @ - 1] ELSE s.ecb[e]
      OBVIOUS
    <3> HIDE DEF X, Counts, q
    <3> QED
      BY <1>1, <3>1, StateFields
  <2> HIDE DEF E, n
  <2>4. /\ y \in EvttType /\ y.pop_sync = n /\ y.done_sync = s.evtt[t].done_sync
        /\ y.deleting = s.evtt[t].deleting /\ y.registered = s.evtt[t].registered
        /\ y.inuse = s.evtt[t].inuse /\ y.kind = s.evtt[t].kind /\ y.events = s.evtt[t].events
        /\ y.vpus = s.evtt[t].vpus /\ y.free_vm = s.evtt[t].free_vm /\ y.mark = s.evtt[t].mark
    BY <1>1, <2>2, PopField
  <2> HIDE DEF y, X
  <2>5. /\ m \in StateType /\ m.memq = s.memq /\ m.ecb = E
        /\ \A u \in Evtts : m.evtt[u] = IF u = t THEN y ELSE s.evtt[u]
    BY <1>1, <2>3, <2>4 DEF StateType
  <2> HIDE DEF m
  <2>6. /\ r \in StateType /\ r.evtt = m.evtt /\ r.memq = m.memq
        /\ \A e \in Ecbs : /\ r.ecb[e].place = IF e \in X THEN "ready" ELSE m.ecb[e].place
                           /\ r.ecb[e].type = m.ecb[e].type /\ r.ecb[e].vm = m.ecb[e].vm
                           /\ r.ecb[e].sync = m.ecb[e].sync
    BY <2>1, <2>5, MovedFields DEF Ready, Places
  <2> HIDE DEF r
  <2>7. Woken(s, r, X)
    <3>1. /\ \A e \in X : s.ecb[e].place = "pop"
          /\ \A x \in Ecbs : ToSet(s.ecb[x].sync) = ToSet(s.ecb[x].sync) \ X
          /\ \A u \in Evtts : ToSet(s.evtt[u].done_sync) = ToSet(s.evtt[u].done_sync) \ X
          /\ \A u \in Evtts \ {t} : ToSet(s.evtt[u].pop_sync) = ToSet(s.evtt[u].pop_sync) \ X
      <4>1. X \in SUBSET ToSet(q)
        BY DEF X
      <4> QED
        BY <1>1, <4>1, InPop
    <3>2. \A u \in Evtts : /\ SameCounts(s, r, u) /\ r.evtt[u].deleting = s.evtt[u].deleting
                           /\ ToSet(r.evtt[u].done_sync) = ToSet(s.evtt[u].done_sync) \ X
                           /\ ToSet(r.evtt[u].pop_sync) = ToSet(s.evtt[u].pop_sync) \ X
      BY <2>2, <2>4, <2>5, <2>6, <3>1 DEF SameCounts
    <3> HIDE DEF q
    <3>3. \A e \in Ecbs : /\ e \in X => s.ecb[e].place \in {"event", "done", "pop"}
                          /\ r.ecb[e].place = IF e \in X THEN "ready" ELSE s.ecb[e].place
                          /\ r.ecb[e].type = s.ecb[e].type /\ r.ecb[e].vm = s.ecb[e].vm
                          /\ ToSet(r.ecb[e].sync) = ToSet(s.ecb[e].sync) \ X
      BY SMTT(60), <2>3, <2>5, <2>6, <3>1
    <3> QED
      BY SMTT(60), <2>5, <2>6, <3>2, <3>3 DEF Woken
  <2> QED
    BY SMTT(60), <1>2, <2>7 DEF r
<1> HIDE DEF r, q, Due
<1> QED
  BY <1>3, <1>4, <1>5 DEF r

(* Djy_EventSessionComplete wakes the waiters for an event. *)
LEMMA SessionSafe ==
  ASSUME NEW s, NEW h, Core(s, h), Waits(s), NEW e \in Ecbs
  PROVE  LET r == [Ready(s, ToSet(s.ecb[e].sync)) EXCEPT !.ecb[e].sync = << >>]
         IN  Core(r, h) /\ Waits(r)
<1>1. PICK X : X = ToSet(s.ecb[e].sync)
  OBVIOUS
<1> DEFINE m == Ready(s, X)
           z == [m.ecb[e] EXCEPT !.sync = << >>]
           r == [m EXCEPT !.ecb[e].sync = << >>]
<1>2. s \in StateType /\ X \in SUBSET ToSet(s.ecb[e].sync)
  BY <1>1 DEF Core
<1>3. /\ m \in StateType /\ m.evtt = s.evtt /\ m.memq = s.memq
      /\ \A x \in Ecbs : /\ m.ecb[x].place = IF x \in X THEN "ready" ELSE s.ecb[x].place
                         /\ m.ecb[x].type = s.ecb[x].type /\ m.ecb[x].vm = s.ecb[x].vm
                         /\ m.ecb[x].sync = s.ecb[x].sync
  BY <1>2, MovedFields DEF Ready, Places
<1> HIDE DEF m
<1>4. /\ z \in EcbType /\ z.sync = << >> /\ z.place = m.ecb[e].place /\ z.type = m.ecb[e].type
      /\ z.vm = m.ecb[e].vm
  <2>1. m.ecb[e] \in EcbType
    BY <1>3, EventFields
  <2> QED
    BY ONLY <2>1, NoQueue, SyncField
<1>5. r = [m EXCEPT !.ecb = [m.ecb EXCEPT ![e] = z]]
  BY <1>3, StateFields
<1> HIDE DEF z, r
<1>6. /\ r \in StateType /\ r.memq = s.memq /\ r.evtt = s.evtt
      /\ \A x \in Ecbs : r.ecb[x] = IF x = e THEN z ELSE m.ecb[x]
  BY <1>3, <1>4, <1>5 DEF StateType
<1>7. /\ \A x \in X : s.ecb[x].place = "event"
      /\ \A x \in Ecbs \ {e} : ToSet(s.ecb[x].sync) = ToSet(s.ecb[x].sync) \ X
      /\ \A u \in Evtts : ToSet(s.evtt[u].pop_sync) = ToSet(s.evtt[u].pop_sync) \ X
      /\ \A u \in Evtts : ToSet(s.evtt[u].done_sync) = ToSet(s.evtt[u].done_sync) \ X
  BY SMTT(60), <1>2, InSync
<1>8. ToSet(z.sync) = {}
  BY <1>4, NoQueue
<1>9. \A x \in Ecbs : /\ x \in X => s.ecb[x].place \in {"event", "done", "pop"}
                      /\ r.ecb[x].place = IF x \in X THEN "ready" ELSE s.ecb[x].place
                      /\ r.ecb[x].type = s.ecb[x].type /\ r.ecb[x].vm = s.ecb[x].vm
                      /\ ToSet(r.ecb[x].sync) = ToSet(s.ecb[x].sync) \ X
  BY <1>1, <1>3, <1>4, <1>6, <1>7, <1>8
<1>10. Woken(s, r, X)
  BY <1>6, <1>7, <1>9 DEF Woken, SameCounts
<1>11. Core(r, h) /\ Waits(r)
  BY SMTT(60), <1>10, WakeUp
<1> QED
  BY <1>1, <1>11 DEF r, m

(* The state once the completed event's own queue of waiters is empty. *)
Cleared(v, e) == [v EXCEPT !.ecb[e].sync = << >>]

(* Djy_EventComplete wakes the waiters for the event and for its type. *)
LEMMA CompleteWakes ==
  ASSUME NEW s, NEW h, Core(s, h), Waits(s), NEW e \in Ecbs, s.ecb[e].place = "ready",
         NEW t \in Evtts, NEW v, v = DoneSync(Ready(s, ToSet(s.ecb[e].sync)), t)
  PROVE  LET r == Cleared(v, e)
         IN  /\ v \in StateType /\ Core(r, h) /\ Waits(r)
             /\ r.ecb[e].place = "ready" /\ r.ecb[e].sync = << >>
             /\ r.ecb[e].type = s.ecb[e].type /\ r.ecb[e].vm = s.ecb[e].vm
             /\ \A u \in Evtts : SameCounts(s, r, u) /\ r.evtt[u].deleting = s.evtt[u].deleting
<1>1. PICK X : X = ToSet(s.ecb[e].sync)
  OBVIOUS
<1>2. PICK Y : Y = ToSet(s.evtt[t].done_sync)
  OBVIOUS
<1> DEFINE m == Ready(s, X)
           n == Ready(m, Y)
           d == \E w \in Y : m.ecb[w].counter = 0 /\ m.evtt[t].vpus # 1
           y == [s.evtt[t] EXCEPT !.done_sync = << >>]
           z == [v.ecb[e] EXCEPT !.sync = << >>]
           r == Cleared(v, e)
<1>3. s \in StateType /\ X \in SUBSET ToSet(s.ecb[e].sync) /\ Y \in SUBSET ToSet(s.evtt[t].done_sync)
  BY SMTT(60), <1>1, <1>2 DEF Core
<1>4. /\ m \in StateType /\ m.evtt = s.evtt /\ m.memq = s.memq
      /\ \A x \in Ecbs : /\ m.ecb[x].place = IF x \in X THEN "ready" ELSE s.ecb[x].place
                         /\ m.ecb[x].type = s.ecb[x].type /\ m.ecb[x].vm = s.ecb[x].vm
                         /\ m.ecb[x].sync = s.ecb[x].sync
  BY SMTT(60), <1>3, MovedFields DEF Ready, Places
<1> HIDE DEF m
<1>5. /\ n \in StateType /\ n.evtt = m.evtt /\ n.memq = m.memq
      /\ \A x \in Ecbs : /\ n.ecb[x].place = IF x \in Y THEN "ready" ELSE m.ecb[x].place
                         /\ n.ecb[x].type = m.ecb[x].type /\ n.ecb[x].vm = m.ecb[x].vm
                         /\ n.ecb[x].sync = m.ecb[x].sync
  BY SMTT(60), <1>4, MovedFields DEF Ready, Places
<1>6. v = [n EXCEPT !.evtt[t].done_sync = << >>, !.dead = d]
  BY ZenonT(30), <1>1, <1>2, <1>4 DEF DoneSync, m
<1>7. d \in BOOLEAN
  OBVIOUS
<1> HIDE DEF n, d
<1>8. /\ y \in EvttType /\ y.done_sync = << >> /\ y.pop_sync = s.evtt[t].pop_sync
      /\ y.deleting = s.evtt[t].deleting /\ y.registered = s.evtt[t].registered
      /\ y.inuse = s.evtt[t].inuse /\ y.kind = s.evtt[t].kind /\ y.events = s.evtt[t].events
      /\ y.vpus = s.evtt[t].vpus /\ y.free_vm = s.evtt[t].free_vm /\ y.mark = s.evtt[t].mark
  BY ZenonT(60), <1>3, TypeFields, NoQueue, DoneField
<1>9. v = [n EXCEPT !.evtt = [s.evtt EXCEPT ![t] = y], !.dead = d]
  BY <1>4, <1>5, <1>6
<1> HIDE DEF y
<1>10. /\ v \in StateType /\ v.memq = s.memq /\ v.ecb = n.ecb
       /\ \A u \in Evtts : v.evtt[u] = IF u = t THEN y ELSE s.evtt[u]
  <2> DEFINE T == [s.evtt EXCEPT ![t] = y]
  <2>1. T \in [Evtts -> EvttType] /\ \A u \in Evtts : T[u] = IF u = t THEN y ELSE s.evtt[u]
    BY <1>3, <1>8, StateFields
  <2> HIDE DEF T
  <2>2. v = [n EXCEPT !.evtt = T, !.dead = d]
    BY <1>9 DEF T
  <2>3. v \in StateType /\ v.memq = n.memq /\ v.ecb = n.ecb /\ v.evtt = T
    BY <1>5, <1>7, <2>1, <2>2 DEF StateType
  <2> QED
    BY <1>4, <1>5, <2>1, <2>3
<1>11. /\ z \in EcbType /\ z.sync = << >> /\ z.place = v.ecb[e].place /\ z.type = v.ecb[e].type
       /\ z.vm = v.ecb[e].vm
  <2>1. v.ecb[e] \in EcbType
    BY <1>10, EventFields
  <2> QED
    BY ONLY ZenonT(60), <2>1, NoQueue, SyncField
<1>12. r = [v EXCEPT !.ecb = [v.ecb EXCEPT ![e] = z]]
  BY SMTT(60), <1>10, StateFields DEF Cleared
<1> HIDE DEF z, r
<1>13. /\ r \in StateType /\ r.memq = s.memq /\ r.evtt = v.evtt
       /\ \A x \in Ecbs : r.ecb[x] = IF x = e THEN z ELSE n.ecb[x]
  BY <1>10, <1>11, <1>12 DEF StateType
<1>14. /\ \A x \in X : s.ecb[x].place = "event"
       /\ \A x \in Ecbs \ {e} : ToSet(s.ecb[x].sync) = ToSet(s.ecb[x].sync) \ X
       /\ \A u \in Evtts : ToSet(s.evtt[u].pop_sync) = ToSet(s.evtt[u].pop_sync) \ X
       /\ \A u \in Evtts : ToSet(s.evtt[u].done_sync) = ToSet(s.evtt[u].done_sync) \ X
  BY SMTT(60), <1>3, InSync
<1>15. /\ \A x \in Y : s.ecb[x].place = "done"
       /\ \A x \in Ecbs : ToSet(s.ecb[x].sync) = ToSet(s.ecb[x].sync) \ Y
       /\ \A u \in Evtts : ToSet(s.evtt[u].pop_sync) = ToSet(s.evtt[u].pop_sync) \ Y
       /\ \A u \in Evtts \ {t} : ToSet(s.evtt[u].done_sync) = ToSet(s.evtt[u].done_sync) \ Y
  BY SMTT(60), <1>3, InDone
<1>16. ToSet(z.sync) = {} /\ ToSet(y.done_sync) = {}
  BY SMTT(60), <1>8, <1>11, NoQueue
<1> DEFINE Z == X \union Y
<1>17. ASSUME NEW x \in Ecbs
       PROVE  /\ x \in Z => s.ecb[x].place \in {"event", "done", "pop"}
              /\ r.ecb[x].place = IF x \in Z THEN "ready" ELSE s.ecb[x].place
              /\ r.ecb[x].type = s.ecb[x].type /\ r.ecb[x].vm = s.ecb[x].vm
  BY <1>4, <1>5, <1>10, <1>11, <1>13, <1>14, <1>15
<1>18. ASSUME NEW x \in Ecbs PROVE ToSet(r.ecb[x].sync) = ToSet(s.ecb[x].sync) \ Z
  <2>1. CASE x = e
    BY <1>1, <1>13, <1>16, <2>1
  <2>2. CASE x # e
    <3>1. r.ecb[x].sync = s.ecb[x].sync
      BY <1>4, <1>5, <1>13, <2>2
    <3> QED
      BY <1>14, <1>15, <2>2, <3>1
  <2> QED
    BY <2>1, <2>2
<1>19. ASSUME NEW u \in Evtts
       PROVE  /\ SameCounts(s, r, u) /\ r.evtt[u].deleting = s.evtt[u].deleting
              /\ ToSet(r.evtt[u].done_sync) = ToSet(s.evtt[u].done_sync) \ Z
              /\ ToSet(r.evtt[u].pop_sync) = ToSet(s.evtt[u].pop_sync) \ Z
  <2>1. CASE u = t
    <3>1. r.evtt[u] = y
      BY <1>10, <1>13, <2>1
    <3> QED
      BY SMTT(60), <1>2, <1>8, <1>14, <1>15, <1>16, <2>1, <3>1 DEF SameCounts
  <2>2. CASE u # t
    <3>1. r.evtt[u] = s.evtt[u]
      BY SMTT(60), <1>10, <1>13, <2>2
    <3> QED
      BY <1>14, <1>15, <2>2, <3>1 DEF SameCounts
  <2> QED
    BY SMTT(60), <2>1, <2>2
<1> HIDE DEF Z
<1>20. Woken(s, r, Z)
  BY <1>13, <1>17, <1>18, <1>19 DEF Woken
<1>21. Core(r, h) /\ Waits(r)
  BY <1>20, WakeUp
<1>22. e \notin Z
  BY SMTT(60), <1>14, <1>15 DEF Z
<1>23. r.ecb[e].place = "ready" /\ r.ecb[e].sync = << >>
  BY <1>11, <1>13, <1>17, <1>22
<1> QED
  BY ZenonT(30), <1>10, <1>17, <1>19, <1>21, <1>23 DEF r

(* Djy_IsrTick unlinks an event that times out, wherever it waits. *)
LEMMA TimeoutSafe ==
  ASSUME NEW s, NEW h, Core(s, h), Waits(s), NEW e \in Ecbs,
         s.ecb[e].place \in {"event", "done", "pop"}
  PROVE  Core(Ready(Unlinked(s, e), {e}), h) /\ Waits(Ready(Unlinked(s, e), {e}))
<1> DEFINE E == [x \in Ecbs |-> [s.ecb[x] EXCEPT !.sync = Without(@, {e})]]
           T == [t \in Evtts |-> [s.evtt[t] EXCEPT !.pop_sync = Without(@, {e}),
                                                   !.done_sync = Without(@, {e})]]
           m == Unlinked(s, e)
           r == Ready(m, {e})
<1>1. s \in StateType
  BY DEF Core
<1>2. ASSUME NEW x \in Ecbs
      PROVE  /\ E[x] \in EcbType /\ E[x].place = s.ecb[x].place /\ E[x].type = s.ecb[x].type
             /\ E[x].vm = s.ecb[x].vm /\ ToSet(E[x].sync) = ToSet(s.ecb[x].sync) \ {e}
  <2>1. s.ecb[x] \in EcbType /\ s.ecb[x].sync \in Seq(Ecbs)
    BY <1>1, EventFields
  <2>2. /\ Without(s.ecb[x].sync, {e}) \in Seq(Ecbs)
        /\ ToSet(Without(s.ecb[x].sync, {e})) = ToSet(s.ecb[x].sync) \ {e}
    BY <2>1, WithoutFacts
  <2>3. E[x] = [s.ecb[x] EXCEPT !.sync = Without(s.ecb[x].sync, {e})]
    OBVIOUS
  <2> DEFINE q == Without(s.ecb[x].sync, {e})
  <2> HIDE DEF E, q
  <2>4. E[x] = [s.ecb[x] EXCEPT !.sync = q]
    BY <2>3 DEF q
  <2>5. q \in Seq(Ecbs) /\ ToSet(q) = ToSet(s.ecb[x].sync) \ {e}
    BY <2>2 DEF q
  <2>6. /\ E[x] \in EcbType /\ E[x].place = s.ecb[x].place /\ E[x].type = s.ecb[x].type
        /\ E[x].vm = s.ecb[x].vm /\ E[x].sync = q
    BY ONLY <2>1, <2>4, <2>5, SyncField
  <2> QED
    BY <2>5, <2>6
<1>3. ASSUME NEW t \in Evtts
      PROVE  /\ T[t] \in EvttType /\ T[t].deleting = s.evtt[t].deleting
             /\ T[t].registered = s.evtt[t].registered
             /\ T[t].inuse = s.evtt[t].inuse /\ T[t].kind = s.evtt[t].kind
             /\ T[t].events = s.evtt[t].events /\ T[t].vpus = s.evtt[t].vpus
             /\ T[t].free_vm = s.evtt[t].free_vm /\ T[t].mark = s.evtt[t].mark
             /\ ToSet(T[t].pop_sync) = ToSet(s.evtt[t].pop_sync) \ {e}
             /\ ToSet(T[t].done_sync) = ToSet(s.evtt[t].done_sync) \ {e}
  <2> DEFINE y == s.evtt[t]
             a == Without(y.pop_sync, {e})
             b == Without(y.done_sync, {e})
             z == [y EXCEPT !.pop_sync = a]
  <2>1. y \in EvttType /\ y.pop_sync \in Seq(Ecbs) /\ y.done_sync \in Seq(Ecbs)
    BY <1>1, TypeFields
  <2>2. /\ a \in Seq(Ecbs) /\ ToSet(a) = ToSet(y.pop_sync) \ {e}
        /\ b \in Seq(Ecbs) /\ ToSet(b) = ToSet(y.done_sync) \ {e}
    BY SMTT(60), <2>1, WithoutFacts
  <2>3. T[t] = [y EXCEPT !.pop_sync = a, !.done_sync = b]
    OBVIOUS
  <2> HIDE DEF T, a, b, y
  <2>4. T[t] = [z EXCEPT !.done_sync = b]
    BY <2>1, <2>3 DEF EvttType
  <2>5. /\ z \in EvttType /\ z.pop_sync = a
        /\ z.deleting = y.deleting /\ z.registered = y.registered
        /\ z.inuse = y.inuse /\ z.kind = y.kind /\ z.events = y.events
        /\ z.vpus = y.vpus /\ z.free_vm = y.free_vm /\ z.mark = y.mark
    BY <2>1, <2>2, PopField
  <2> HIDE DEF z
  <2>6. /\ T[t] \in EvttType /\ T[t].done_sync = b /\ T[t].pop_sync = z.pop_sync
        /\ T[t].deleting = z.deleting /\ T[t].registered = z.registered
        /\ T[t].inuse = z.inuse /\ T[t].kind = z.kind /\ T[t].events = z.events
        /\ T[t].vpus = z.vpus /\ T[t].free_vm = z.free_vm /\ T[t].mark = z.mark
    BY <2>2, <2>4, <2>5, DoneField
  <2> QED
    BY <2>2, <2>5, <2>6 DEF y
<1>4. E \in [Ecbs -> EcbType] /\ T \in [Evtts -> EvttType]
  <2>1. DOMAIN E = Ecbs /\ DOMAIN T = Evtts /\ E = [x \in Ecbs |-> E[x]] /\ T = [t \in Evtts |-> T[t]]
    OBVIOUS
  <2> HIDE DEF E, T
  <2> QED
    BY <1>2, <1>3, <2>1
<1>5. m = [s EXCEPT !.ecb = E, !.evtt = T]
  BY DEF Unlinked
<1> HIDE DEF E, T, m
<1>6. m \in StateType /\ m.memq = s.memq /\ m.ecb = E /\ m.evtt = T
  BY <1>1, <1>4, <1>5 DEF StateType
<1>7. /\ r \in StateType /\ r.evtt = m.evtt /\ r.memq = m.memq
      /\ \A x \in Ecbs : /\ r.ecb[x].place = IF x \in {e} THEN "ready" ELSE m.ecb[x].place
                         /\ r.ecb[x].type = m.ecb[x].type /\ r.ecb[x].vm = m.ecb[x].vm
                         /\ r.ecb[x].sync = m.ecb[x].sync
  BY <1>6, MovedFields DEF Ready, Places
<1> HIDE DEF r
<1>8. Woken(s, r, {e})
  <2>1. \A x \in Ecbs : /\ x \in {e} => s.ecb[x].place \in {"event", "done", "pop"}
                        /\ r.ecb[x].place = IF x \in {e} THEN "ready" ELSE s.ecb[x].place
                        /\ r.ecb[x].type = s.ecb[x].type /\ r.ecb[x].vm = s.ecb[x].vm
                        /\ ToSet(r.ecb[x].sync) = ToSet(s.ecb[x].sync) \ {e}
    BY <1>2, <1>6, <1>7
  <2>2. \A u \in Evtts : /\ SameCounts(s, r, u) /\ r.evtt[u].deleting = s.evtt[u].deleting
                         /\ ToSet(r.evtt[u].done_sync) = ToSet(s.evtt[u].done_sync) \ {e}
                         /\ ToSet(r.evtt[u].pop_sync) = ToSet(s.evtt[u].pop_sync) \ {e}
    BY SMTT(60), <1>3, <1>6, <1>7 DEF SameCounts
  <2> QED
    BY <1>6, <1>7, <2>1, <2>2 DEF Woken
<1>9. Core(r, h) /\ Waits(r)
  BY <1>8, WakeUp
<1> QED
  BY <1>9 DEF r, m
--------------------------------------------------------------------------------
(***************************************************************************)
(* More about queues: parts of them, joining them, inserting into them.    *)
(***************************************************************************)
(* The first k events of a queue, and the others. *)
FirstOf(q, k) == SubSeq(q, 1, k)
RestOf(q, k) == SubSeq(q, k + 1, Len(q))

(* A queue falls into two parts. *)
LEMMA Splits ==
  ASSUME NEW q \in Seq(Ecbs), NEW k \in 0..Len(q)
  PROVE  /\ FirstOf(q, k) \in Seq(Ecbs) /\ RestOf(q, k) \in Seq(Ecbs)
         /\ ToSet(FirstOf(q, k)) = {q[i] : i \in 1..k}
         /\ ToSet(RestOf(q, k)) = {q[i] : i \in (k + 1)..Len(q)}
         /\ ToSet(q) = ToSet(FirstOf(q, k)) \union ToSet(RestOf(q, k))
         /\ NoDuplicates(q) => /\ NoDuplicates(FirstOf(q, k)) /\ NoDuplicates(RestOf(q, k))
                               /\ \A e \in ToSet(FirstOf(q, k)) : e \notin ToSet(RestOf(q, k))
<1>0. PICK a, b : a = SubSeq(q, 1, k) /\ b = SubSeq(q, k + 1, Len(q))
  BY ZenonT(60)
<1>1. Len(q) \in Nat /\ ToSet(q) = {q[i] : i \in 1..Len(q)} /\ \A i \in 1..Len(q) : q[i] \in Ecbs
  BY Elements
<1>2. a \in Seq(Ecbs) /\ Len(a) = k /\ \A i \in 1..k : a[i] = q[i]
  BY <1>0, <1>1
<1>3. /\ b \in Seq(Ecbs) /\ Len(b) = Len(q) - k
      /\ \A i \in 1..(Len(q) - k) : b[i] = q[k + i]
  <2>1. k + 1 \in Int /\ Len(q) \in Int /\ \A i \in (k + 1)..Len(q) : q[i] \in Ecbs
    BY <1>1
  <2>2. /\ b \in Seq(Ecbs) /\ Len(b) = (IF k + 1 <= Len(q) THEN Len(q) - (k + 1) + 1 ELSE 0)
        /\ \A i \in 1..(Len(q) - (k + 1) + 1) : b[i] = q[(k + 1) + i - 1]
    BY <1>0, <2>1, SubSeqProperties
  <2>3. Len(q) - (k + 1) + 1 = Len(q) - k /\ \A i \in 1..(Len(q) - k) : (k + 1) + i - 1 = k + i
    BY <1>1
  <2>4. Len(b) = Len(q) - k
    BY <1>1, <2>2
  <2> QED
    BY ZenonT(60), <2>2, <2>3, <2>4
<1>4. ToSet(a) = {a[i] : i \in 1..k} /\ ToSet(b) = {b[i] : i \in 1..(Len(q) - k)}
  <2>1. ToSet(a) = {a[i] : i \in 1..Len(a)}
    BY ONLY <1>2, Elements
  <2>2. ToSet(b) = {b[i] : i \in 1..Len(b)}
    BY ONLY <1>3, Elements
  <2> QED
    BY <1>2, <1>3, <2>1, <2>2
<1>5. ToSet(a) = {q[i] : i \in 1..k}
  BY <1>2, <1>4
<1>6. ToSet(b) = {q[i] : i \in (k + 1)..Len(q)}
  <2>1. \A i \in 1..(Len(q) - k) : k + i \in (k + 1)..Len(q)
    BY <1>1
  <2>2. \A j \in (k + 1)..Len(q) : j - k \in 1..(Len(q) - k) /\ k + (j - k) = j
    BY <1>1
  <2>3. \A j \in (k + 1)..Len(q) : b[j - k] = q[j]
    BY <1>3, <2>2
  <2>4. ASSUME NEW x \in ToSet(b) PROVE x \in {q[i] : i \in (k + 1)..Len(q)}
    <3>1. PICK i \in 1..(Len(q) - k) : x = b[i]
      BY <1>4
    <3>2. x = q[k + i]
      BY <1>3, <3>1
    <3> QED
      BY <2>1, <3>2
  <2>5. ASSUME NEW x \in {q[i] : i \in (k + 1)..Len(q)} PROVE x \in ToSet(b)
    <3>1. PICK j \in (k + 1)..Len(q) : x = q[j]
      OBVIOUS
    <3>2. j - k \in 1..(Len(q) - k) /\ x = b[j - k]
      BY <2>2, <2>3, <3>1
    <3> QED
      BY <1>4, <3>2
  <2> QED
    BY <2>4, <2>5
<1>7. ToSet(q) = ToSet(a) \union ToSet(b)
  <2>1. \A i : i \in 1..Len(q) <=> i \in 1..k \/ i \in (k + 1)..Len(q)
    BY <1>1
  <2> QED
    BY <1>1, <1>5, <1>6, <2>1
<1>8. ASSUME NoDuplicates(q) PROVE NoDuplicates(a)
  <2>1. 1..k \subseteq 1..Len(q)
    BY <1>1
  <2> QED
    BY <1>2, <1>8, <2>1 DEF NoDuplicates
<1>9. ASSUME NoDuplicates(q) PROVE NoDuplicates(b)
  <2> SUFFICES ASSUME NEW i \in 1..Len(b), NEW j \in 1..Len(b), b[i] = b[j] PROVE i = j
    BY DEF NoDuplicates
  <2>1. k + i \in 1..Len(q) /\ k + j \in 1..Len(q) /\ q[k + i] = q[k + j]
    BY <1>1, <1>3
  <2>2. k + i = k + j
    BY <1>9, <2>1 DEF NoDuplicates
  <2> QED
    BY <1>1, <1>3, <2>2
<1>10. ASSUME NoDuplicates(q), NEW e \in ToSet(a), e \in ToSet(b) PROVE FALSE
  <2>1. PICK i \in 1..k : q[i] = e
    BY <1>5
  <2>2. PICK j \in (k + 1)..Len(q) : q[j] = e
    BY <1>6, <1>10
  <2>3. i \in 1..Len(q) /\ j \in 1..Len(q) /\ i # j
    BY <1>1
  <2> QED
    BY <1>10, <2>1, <2>2, <2>3 DEF NoDuplicates
<1> QED
  BY <1>0, <1>2, <1>3, <1>5, <1>6, <1>7, <1>8, <1>9, <1>10 DEF FirstOf, RestOf

(* Two queues are put together. *)
LEMMA Joins ==
  ASSUME NEW a \in Seq(Ecbs), NEW b \in Seq(Ecbs)
  PROVE  /\ a \o b \in Seq(Ecbs) /\ ToSet(a \o b) = ToSet(a) \union ToSet(b)
         /\ NoDuplicates(a) /\ NoDuplicates(b) /\ (\A e \in ToSet(a) : e \notin ToSet(b))
              => NoDuplicates(a \o b)
<1> DEFINE q == a \o b
<1>1. /\ Len(a) \in Nat /\ Len(b) \in Nat /\ q \in Seq(Ecbs) /\ Len(q) = Len(a) + Len(b)
      /\ \A i \in 1..Len(q) : q[i] = IF i <= Len(a) THEN a[i] ELSE b[i - Len(a)]
  OBVIOUS
<1> HIDE DEF q
<1>2. /\ ToSet(a) = {a[i] : i \in 1..Len(a)} /\ ToSet(b) = {b[i] : i \in 1..Len(b)}
      /\ ToSet(q) = {q[i] : i \in 1..Len(q)}
  BY <1>1, Elements
<1>3. \A i \in 1..Len(a) : i \in 1..Len(q) /\ q[i] = a[i]
  BY <1>1
<1>4. \A i \in 1..Len(b) : Len(a) + i \in 1..Len(q) /\ q[Len(a) + i] = b[i]
  <2> TAKE i \in 1..Len(b)
  <2>1. Len(a) + i \in 1..Len(q) /\ ~(Len(a) + i <= Len(a)) /\ (Len(a) + i) - Len(a) = i
    BY <1>1
  <2> QED
    BY <1>1, <2>1
<1>5. \A i \in 1..Len(q) : \/ i \in 1..Len(a) /\ q[i] = a[i]
                           \/ i - Len(a) \in 1..Len(b) /\ q[i] = b[i - Len(a)]
  BY <1>1
<1>6. ToSet(q) = ToSet(a) \union ToSet(b)
  BY ZenonT(60), <1>2, <1>3, <1>4, <1>5
<1>7. ASSUME NoDuplicates(a), NoDuplicates(b), \A e \in ToSet(a) : e \notin ToSet(b)
      PROVE  NoDuplicates(q)
  <2> SUFFICES ASSUME NEW i \in 1..Len(q), NEW j \in 1..Len(q), q[i] = q[j] PROVE i = j
    BY DEF NoDuplicates
  <2>1. CASE i \in 1..Len(a) /\ q[i] = a[i]
    <3>1. q[i] \in ToSet(a)
      BY <1>2, <2>1
    <3>2. j \in 1..Len(a) /\ q[j] = a[j]
      <4>1. CASE j - Len(a) \in 1..Len(b) /\ q[j] = b[j - Len(a)]
        BY <1>2, <1>7, <3>1, <4>1
      <4> QED
        BY <1>5, <4>1
    <3> QED
      BY <1>7, <2>1, <3>2 DEF NoDuplicates
  <2>2. CASE i - Len(a) \in 1..Len(b) /\ q[i] = b[i - Len(a)]
    <3>1. q[i] \in ToSet(b)
      BY <1>2, <2>2
    <3>2. j - Len(a) \in 1..Len(b) /\ q[j] = b[j - Len(a)]
      <4>1. CASE j \in 1..Len(a) /\ q[j] = a[j]
        BY <1>2, <1>7, <3>1, <4>1
      <4> QED
        BY <1>5, <4>1
    <3>3. i - Len(a) = j - Len(a)
      BY <1>7, <2>2, <3>2 DEF NoDuplicates
    <3> QED
      BY <1>1, <3>3
  <2> QED
    BY <1>5, <2>1, <2>2
<1> QED
  BY <1>1, <1>6, <1>7 DEF q

(* An event at the end of a queue. *)
LEMMA Single ==
  ASSUME NEW e \in Ecbs
  PROVE  <<e>> \in Seq(Ecbs) /\ ToSet(<<e>>) = {e} /\ NoDuplicates(<<e>>)
<1>1. <<e>> \in Seq(Ecbs) /\ Len(<<e>>) = 1 /\ <<e>>[1] = e
  OBVIOUS
<1>2. ToSet(<<e>>) = {<<e>>[i] : i \in 1..1}
  BY <1>1, Elements
<1>3. \A i \in 1..1 : i = 1
  OBVIOUS
<1> QED
  BY <1>1, <1>2, <1>3 DEF NoDuplicates

(* An event is appended to a queue. *)
LEMMA Appended ==
  ASSUME NEW q \in Seq(Ecbs), NEW e \in Ecbs
  PROVE  Append(q, e) \in Seq(Ecbs) /\ ToSet(Append(q, e)) = ToSet(q) \union {e}
<1>1. Append(q, e) = q \o <<e>>
  OBVIOUS
<1> QED
  BY <1>1, Single, Joins

(* The smallest of some numbers. *)
LEMMA Minimum ==
  ASSUME NEW n \in Nat, NEW S \in SUBSET (1..n), S # {}
  PROVE  Min(S) \in S
<1> DEFINE Up(i) == {j \in S : j <= i}
<1>1. IsFiniteSet(S) /\ Cardinality(S) \in Nat
  <2>1. IsFiniteSet(1..n)
    BY FS_Interval
  <2>2. IsFiniteSet(S)
    BY <2>1, FS_Subset
  <2> QED
    BY <2>2, FS_CardinalityType
<1>2. Cardinality(S) # 0
  BY <1>1, FS_EmptySet
<1>3. 1 \in 1..Cardinality(S)
  BY <1>1, <1>2
<1>4. PICK i \in S : Cardinality(Up(i)) = 1
  <2>1. \A k \in 1..Cardinality(S) : \E i \in S : Cardinality(Up(i)) = k
    BY Ranks
  <2> QED
    BY <1>3, <2>1
<1>5. IsFiniteSet(Up(i))
  <2>1. Up(i) \in SUBSET S
    OBVIOUS
  <2> QED
    BY <1>1, <2>1, FS_Subset
<1>6. PICK x : Up(i) = {x}
  BY <1>4, <1>5, FS_Singleton
<1>7. \A j \in S : i <= j
  <2>1. i \in Up(i)
    OBVIOUS
  <2>2. ASSUME NEW j \in S, ~(i <= j) PROVE FALSE
    <3>1. j \in Up(i) /\ j # i
      BY <2>2
    <3> QED
      BY <1>6, <2>1, <3>1
  <2> QED
    BY <2>2
<1> QED
  BY <1>7 DEF Min

(* The place of a waiter in a queue does not matter to who is in it. *)
LEMMA Inserted ==
  ASSUME NEW q \in Seq(Ecbs), NEW e \in Ecbs, NEW n
  PROVE  Insert(q, e, n) \in Seq(Ecbs) /\ ToSet(Insert(q, e, n)) = ToSet(q) \union {e}
<1> DEFINE Behind == {i \in 1..Len(q) : ecb[q[i]].counter >= n}
           i == Min(Behind)
           a == SubSeq(q, 1, i - 1)
           b == SubSeq(q, i, Len(q))
<1>1. CASE Behind = {} \/ ecb[q[1]].counter = n
  <2>1. Insert(q, e, n) = Append(q, e)
    BY <1>1 DEF Insert
  <2> QED
    BY <2>1, Appended
<1>2. CASE Behind # {} /\ ecb[q[1]].counter # n
  <2>1. Insert(q, e, n) = InsertAt(q, i, e)
    BY <1>2 DEF Insert
  <2>2. Behind \in SUBSET (1..Len(q)) /\ Len(q) \in Nat
    OBVIOUS
  <2>3. i \in Behind
    <3> HIDE DEF Behind
    <3> QED
      BY <1>2, <2>2, Minimum
  <2>4. i \in 1..Len(q)
    BY <2>2, <2>3
  <2> HIDE DEF i
  <2>5. i - 1 \in 0..Len(q) /\ (i - 1) + 1 = i
    BY <2>2, <2>4
  <2>6. a \in Seq(Ecbs) /\ b \in Seq(Ecbs) /\ ToSet(q) = ToSet(a) \union ToSet(b)
    <3>1. a = FirstOf(q, i - 1) /\ b = RestOf(q, i - 1)
      BY <2>5 DEF FirstOf, RestOf
    <3> HIDE DEF a, b
    <3> QED
      BY <2>5, <3>1, Splits
  <2>7. Insert(q, e, n) = (a \o <<e>>) \o b
    BY <2>1 DEF InsertAt
  <2> HIDE DEF a, b
  <2>8. a \o <<e>> \in Seq(Ecbs) /\ ToSet(a \o <<e>>) = ToSet(a) \union {e}
    BY ZenonT(60), <2>6, Single, Joins
  <2>9. (a \o <<e>>) \o b \in Seq(Ecbs) /\ ToSet((a \o <<e>>) \o b) = ToSet(a \o <<e>>) \union ToSet(b)
    BY ONLY <2>6, <2>8, Joins
  <2> QED
    BY <2>6, <2>7, <2>8, <2>9
<1> QED
  BY <1>1, <1>2
--------------------------------------------------------------------------------
(***************************************************************************)
(* What makes an event wait.                                               *)
(***************************************************************************)
(* One event type of a state is replaced. *)
PutType(s, t, y) == [s EXCEPT !.evtt = [s.evtt EXCEPT ![t] = y]]

(* The fields of the state then. *)
LEMMA PutTypeFields ==
  ASSUME NEW s \in StateType, NEW t \in Evtts, NEW y \in EvttType
  PROVE  LET r == PutType(s, t, y)
         IN  /\ r \in StateType /\ r.ecb = s.ecb /\ r.memq = s.memq /\ r.mem = s.mem
             /\ r.dead = s.dead /\ \A u \in Evtts : r.evtt[u] = IF u = t THEN y ELSE s.evtt[u]
<1> DEFINE T == [s.evtt EXCEPT ![t] = y]
<1>1. T \in [Evtts -> EvttType] /\ \A u \in Evtts : T[u] = IF u = t THEN y ELSE s.evtt[u]
  BY StateFields
<1> HIDE DEF T
<1>2. PutType(s, t, y) = [s EXCEPT !.evtt = T]
  BY DEF PutType, T
<1> QED
  BY <1>1, <1>2 DEF StateType

(* One event of a state is replaced. *)
PutEvent(s, e, x) == [s EXCEPT !.ecb = [s.ecb EXCEPT ![e] = x]]

(* The fields of the state then. *)
LEMMA PutEventFields ==
  ASSUME NEW s \in StateType, NEW e \in Ecbs, NEW x \in EcbType
  PROVE  LET r == PutEvent(s, e, x)
         IN  /\ r \in StateType /\ r.evtt = s.evtt /\ r.memq = s.memq /\ r.mem = s.mem
             /\ r.dead = s.dead /\ \A w \in Ecbs : r.ecb[w] = IF w = e THEN x ELSE s.ecb[w]
<1> DEFINE E == [s.ecb EXCEPT ![e] = x]
<1>1. E \in [Ecbs -> EcbType] /\ \A w \in Ecbs : E[w] = IF w = e THEN x ELSE s.ecb[w]
  BY StateFields
<1> HIDE DEF E
<1>2. PutEvent(s, e, x) = [s EXCEPT !.ecb = E]
  BY DEF PutEvent, E
<1> QED
  BY <1>1, <1>2 DEF StateType

(* An event that begins to wait. *)
LEMMA WaitingFields ==
  ASSUME NEW s \in StateType, NEW e \in Ecbs, NEW p \in Places, NEW n \in Int
  PROVE  LET r == Waiting(s, e, p, n)
         IN  /\ r \in StateType /\ r.evtt = s.evtt /\ r.memq = s.memq /\ r.mem = s.mem
             /\ r.dead = s.dead
             /\ \A w \in Ecbs : /\ r.ecb[w].place = IF w = e THEN p ELSE s.ecb[w].place
                                /\ r.ecb[w].type = s.ecb[w].type /\ r.ecb[w].vm = s.ecb[w].vm
                                /\ r.ecb[w].sync = s.ecb[w].sync
<1> DEFINE x == [s.ecb[e] EXCEPT !.place = p, !.counter = n]
<1>1. /\ x \in EcbType /\ x.place = p /\ x.type = s.ecb[e].type /\ x.vm = s.ecb[e].vm
      /\ x.sync = s.ecb[e].sync
  BY EventFields DEF EcbType
<1>2. Waiting(s, e, p, n) = PutEvent(s, e, x)
  BY StateFields DEF Waiting, PutEvent
<1> HIDE DEF x
<1>3. /\ PutEvent(s, e, x) \in StateType /\ PutEvent(s, e, x).evtt = s.evtt
      /\ PutEvent(s, e, x).memq = s.memq /\ PutEvent(s, e, x).mem = s.mem
      /\ PutEvent(s, e, x).dead = s.dead
      /\ \A w \in Ecbs : PutEvent(s, e, x).ecb[w] = IF w = e THEN x ELSE s.ecb[w]
  BY <1>1, PutEventFields
<1> QED
  BY <1>1, <1>2, <1>3

(***************************************************************************)
(* An event that is ready begins to wait: it enters one queue.             *)
(***************************************************************************)
Waited(s, r, e, p) ==
  /\ r \in StateType /\ r.memq = s.memq /\ s.ecb[e].place = "ready"
  /\ \A w \in Ecbs : /\ r.ecb[w].place = IF w = e THEN p ELSE s.ecb[w].place
                     /\ r.ecb[w].type = s.ecb[w].type /\ r.ecb[w].vm = s.ecb[w].vm
                     /\ s.ecb[w].place = "free" => r.ecb[w].sync = s.ecb[w].sync
  /\ \A t \in Evtts : SameCounts(s, r, t) /\ r.evtt[t].deleting = s.evtt[t].deleting

WaitPlaces == {"event", "done", "pop"}
OnlyPlace(s, r, e, p) ==
  /\ PlaceOf(s)[e] = "ready" /\ PlaceOf(r)[e] = p
  /\ \A w \in Ecbs \ {e} : PlaceOf(r)[w] = PlaceOf(s)[w]

(* That changes nothing Core speaks about, nor the other queues. *)
LEMMA WaitKeeps ==
  ASSUME NEW s, NEW r, NEW h, NEW e \in Ecbs, NEW p \in WaitPlaces,
         Core(s, h), Waits(s), Waited(s, r, e, p)
  PROVE  Core(r, h) /\ MemQueue(r) /\ OnlyPlace(s, r, e, p)
<1>1. \A w \in Ecbs : SameEvent(s, r, w)
  BY DEF Waited, SameEvent, Lacks, WaitPlaces
<1>2. Core(r, h)
  BY <1>1, CoreKept DEF Waited
<1>3. MemQueue(r)
  BY DEF Waits, MemQueue, Waited, WaitPlaces
<1>4. PlaceOf(r)[e] = p /\ \A w \in Ecbs \ {e} : PlaceOf(r)[w] = PlaceOf(s)[w]
  BY DEF PlaceOf, Waited
<1> QED
  BY <1>2, <1>3, <1>4 DEF PlaceOf, Waited, OnlyPlace

(* Queues nobody enters. *)
LEMMA HoldSame ==
  ASSUME NEW F, NEW G, NEW D, NEW pl, NEW pl2, NEW p, Hold(F, D, pl, p),
         \A x \in D : G[x] = F[x], \A w \in Ecbs : pl2[w] = p <=> pl[w] = p
  PROVE  Hold(G, D, pl2, p)
  BY SMTT(60) DEF Hold

(* Djy_WaitEventCompleted, and Djy_EventPop with a timeout: event e waits for x. *)
LEMMA JoinEvent ==
  ASSUME NEW s, NEW h, Core(s, h), Waits(s), NEW e \in Ecbs, NEW x \in Ecbs,
         s.ecb[e].place = "ready", s.ecb[x].place # "free"
  PROVE  LET r == [Waiting(s, e, "event", 0) EXCEPT !.ecb[x].sync = Append(@, e)]
         IN  Core(r, h) /\ Waits(r)
<1> DEFINE m == Waiting(s, e, "event", 0)
           q == Append(m.ecb[x].sync, e)
           z == [m.ecb[x] EXCEPT !.sync = q]
           r == [m EXCEPT !.ecb[x].sync = Append(@, e)]
<1>1. s \in StateType
  BY DEF Core
<1>2. /\ m \in StateType /\ m.evtt = s.evtt /\ m.memq = s.memq
      /\ \A w \in Ecbs : /\ m.ecb[w].place = IF w = e THEN "event" ELSE s.ecb[w].place
                         /\ m.ecb[w].type = s.ecb[w].type /\ m.ecb[w].vm = s.ecb[w].vm
                         /\ m.ecb[w].sync = s.ecb[w].sync
  BY <1>1, WaitingFields DEF Places
<1> HIDE DEF m
<1>3. m.ecb[x] \in EcbType /\ m.ecb[x].sync \in Seq(Ecbs)
  BY <1>2, EventFields
<1>4. q \in Seq(Ecbs) /\ ToSet(q) = ToSet(m.ecb[x].sync) \union {e}
  BY <1>3, Appended
<1>5. r = PutEvent(m, x, z)
  BY <1>2, StateFields DEF PutEvent
<1> HIDE DEF q
<1>6. /\ z \in EcbType /\ z.sync = q /\ z.place = m.ecb[x].place /\ z.type = m.ecb[x].type
      /\ z.vm = m.ecb[x].vm
  BY ONLY <1>3, <1>4, SyncField
<1> HIDE DEF z, r
<1>7. /\ r \in StateType /\ r.evtt = m.evtt /\ r.memq = m.memq
      /\ \A w \in Ecbs : r.ecb[w] = IF w = x THEN z ELSE m.ecb[w]
  BY ONLY <1>2, <1>5, <1>6, x \in Ecbs, PutEventFields
<1>8. Waited(s, r, e, "event")
  <2>1. \A w \in Ecbs : /\ r.ecb[w].place = IF w = e THEN "event" ELSE s.ecb[w].place
                        /\ r.ecb[w].type = s.ecb[w].type /\ r.ecb[w].vm = s.ecb[w].vm
                        /\ s.ecb[w].place = "free" => r.ecb[w].sync = s.ecb[w].sync
    BY <1>2, <1>6, <1>7
  <2> QED
    BY <1>2, <1>7, <2>1 DEF Waited, SameCounts
<1>9. /\ Core(r, h) /\ MemQueue(r) /\ PlaceOf(s)[e] = "ready"
       /\ PlaceOf(r)[e] = "event" /\ \A w \in Ecbs \ {e} : PlaceOf(r)[w] = PlaceOf(s)[w]
  <2>1. "event" \in WaitPlaces
    BY DEF WaitPlaces
  <2>2. Core(r, h) /\ MemQueue(r) /\ OnlyPlace(s, r, e, "event")
    BY <1>8, <2>1, WaitKeeps
  <2> QED
    BY <2>2 DEF OnlyPlace
<1>10. Hold(SyncOf(r), Ecbs, PlaceOf(r), "event")
  <2>1. SyncOf(r)[x] = SyncOf(s)[x] \union {e}
    BY <1>2, <1>4, <1>6, <1>7 DEF SyncOf
  <2>2. \A w \in Ecbs \ {x} : SyncOf(r)[w] = SyncOf(s)[w]
    BY <1>2, <1>7 DEF SyncOf
  <2>3. PlaceOf(s)[e] # "event" /\ PlaceOf(r)[e] = "event"
    BY <1>9
  <2>4. \A w \in Ecbs \ {e} : PlaceOf(r)[w] = "event" <=> PlaceOf(s)[w] = "event"
    BY <1>9
  <2>5. Hold(SyncOf(s), Ecbs, PlaceOf(s), "event")
    BY DEF Waits
  <2> QED
    BY <2>1, <2>2, <2>3, <2>4, <2>5, HoldEnter
<1>11. Hold(DoneOf(r), Evtts, PlaceOf(r), "done")
  <2>1. \A t \in Evtts : DoneOf(r)[t] = DoneOf(s)[t]
    BY <1>2, <1>7 DEF DoneOf
  <2>2. \A w \in Ecbs : PlaceOf(r)[w] = "done" <=> PlaceOf(s)[w] = "done"
    BY <1>9
  <2> QED
    BY <2>1, <2>2, HoldSame DEF Waits
<1>12. Hold(PopOf(r), Evtts, PlaceOf(r), "pop")
  <2>1. \A t \in Evtts : PopOf(r)[t] = PopOf(s)[t]
    BY <1>2, <1>7 DEF PopOf
  <2>2. \A w \in Ecbs : PlaceOf(r)[w] = "pop" <=> PlaceOf(s)[w] = "pop"
    BY <1>9
  <2> QED
    BY <2>1, <2>2, HoldSame DEF Waits
<1>13. NobodyLeft(r)
  BY SMTT(60), <1>2, <1>7 DEF Waits, NobodyLeft
<1> QED
  BY <1>9, <1>10, <1>11, <1>12, <1>13 DEF Waits, r, m

(* Djy_WaitEvttCompleted: event e waits for completions of type t. *)
LEMMA JoinDone ==
  ASSUME NEW s, NEW h, Core(s, h), Waits(s), NEW e \in Ecbs, NEW t \in Evtts, NEW n \in Int,
         s.ecb[e].place = "ready", s.evtt[t].registered, ~s.evtt[t].deleting
  PROVE  LET r == [Waiting(s, e, "done", n) EXCEPT !.evtt[t].done_sync = Insert(@, e, n)]
         IN  Core(r, h) /\ Waits(r)
<1> DEFINE m == Waiting(s, e, "done", n)
           q == Insert(m.evtt[t].done_sync, e, n)
           y == [m.evtt[t] EXCEPT !.done_sync = q]
           r == [m EXCEPT !.evtt[t].done_sync = Insert(@, e, n)]
<1>1. s \in StateType
  BY DEF Core
<1>2. /\ m \in StateType /\ m.evtt = s.evtt /\ m.memq = s.memq
      /\ \A w \in Ecbs : /\ m.ecb[w].place = IF w = e THEN "done" ELSE s.ecb[w].place
                         /\ m.ecb[w].type = s.ecb[w].type /\ m.ecb[w].vm = s.ecb[w].vm
                         /\ m.ecb[w].sync = s.ecb[w].sync
  BY <1>1, WaitingFields DEF Places
<1> HIDE DEF m
<1>3. m.evtt[t] \in EvttType /\ m.evtt[t].done_sync \in Seq(Ecbs)
  BY <1>2, TypeFields
<1>4. q \in Seq(Ecbs) /\ ToSet(q) = ToSet(m.evtt[t].done_sync) \union {e}
  BY <1>3, Inserted
<1>5. r = PutType(m, t, y)
  BY <1>2, StateFields DEF PutType
<1> HIDE DEF q
<1>6. /\ y \in EvttType /\ y.done_sync = q /\ y.pop_sync = m.evtt[t].pop_sync
      /\ y.deleting = m.evtt[t].deleting /\ y.registered = m.evtt[t].registered
      /\ y.inuse = m.evtt[t].inuse /\ y.kind = m.evtt[t].kind /\ y.events = m.evtt[t].events
      /\ y.vpus = m.evtt[t].vpus /\ y.free_vm = m.evtt[t].free_vm /\ y.mark = m.evtt[t].mark
  BY ONLY <1>3, <1>4, DoneField
<1> HIDE DEF y, r
<1>7. /\ r \in StateType /\ r.ecb = m.ecb /\ r.memq = m.memq
      /\ \A u \in Evtts : r.evtt[u] = IF u = t THEN y ELSE m.evtt[u]
  BY ONLY <1>2, <1>5, <1>6, t \in Evtts, PutTypeFields
<1>8. Waited(s, r, e, "done")
  <2>1. \A w \in Ecbs : /\ r.ecb[w].place = IF w = e THEN "done" ELSE s.ecb[w].place
                        /\ r.ecb[w].type = s.ecb[w].type /\ r.ecb[w].vm = s.ecb[w].vm
                        /\ s.ecb[w].place = "free" => r.ecb[w].sync = s.ecb[w].sync
    BY <1>2, <1>7
  <2>2. \A u \in Evtts : SameCounts(s, r, u) /\ r.evtt[u].deleting = s.evtt[u].deleting
    BY <1>2, <1>6, <1>7 DEF SameCounts
  <2> QED
    BY <1>2, <1>7, <2>1, <2>2 DEF Waited
<1>9. /\ Core(r, h) /\ MemQueue(r) /\ PlaceOf(s)[e] = "ready"
       /\ PlaceOf(r)[e] = "done" /\ \A w \in Ecbs \ {e} : PlaceOf(r)[w] = PlaceOf(s)[w]
  <2>1. "done" \in WaitPlaces
    BY DEF WaitPlaces
  <2>2. Core(r, h) /\ MemQueue(r) /\ OnlyPlace(s, r, e, "done")
    BY <1>8, <2>1, WaitKeeps
  <2> QED
    BY <2>2 DEF OnlyPlace
<1>10. Hold(SyncOf(r), Ecbs, PlaceOf(r), "event")
  <2>1. \A w \in Ecbs : SyncOf(r)[w] = SyncOf(s)[w]
    BY <1>2, <1>7 DEF SyncOf
  <2>2. \A w \in Ecbs : PlaceOf(r)[w] = "event" <=> PlaceOf(s)[w] = "event"
    BY <1>9
  <2> QED
    BY <2>1, <2>2, HoldSame DEF Waits
<1>11. Hold(DoneOf(r), Evtts, PlaceOf(r), "done")
  <2>1. DoneOf(r)[t] = DoneOf(s)[t] \union {e}
    BY <1>2, <1>4, <1>6, <1>7 DEF DoneOf
  <2>2. \A u \in Evtts \ {t} : DoneOf(r)[u] = DoneOf(s)[u]
    BY <1>2, <1>7 DEF DoneOf
  <2>3. PlaceOf(s)[e] # "done" /\ PlaceOf(r)[e] = "done"
    BY <1>9
  <2>4. \A w \in Ecbs \ {e} : PlaceOf(r)[w] = "done" <=> PlaceOf(s)[w] = "done"
    BY <1>9
  <2>5. Hold(DoneOf(s), Evtts, PlaceOf(s), "done")
    BY DEF Waits
  <2> QED
    BY <2>1, <2>2, <2>3, <2>4, <2>5, HoldEnter
<1>12. Hold(PopOf(r), Evtts, PlaceOf(r), "pop")
  <2>1. \A u \in Evtts : PopOf(r)[u] = PopOf(s)[u]
    BY <1>2, <1>6, <1>7 DEF PopOf
  <2>2. \A w \in Ecbs : PlaceOf(r)[w] = "pop" <=> PlaceOf(s)[w] = "pop"
    BY <1>9
  <2> QED
    BY <2>1, <2>2, HoldSame DEF Waits
<1>13. NobodyLeft(r)
  BY SMTT(60), <1>2, <1>6, <1>7 DEF Waits, NobodyLeft
<1> QED
  BY <1>9, <1>10, <1>11, <1>12, <1>13 DEF Waits, r, m

(* Djy_WaitEvttPop: event e waits for pops of type t. *)
LEMMA JoinPop ==
  ASSUME NEW s, NEW h, Core(s, h), Waits(s), NEW e \in Ecbs, NEW t \in Evtts, NEW n \in Int,
         s.ecb[e].place = "ready", s.evtt[t].registered, ~s.evtt[t].deleting
  PROVE  LET r == [Waiting(s, e, "pop", n) EXCEPT !.evtt[t].pop_sync = Insert(@, e, n)]
         IN  Core(r, h) /\ Waits(r)
<1> DEFINE m == Waiting(s, e, "pop", n)
           q == Insert(m.evtt[t].pop_sync, e, n)
           y == [m.evtt[t] EXCEPT !.pop_sync = q]
           r == [m EXCEPT !.evtt[t].pop_sync = Insert(@, e, n)]
<1>1. s \in StateType
  BY DEF Core
<1>2. /\ m \in StateType /\ m.evtt = s.evtt /\ m.memq = s.memq
      /\ \A w \in Ecbs : /\ m.ecb[w].place = IF w = e THEN "pop" ELSE s.ecb[w].place
                         /\ m.ecb[w].type = s.ecb[w].type /\ m.ecb[w].vm = s.ecb[w].vm
                         /\ m.ecb[w].sync = s.ecb[w].sync
  BY <1>1, WaitingFields DEF Places
<1> HIDE DEF m
<1>3. m.evtt[t] \in EvttType /\ m.evtt[t].pop_sync \in Seq(Ecbs)
  BY <1>2, TypeFields
<1>4. q \in Seq(Ecbs) /\ ToSet(q) = ToSet(m.evtt[t].pop_sync) \union {e}
  BY <1>3, Inserted
<1>5. r = PutType(m, t, y)
  BY <1>2, StateFields DEF PutType
<1> HIDE DEF q
<1>6. /\ y \in EvttType /\ y.pop_sync = q /\ y.done_sync = m.evtt[t].done_sync
      /\ y.deleting = m.evtt[t].deleting /\ y.registered = m.evtt[t].registered
      /\ y.inuse = m.evtt[t].inuse /\ y.kind = m.evtt[t].kind /\ y.events = m.evtt[t].events
      /\ y.vpus = m.evtt[t].vpus /\ y.free_vm = m.evtt[t].free_vm /\ y.mark = m.evtt[t].mark
  BY ONLY <1>3, <1>4, PopField
<1> HIDE DEF y, r
<1>7. /\ r \in StateType /\ r.ecb = m.ecb /\ r.memq = m.memq
      /\ \A u \in Evtts : r.evtt[u] = IF u = t THEN y ELSE m.evtt[u]
  BY ONLY <1>2, <1>5, <1>6, t \in Evtts, PutTypeFields
<1>8. Waited(s, r, e, "pop")
  <2>1. \A w \in Ecbs : /\ r.ecb[w].place = IF w = e THEN "pop" ELSE s.ecb[w].place
                        /\ r.ecb[w].type = s.ecb[w].type /\ r.ecb[w].vm = s.ecb[w].vm
                        /\ s.ecb[w].place = "free" => r.ecb[w].sync = s.ecb[w].sync
    BY <1>2, <1>7
  <2>2. \A u \in Evtts : SameCounts(s, r, u) /\ r.evtt[u].deleting = s.evtt[u].deleting
    BY <1>2, <1>6, <1>7 DEF SameCounts
  <2> QED
    BY <1>2, <1>7, <2>1, <2>2 DEF Waited
<1>9. /\ Core(r, h) /\ MemQueue(r) /\ PlaceOf(s)[e] = "ready"
       /\ PlaceOf(r)[e] = "pop" /\ \A w \in Ecbs \ {e} : PlaceOf(r)[w] = PlaceOf(s)[w]
  <2>1. "pop" \in WaitPlaces
    BY DEF WaitPlaces
  <2>2. Core(r, h) /\ MemQueue(r) /\ OnlyPlace(s, r, e, "pop")
    BY <1>8, <2>1, WaitKeeps
  <2> QED
    BY <2>2 DEF OnlyPlace
<1>10. Hold(SyncOf(r), Ecbs, PlaceOf(r), "event")
  <2>1. \A w \in Ecbs : SyncOf(r)[w] = SyncOf(s)[w]
    BY <1>2, <1>7 DEF SyncOf
  <2>2. \A w \in Ecbs : PlaceOf(r)[w] = "event" <=> PlaceOf(s)[w] = "event"
    BY <1>9
  <2> QED
    BY <2>1, <2>2, HoldSame DEF Waits
<1>11. Hold(PopOf(r), Evtts, PlaceOf(r), "pop")
  <2>1. PopOf(r)[t] = PopOf(s)[t] \union {e}
    BY <1>2, <1>4, <1>6, <1>7 DEF PopOf
  <2>2. \A u \in Evtts \ {t} : PopOf(r)[u] = PopOf(s)[u]
    BY <1>2, <1>7 DEF PopOf
  <2>3. PlaceOf(s)[e] # "pop" /\ PlaceOf(r)[e] = "pop"
    BY <1>9
  <2>4. \A w \in Ecbs \ {e} : PlaceOf(r)[w] = "pop" <=> PlaceOf(s)[w] = "pop"
    BY <1>9
  <2>5. Hold(PopOf(s), Evtts, PlaceOf(s), "pop")
    BY DEF Waits
  <2> QED
    BY <2>1, <2>2, <2>3, <2>4, <2>5, HoldEnter
<1>12. Hold(DoneOf(r), Evtts, PlaceOf(r), "done")
  <2>1. \A u \in Evtts : DoneOf(r)[u] = DoneOf(s)[u]
    BY <1>2, <1>6, <1>7 DEF DoneOf
  <2>2. \A w \in Ecbs : PlaceOf(r)[w] = "done" <=> PlaceOf(s)[w] = "done"
    BY <1>9
  <2> QED
    BY <2>1, <2>2, HoldSame DEF Waits
<1>13. NobodyLeft(r)
  BY <1>2, <1>6, <1>7 DEF Waits, NobodyLeft
<1> QED
  BY SMTT(60), <1>9, <1>10, <1>11, <1>12, <1>13 DEF Waits, r, m

--------------------------------------------------------------------------------
(***************************************************************************)
(* What makes an event: Djy_EventPop.                                      *)
(***************************************************************************)
(* Finite sets of events. *)
LEMMA Counts ==
  ASSUME NEW S \in SUBSET Ecbs
  PROVE  /\ IsFiniteSet(S) /\ Cardinality(S) \in Nat
         /\ Cardinality(S) = 0 <=> S = {}
         /\ \A e : e \in S => Cardinality(S \ {e}) = Cardinality(S) - 1
         /\ \A e : e \notin S => Cardinality(S \union {e}) = Cardinality(S) + 1
<1>1. IsFiniteSet(S)
  BY EvttAssumption, FS_Subset
<1>2. Cardinality(S) \in Nat
  BY <1>1, FS_CardinalityType
<1>3. Cardinality(S) = 0 <=> S = {}
  BY <1>1, FS_EmptySet
<1>4. \A e : e \in S => Cardinality(S \ {e}) = Cardinality(S) - 1
  BY <1>1, FS_RemoveElement
<1>5. \A e : e \notin S => Cardinality(S \union {e}) = Cardinality(S) + 1
  BY <1>1, FS_AddElement
<1> QED
  BY <1>1, <1>2, <1>3, <1>4, <1>5

(* The sets of events that are counted. *)
LEMMA Sets ==
  ASSUME NEW s, NEW t
  PROVE  Of(s, t) \in SUBSET Ecbs /\ Busy(s, t) \in SUBSET Of(s, t) /\ Busy(s, t) \in SUBSET Ecbs
         /\ Lacking(s, t) \in SUBSET Of(s, t)
  BY DEF Of, Busy, Lacking

(* Nobody enters or leaves a queue. *)
LEMMA QueuesSame ==
  ASSUME NEW s, NEW r, Waits(s), r.memq = s.memq,
         \A w \in Ecbs : /\ r.ecb[w].sync = s.ecb[w].sync
                         /\ \/ r.ecb[w].place = s.ecb[w].place
                            \/ /\ s.ecb[w].place \in {"free", "ready", "none"}
                               /\ r.ecb[w].place \in {"free", "ready", "none"},
         \A t \in Evtts : /\ r.evtt[t].done_sync = s.evtt[t].done_sync
                          /\ r.evtt[t].pop_sync = s.evtt[t].pop_sync,
         NobodyLeft(r)
  PROVE  Waits(r)
<1>1. Hold(SyncOf(r), Ecbs, PlaceOf(r), "event")
  <2>1. \A w \in Ecbs : SyncOf(r)[w] = SyncOf(s)[w]
    BY DEF SyncOf
  <2>2. \A w \in Ecbs : PlaceOf(r)[w] = "event" <=> PlaceOf(s)[w] = "event"
    BY DEF PlaceOf
  <2> QED
    BY <2>1, <2>2, HoldSame DEF Waits
<1>2. Hold(DoneOf(r), Evtts, PlaceOf(r), "done")
  <2>1. \A t \in Evtts : DoneOf(r)[t] = DoneOf(s)[t]
    BY DEF DoneOf
  <2>2. \A w \in Ecbs : PlaceOf(r)[w] = "done" <=> PlaceOf(s)[w] = "done"
    BY DEF PlaceOf
  <2> QED
    BY <2>1, <2>2, HoldSame DEF Waits
<1>3. Hold(PopOf(r), Evtts, PlaceOf(r), "pop")
  <2>1. \A t \in Evtts : PopOf(r)[t] = PopOf(s)[t]
    BY DEF PopOf
  <2>2. \A w \in Ecbs : PlaceOf(r)[w] = "pop" <=> PlaceOf(s)[w] = "pop"
    BY DEF PlaceOf
  <2> QED
    BY <2>1, <2>2, HoldSame DEF Waits
<1>4. MemQueue(r)
  BY DEF Waits, MemQueue
<1> QED
  BY <1>1, <1>2, <1>3, <1>4 DEF Waits

(* A control block in the free list. *)
LEMMA FreeFields ==
  /\ FreeEcb \in EcbType /\ FreeEcb.place = "free" /\ FreeEcb.type = NoEvtt
  /\ FreeEcb.vm = FALSE /\ FreeEcb.sync = << >>
<1>1. << >> \in Seq(Ecbs) /\ "free" \in Places /\ 0 \in Int /\ NoEvtt \in Evtts \union {NoEvtt}
  BY DEF Places
<1> QED
  BY <1>1 DEF FreeEcb, EcbType

(* Djy_EventPop puts a new event of type t into the free control block e. *)
LEMMA NewEventSafe ==
  ASSUME NEW s, NEW h, Core(s, h), Waits(s), NEW e \in Ecbs, NEW t \in Evtts,
         s.ecb[e].place = "free", s.evtt[t].registered,
         s.evtt[t].kind.correlative => ~s.evtt[t].inuse
  PROVE  LET r == NewEvent(s, t, e)
         IN  /\ Core(r, h) /\ Waits(r)
             /\ r.ecb[e].place = "ready" /\ \A w \in Ecbs \ {e} : r.ecb[w] = s.ecb[w]
<1> DEFINE x == [FreeEcb EXCEPT !.place = "ready", !.type = t]
           y == [s.evtt[t] EXCEPT !.events = @ + 1, !.inuse = TRUE,
                                  !.mark = IF s.evtt[t].kind.correlative THEN <<e>> ELSE @]
           r == NewEvent(s, t, e)
<1>1. s \in StateType /\ s.evtt[t] \in EvttType /\ Live(s)
  BY TypeFields DEF Core
<1>2. x \in EcbType /\ x.place = "ready" /\ x.type = t /\ x.vm = FALSE /\ x.sync = << >>
  <2>1. FreeEcb \in EcbType /\ FreeEcb.vm = FALSE /\ FreeEcb.sync = << >>
    BY FreeFields
  <2>2. "ready" \in Places /\ t \in Evtts \union {NoEvtt}
    BY DEF Places
  <2> QED
    BY <2>1, <2>2 DEF EcbType
<1>3. /\ y \in EvttType /\ y.registered = s.evtt[t].registered /\ y.deleting = s.evtt[t].deleting
      /\ y.inuse = TRUE /\ y.kind = s.evtt[t].kind /\ y.events = s.evtt[t].events + 1
      /\ y.vpus = s.evtt[t].vpus /\ y.free_vm = s.evtt[t].free_vm
      /\ y.mark = (IF s.evtt[t].kind.correlative THEN <<e>> ELSE s.evtt[t].mark)
      /\ y.done_sync = s.evtt[t].done_sync /\ y.pop_sync = s.evtt[t].pop_sync
  <2> DEFINE q == IF s.evtt[t].kind.correlative THEN <<e>> ELSE s.evtt[t].mark
  <2>1. q \in Seq(Ecbs) /\ s.evtt[t].events + 1 \in Nat
    BY <1>1, Single, TypeFields
  <2>2. y = [s.evtt[t] EXCEPT !.events = s.evtt[t].events + 1, !.inuse = TRUE, !.mark = q]
    OBVIOUS
  <2> HIDE DEF q, y
  <2>3. /\ y \in EvttType /\ y.registered = s.evtt[t].registered /\ y.deleting = s.evtt[t].deleting
        /\ y.inuse = TRUE /\ y.kind = s.evtt[t].kind /\ y.events = s.evtt[t].events + 1
        /\ y.vpus = s.evtt[t].vpus /\ y.free_vm = s.evtt[t].free_vm /\ y.mark = q
        /\ y.done_sync = s.evtt[t].done_sync /\ y.pop_sync = s.evtt[t].pop_sync
    BY <1>1, <2>1, <2>2 DEF EvttType
  <2> QED
    BY <2>3 DEF q
<1> DEFINE A == [s.evtt EXCEPT ![t] = y]
           B == [s.ecb EXCEPT ![e] = x]
<1>4. r = [s EXCEPT !.evtt = A, !.ecb = B]
  BY DEF NewEvent
<1> HIDE DEF x, y, r
<1>5. /\ A \in [Evtts -> EvttType] /\ \A u \in Evtts : A[u] = IF u = t THEN y ELSE s.evtt[u]
      /\ B \in [Ecbs -> EcbType] /\ \A w \in Ecbs : B[w] = IF w = e THEN x ELSE s.ecb[w]
  BY <1>1, <1>2, <1>3, StateFields
<1> HIDE DEF A, B
<1>6. /\ r \in StateType /\ r.memq = s.memq
      /\ \A u \in Evtts : r.evtt[u] = IF u = t THEN y ELSE s.evtt[u]
      /\ \A w \in Ecbs : r.ecb[w] = IF w = e THEN x ELSE s.ecb[w]
  <2>1. r \in StateType /\ r.memq = s.memq /\ r.evtt = A /\ r.ecb = B
    BY <1>1, <1>4, <1>5 DEF StateType
  <2> QED
    BY <1>5, <2>1
<1>7. s.ecb[e].type = NoEvtt /\ ~s.ecb[e].vm /\ s.ecb[e].sync = << >> /\ NoEvtt \notin Evtts
  BY <1>1, EvttAssumption DEF Live
<1>8. /\ e \notin Of(s, t) /\ Of(r, t) = Of(s, t) \union {e}
      /\ \A u \in Evtts \ {t} : Of(r, u) = Of(s, u)
  <2>1. ASSUME NEW u \in Evtts, NEW w \in Ecbs
        PROVE  w \in Of(r, u) <=> w \in Of(s, u) \/ (w = e /\ u = t)
    BY <1>2, <1>6, <1>7 DEF Of
  <2>2. e \notin Of(s, t)
    BY DEF Of
  <2>3. \A u : Of(r, u) \subseteq Ecbs /\ Of(s, u) \subseteq Ecbs
    BY DEF Of
  <2> QED
    BY <2>1, <2>2, <2>3
<1>9. \A u \in Evtts : Busy(r, u) = Busy(s, u)
  BY <1>2, <1>6, <1>7 DEF Busy, Of
<1>10. \A u \in Evtts : Lacking(r, u) = Lacking(s, u)
  BY <1>2, <1>6, <1>7 DEF Lacking, Of, Lacks
<1>11. Live(r)
  BY <1>1, <1>2, <1>6 DEF Live, Lacks
<1>12. Counted(r, h)
  <2>1. Cardinality(Of(r, t)) = Cardinality(Of(s, t)) + 1
    BY <1>8, Sets, Counts
  <2>2. Counted(s, h)
    BY DEF Core
  <2>3. ASSUME NEW u \in Evtts PROVE r.evtt[u].events = Cardinality(Of(r, u))
    BY ZenonT(60), <1>3, <1>6, <1>8, <2>1, <2>2 DEF Counted
  <2>4. ASSUME NEW u \in Evtts
        PROVE  r.evtt[u].vpus = r.evtt[u].free_vm + Cardinality(Busy(r, u)) + (IF u = h THEN 1 ELSE 0)
    BY <1>3, <1>6, <1>9, <2>2 DEF Counted
  <2> QED
    BY <2>3, <2>4 DEF Counted
<1>13. NoIdle(r)
  BY <1>3, <1>6, <1>10 DEF Core, NoIdle
<1>14. Uses(r)
  <2> SUFFICES ASSUME NEW u \in Evtts
               PROVE  /\ ~r.evtt[u].registered => ~r.evtt[u].inuse
                      /\ ~r.evtt[u].inuse => Of(r, u) = {}
                      /\ r.evtt[u].inuse /\ r.evtt[u].kind.correlative => Of(r, u) = {r.evtt[u].mark[1]}
    BY DEF Uses
  <2>1. CASE u # t
    <3>1. r.evtt[u] = s.evtt[u] /\ Of(r, u) = Of(s, u)
      BY <1>6, <1>8, <2>1
    <3> QED
      BY <3>1 DEF Core, Uses
  <2>2. CASE u = t
    <3>1. r.evtt[u] = y
      BY <1>6, <2>2
    <3>2. CASE y.kind.correlative
      <4>1. Of(s, t) = {}
        BY <1>3, <3>2 DEF Core, Uses
      <4>2. y.mark = <<e>> /\ <<e>>[1] = e
        BY <1>3, <3>2
      <4> QED
        BY ZenonT(60), <1>3, <1>8, <2>2, <3>1, <4>1, <4>2
    <3>3. CASE ~y.kind.correlative
      BY <1>3, <3>1, <3>3
    <3> QED
      BY <3>2, <3>3
  <2> QED
    BY <2>1, <2>2
<1>15. Marks(r)
  BY <1>3, <1>6, <1>10 DEF Core, Marks
<1>16. Waits(r)
  <2>1. \A w \in Ecbs : /\ r.ecb[w].sync = s.ecb[w].sync
                        /\ \/ r.ecb[w].place = s.ecb[w].place
                           \/ /\ s.ecb[w].place \in {"free", "ready", "none"}
                              /\ r.ecb[w].place \in {"free", "ready", "none"}
    BY <1>2, <1>6, <1>7
  <2>2. \A u \in Evtts : /\ r.evtt[u].done_sync = s.evtt[u].done_sync
                         /\ r.evtt[u].pop_sync = s.evtt[u].pop_sync
                         /\ r.evtt[u].registered = s.evtt[u].registered
                         /\ r.evtt[u].deleting = s.evtt[u].deleting
    BY <1>3, <1>6
  <2>3. NobodyLeft(r)
    BY <2>2 DEF Waits, NobodyLeft
  <2> QED
    BY <1>6, <2>1, <2>2, <2>3, QueuesSame
<1>17. Core(r, h)
  BY <1>6, <1>11, <1>12, <1>13, <1>14, <1>15 DEF Core
<1> QED
  BY <1>2, <1>6, <1>16, <1>17 DEF r

(* A step to a state with the invariant. *)
LEMMA Becomes ==
  ASSUME NEW r, Core(r, NoEvtt), Waits(r), Become(r)
  PROVE  TypesInv'
<1>1. r \in StateType
  BY DEF Core
<1>2. r = [evtt |-> r.evtt, ecb |-> r.ecb, memq |-> r.memq, mem |-> r.mem, dead |-> r.dead]
  BY <1>1 DEF StateType
<1>3. Now' = r
  BY <1>2 DEF Become, Now
<1>4. Core(Now', NoEvtt) /\ Waits(Now')
  BY <1>3
<1> QED
  BY <1>4 DEF TypesInv

(* The state as a record. *)
LEMMA NowFields == /\ Now.evtt = evtt /\ Now.ecb = ecb /\ Now.memq = memq /\ Now.mem = mem
                   /\ Now.dead = dead
  BY DEF Now

(* Djy_EventPop, after waking the waiters for pops. *)
LEMMA EventPopSafe ==
  ASSUME TypesInv, NEW caller \in Ecbs \union {NoEcb}, NEW hybrid \in Ecbs \union {NoEcb},
         NEW t \in Evtts, NEW wait \in BOOLEAN, EventPop(caller, t, hybrid, wait)
  PROVE  TypesInv'
<1>1. PICK s : s = PopSync(Now, t, hybrid)
  OBVIOUS
<1> DEFINE Free == {e \in Ecbs : s.ecb[e].place = "free"}
           x == IF s.evtt[t].kind.correlative THEN s.evtt[t].mark[1] ELSE hybrid
<1>2. /\ Core(Now, NoEvtt) /\ Waits(Now)
      /\ caller # NoEcb => Now.ecb[caller].place = "ready"
      /\ wait => caller # NoEcb
      /\ hybrid # NoEcb => Now.ecb[hybrid].type = t
      /\ Now.evtt[t].registered /\ ~Now.evtt[t].deleting
  BY NowFields DEF TypesInv, EventPop, Runs
<1>3. /\ Core(s, NoEvtt) /\ Waits(s)
      /\ \A e \in Ecbs : /\ Now.ecb[e].place = "free" <=> s.ecb[e].place = "free"
                         /\ Now.ecb[e].place = "ready" => s.ecb[e].place = "ready"
                         /\ s.ecb[e].type = Now.ecb[e].type
      /\ \A u \in Evtts : SameCounts(Now, s, u) /\ s.evtt[u].deleting = Now.evtt[u].deleting
  BY <1>1, <1>2, PopSyncSafe
<1>4. s \in StateType /\ Live(s) /\ Uses(s)
  BY <1>3 DEF Core
<1>5. s.evtt[t].registered /\ s.evtt[t].kind.correlative \in BOOLEAN /\ s.evtt[t].inuse \in BOOLEAN
  BY <1>2, <1>3, <1>4, TypeFields DEF SameCounts
<1>6. /\ caller # NoEcb => caller \in Ecbs /\ s.ecb[caller].place = "ready"
      /\ hybrid # NoEcb => hybrid \in Ecbs /\ s.ecb[hybrid].place # "free"
  BY <1>2, <1>3, <1>4, EvttAssumption DEF Live
<1>7. \/ Become(s)
      \/ /\ NeedsNewEvent(s, t, hybrid)
         /\ \E e \in Free : Become(PopWait(NewEvent(s, t, e), caller, e, wait))
      \/ /\ ~NeedsNewEvent(s, t, hybrid)
         /\ Become(PopWait(s, caller, x, wait))
  BY <1>1 DEF EventPop
<1>8. CASE Become(s)
  BY <1>3, <1>8, Becomes
<1>9. ASSUME NeedsNewEvent(s, t, hybrid), NEW e \in Free,
             Become(PopWait(NewEvent(s, t, e), caller, e, wait))
      PROVE  TypesInv'
  <2> DEFINE m == NewEvent(s, t, e)
             r == PopWait(m, caller, e, wait)
  <2>1. s.evtt[t].kind.correlative => ~s.evtt[t].inuse
    BY <1>9 DEF NeedsNewEvent
  <2>2. e \in Ecbs /\ s.ecb[e].place = "free"
    OBVIOUS
  <2>3. /\ Core(m, NoEvtt) /\ Waits(m)
        /\ m.ecb[e].place = "ready" /\ \A w \in Ecbs \ {e} : m.ecb[w] = s.ecb[w]
    BY <1>3, <1>5, <2>1, <2>2, NewEventSafe
  <2> HIDE DEF m
  <2>4. Core(r, NoEvtt) /\ Waits(r)
    <3>1. CASE ~wait
      BY SMTT(60), <2>3, <3>1 DEF PopWait
    <3>2. CASE wait
      <4>1. caller \in Ecbs /\ m.ecb[caller].place = "ready"
        BY <1>2, <1>6, <2>2, <2>3, <3>2
      <4>2. r = [Waiting(m, caller, "event", 0) EXCEPT !.ecb[e].sync = Append(@, caller)]
        BY <3>2 DEF PopWait
      <4>3. m.ecb[e].place # "free"
        BY <2>3
      <4> HIDE DEF r
      <4> QED
        BY <2>2, <2>3, <4>1, <4>2, <4>3, JoinEvent
    <3> QED
      BY <3>1, <3>2
  <2>5. Become(r)
    BY <1>9 DEF m
  <2> HIDE DEF r
  <2> QED
    BY <2>4, <2>5, Becomes
<1>10. CASE ~NeedsNewEvent(s, t, hybrid) /\ Become(PopWait(s, caller, x, wait))
  <2> DEFINE r == PopWait(s, caller, x, wait)
  <2>1. s.evtt[t].inuse /\ (s.evtt[t].kind.correlative \/ hybrid # NoEcb)
    BY SMTT(60), <1>10 DEF NeedsNewEvent
  <2>2. x \in Ecbs /\ s.ecb[x].place # "free"
    <3>1. CASE s.evtt[t].kind.correlative
      <4>1. Of(s, t) = {s.evtt[t].mark[1]}
        BY <1>4, <2>1, <3>1 DEF Uses
      <4>2. x \in Of(s, t)
        BY <3>1, <4>1
      <4> HIDE DEF x
      <4> QED
        BY <4>2 DEF Of
    <3>2. CASE ~s.evtt[t].kind.correlative
      BY <1>6, <2>1, <3>2
    <3> QED
      BY ZenonT(30), <3>1, <3>2
  <2> HIDE DEF x
  <2>3. Core(r, NoEvtt) /\ Waits(r)
    <3>1. CASE ~wait
      BY <1>3, <3>1 DEF PopWait
    <3>2. CASE wait
      <4>1. caller \in Ecbs /\ s.ecb[caller].place = "ready"
        BY <1>2, <1>6, <3>2
      <4>2. r = [Waiting(s, caller, "event", 0) EXCEPT !.ecb[x].sync = Append(@, caller)]
        BY <3>2 DEF PopWait
      <4> HIDE DEF r
      <4> QED
        BY <1>3, <2>2, <4>1, <4>2, JoinEvent
    <3> QED
      BY <3>1, <3>2
  <2>4. Become(r)
    BY <1>10
  <2> HIDE DEF r
  <2> QED
    BY <2>3, <2>4, Becomes
<1> QED
  BY <1>7, <1>8, <1>9, <1>10
--------------------------------------------------------------------------------
(***************************************************************************)
(* Threads are handed out and taken back: the types keep what they are.    *)
(***************************************************************************)
Steady(s, r) ==
  \A u \in Evtts :
    /\ r.evtt[u].registered = s.evtt[u].registered /\ r.evtt[u].deleting = s.evtt[u].deleting
    /\ r.evtt[u].inuse = s.evtt[u].inuse /\ r.evtt[u].kind = s.evtt[u].kind
    /\ r.evtt[u].events = s.evtt[u].events
    /\ r.evtt[u].pop_sync = s.evtt[u].pop_sync /\ r.evtt[u].done_sync = s.evtt[u].done_sync
    /\ r.evtt[u].kind.correlative => r.evtt[u].mark = s.evtt[u].mark

(* No event is made or completed, nor starts to wait for an event or a type. *)
SameLives(s, r) ==
  \A e \in Ecbs :
    /\ r.ecb[e].type = s.ecb[e].type /\ r.ecb[e].sync = s.ecb[e].sync
    /\ \/ r.ecb[e].place = s.ecb[e].place
       \/ /\ s.ecb[e].place \in {"ready", "mem", "none"}
          /\ r.ecb[e].place \in {"ready", "mem", "none"}

(* Then the events of a type are the same, and so is what follows from that. *)
LEMMA SteadyKeeps ==
  ASSUME NEW s, NEW r, Steady(s, r), SameLives(s, r)
  PROVE  /\ \A t : Of(r, t) = Of(s, t)
         /\ Uses(s) => Uses(r)
<1>1. \A t : Of(r, t) = Of(s, t)
  BY DEF Of, SameLives
<1>2. ASSUME Uses(s), NEW t \in Evtts
      PROVE  /\ ~r.evtt[t].registered => ~r.evtt[t].inuse
             /\ ~r.evtt[t].inuse => Of(r, t) = {}
             /\ r.evtt[t].inuse /\ r.evtt[t].kind.correlative => Of(r, t) = {r.evtt[t].mark[1]}
  BY <1>1, <1>2 DEF Uses, Steady
<1> QED
  BY <1>1, <1>2 DEF Uses

(* Nor do queues change, but for that of the heap. *)
LEMMA SteadyWaits ==
  ASSUME NEW s, NEW r, Steady(s, r), SameLives(s, r), Waits(s), MemQueue(r)
  PROVE  Waits(r)
<1>1. Hold(SyncOf(r), Ecbs, PlaceOf(r), "event")
  <2>1. \A w \in Ecbs : SyncOf(r)[w] = SyncOf(s)[w]
    BY DEF SyncOf, SameLives
  <2>2. \A w \in Ecbs : PlaceOf(r)[w] = "event" <=> PlaceOf(s)[w] = "event"
    BY DEF PlaceOf, SameLives
  <2> QED
    BY <2>1, <2>2, HoldSame DEF Waits
<1>2. Hold(DoneOf(r), Evtts, PlaceOf(r), "done")
  <2>1. \A t \in Evtts : DoneOf(r)[t] = DoneOf(s)[t]
    BY DEF DoneOf, Steady
  <2>2. \A w \in Ecbs : PlaceOf(r)[w] = "done" <=> PlaceOf(s)[w] = "done"
    BY DEF PlaceOf, SameLives
  <2> QED
    BY <2>1, <2>2, HoldSame DEF Waits
<1>3. Hold(PopOf(r), Evtts, PlaceOf(r), "pop")
  <2>1. \A t \in Evtts : PopOf(r)[t] = PopOf(s)[t]
    BY DEF PopOf, Steady
  <2>2. \A w \in Ecbs : PlaceOf(r)[w] = "pop" <=> PlaceOf(s)[w] = "pop"
    BY DEF PlaceOf, SameLives
  <2> QED
    BY <2>1, <2>2, HoldSame DEF Waits
<1>4. NobodyLeft(r)
  BY DEF Waits, NobodyLeft, Steady
<1> QED
  BY <1>1, <1>2, <1>3, <1>4 DEF Waits

(* The mark queue of a type is replaced. *)
LEMMA MarkField ==
  ASSUME NEW y \in EvttType, NEW q \in Seq(Ecbs)
  PROVE  LET z == [y EXCEPT !.mark = q]
         IN  /\ z \in EvttType /\ z.mark = q /\ z.pop_sync = y.pop_sync
             /\ z.done_sync = y.done_sync /\ z.deleting = y.deleting
             /\ z.registered = y.registered /\ z.inuse = y.inuse /\ z.kind = y.kind
             /\ z.events = y.events /\ z.vpus = y.vpus /\ z.free_vm = y.free_vm
  BY DEF EvttType

(***************************************************************************)
(* The events of X lack a thread and those of W no longer do, by the       *)
(* memory of the heap only: no thread changes hands.                       *)
(***************************************************************************)
Memories(s, r, X, W) ==
  /\ r \in StateType /\ Steady(s, r) /\ SameLives(s, r)
  /\ \A e \in Ecbs : /\ r.ecb[e].vm = s.ecb[e].vm
                     /\ Lacks(r, e) <=> (Lacks(s, e) \/ e \in X) /\ e \notin W
                     /\ e \in X => /\ s.ecb[e].place = "ready" /\ ~s.ecb[e].vm
                                   /\ s.evtt[s.ecb[e].type].free_vm = 0
  /\ \A t \in Evtts : /\ r.evtt[t].vpus = s.evtt[t].vpus
                      /\ r.evtt[t].free_vm = s.evtt[t].free_vm

(* Such a step keeps the counters. *)
LEMMA MemoriesKeep ==
  ASSUME NEW s, NEW r, NEW h, NEW X, NEW W, Core(s, h), Memories(s, r, X, W), Marks(r)
  PROVE  Core(r, h)
<1>1. r \in StateType /\ Steady(s, r) /\ SameLives(s, r)
  BY DEF Memories
<1>2. (\A t : Of(r, t) = Of(s, t)) /\ Uses(r)
  BY <1>1, SteadyKeeps DEF Core
<1>3. \A t : Busy(r, t) = Busy(s, t)
  <2> SUFFICES ASSUME NEW t PROVE Busy(r, t) = Busy(s, t)
    OBVIOUS
  <2>1. \A e \in Of(s, t) : e \in Ecbs
    BY DEF Of
  <2> QED
    BY <1>2, <2>1 DEF Busy, Memories
<1>4. Live(r)
  <2> SUFFICES ASSUME NEW e \in Ecbs
               PROVE  /\ IF r.ecb[e].place = "free"
                         THEN r.ecb[e].type = NoEvtt /\ ~r.ecb[e].vm /\ r.ecb[e].sync = << >>
                         ELSE r.ecb[e].type \in Evtts
                      /\ Lacks(r, e) => ~r.ecb[e].vm
    BY DEF Live
  <2>1. /\ IF s.ecb[e].place = "free"
           THEN s.ecb[e].type = NoEvtt /\ ~s.ecb[e].vm /\ s.ecb[e].sync = << >>
           ELSE s.ecb[e].type \in Evtts
        /\ Lacks(s, e) => ~s.ecb[e].vm
    BY DEF Core, Live
  <2>2. r.ecb[e].place = "free" <=> s.ecb[e].place = "free"
    BY <1>1 DEF SameLives
  <2>3. r.ecb[e].type = s.ecb[e].type /\ r.ecb[e].sync = s.ecb[e].sync /\ r.ecb[e].vm = s.ecb[e].vm
    BY <1>1 DEF SameLives, Memories
  <2>4. Lacks(r, e) => ~r.ecb[e].vm
    BY <2>1, <2>3 DEF Memories
  <2> QED
    BY <2>1, <2>2, <2>3, <2>4
<1>5. Counted(r, h)
  BY <1>1, <1>2, <1>3 DEF Core, Counted, Steady, Memories
<1>6. NoIdle(r)
  <2> SUFFICES ASSUME NEW t \in Evtts, NEW e \in Lacking(r, t) PROVE r.evtt[t].free_vm = 0
    BY DEF NoIdle
  <2>1. e \in Of(s, t) /\ e \in Ecbs /\ Lacks(r, e) /\ s.ecb[e].type = t
    BY <1>2 DEF Lacking, Of
  <2>2. CASE Lacks(s, e)
    <3>1. e \in Lacking(s, t)
      BY <2>1, <2>2 DEF Lacking
    <3> QED
      BY <3>1 DEF Core, NoIdle, Memories
  <2>3. CASE e \in X
    BY <2>1, <2>3 DEF Memories
  <2> QED
    BY <2>1, <2>2, <2>3 DEF Memories
<1> QED
  BY <1>1, <1>2, <1>4, <1>5, <1>6 DEF Core

(* Events that cannot get a thread wait for memory. *)
LEMMA StarvedSafe ==
  ASSUME NEW s, NEW h, Core(s, h), Waits(s), NEW q \in Seq(Ecbs), NoDuplicates(q),
         \A e \in ToSet(q) : e \in Starving(s)
  PROVE  LET r == Starved(s, q)
         IN  Core(r, h) /\ Waits(r) /\ Steady(s, r) /\ SameLives(s, r)
<1> DEFINE Others(t) == {e \in Ecbs : s.ecb[e].type # t}
           add(t) == Without(q, Others(t))
           mk(t) == IF s.evtt[t].kind.correlative THEN s.evtt[t].mark ELSE s.evtt[t].mark \o add(t)
           T == [t \in Evtts |-> [s.evtt[t] EXCEPT !.mark = mk(t)]]
           m == Moved(s, ToSet(q), "mem")
           r == Starved(s, q)
<1>1. s \in StateType /\ Live(s) /\ Marks(s) /\ MemQueue(s)
  BY DEF Core, Waits
<1>2. /\ m \in StateType /\ m.evtt = s.evtt /\ m.memq = s.memq /\ m.mem = s.mem /\ m.dead = s.dead
      /\ \A e \in Ecbs : /\ m.ecb[e].place = IF e \in ToSet(q) THEN "mem" ELSE s.ecb[e].place
                         /\ m.ecb[e].type = s.ecb[e].type /\ m.ecb[e].vm = s.ecb[e].vm
                         /\ m.ecb[e].sync = s.ecb[e].sync
  BY <1>1, MovedFields DEF Places
<1>3. \A e \in ToSet(q) : /\ e \in Ecbs /\ s.ecb[e].place = "ready" /\ ~s.ecb[e].vm
                          /\ s.evtt[s.ecb[e].type].free_vm = 0
  BY DEF Starving, NeedThread
<1>4. ASSUME NEW t \in Evtts
      PROVE  /\ s.evtt[t].mark \in Seq(Ecbs) /\ add(t) \in Seq(Ecbs) /\ NoDuplicates(add(t))
             /\ ToSet(add(t)) = {e \in ToSet(q) : s.ecb[e].type = t}
  <2>1. /\ add(t) \in Seq(Ecbs) /\ ToSet(add(t)) = ToSet(q) \ Others(t)
        /\ NoDuplicates(add(t))
    BY WithoutFacts
  <2> HIDE DEF add
  <2> QED
    BY <1>1, <1>3, <2>1, TypeFields
<1> HIDE DEF add
<1>5. ASSUME NEW t \in Evtts
      PROVE  /\ mk(t) \in Seq(Ecbs)
             /\ s.evtt[t].kind.correlative => mk(t) = s.evtt[t].mark
             /\ ~s.evtt[t].kind.correlative => mk(t) = s.evtt[t].mark \o add(t)
  <2>1. s.evtt[t].mark \o add(t) \in Seq(Ecbs)
    BY <1>4, Joins
  <2> QED
    BY <1>4, <2>1
<1>6. ASSUME NEW t \in Evtts
      PROVE  /\ T[t] \in EvttType /\ T[t].mark = mk(t) /\ T[t].pop_sync = s.evtt[t].pop_sync
             /\ T[t].done_sync = s.evtt[t].done_sync /\ T[t].deleting = s.evtt[t].deleting
             /\ T[t].registered = s.evtt[t].registered /\ T[t].inuse = s.evtt[t].inuse
             /\ T[t].kind = s.evtt[t].kind /\ T[t].events = s.evtt[t].events
             /\ T[t].vpus = s.evtt[t].vpus /\ T[t].free_vm = s.evtt[t].free_vm
  <2> HIDE DEF mk
  <2>1. PICK a : a = mk(t)
    OBVIOUS
  <2>2. a \in Seq(Ecbs) /\ s.evtt[t] \in EvttType
    BY <1>1, <1>5, <2>1, TypeFields
  <2>3. T[t] = [s.evtt[t] EXCEPT !.mark = a]
    BY <2>1
  <2> HIDE DEF T
  <2>4. /\ T[t] \in EvttType /\ T[t].mark = a /\ T[t].pop_sync = s.evtt[t].pop_sync
        /\ T[t].done_sync = s.evtt[t].done_sync /\ T[t].deleting = s.evtt[t].deleting
        /\ T[t].registered = s.evtt[t].registered /\ T[t].inuse = s.evtt[t].inuse
        /\ T[t].kind = s.evtt[t].kind /\ T[t].events = s.evtt[t].events
        /\ T[t].vpus = s.evtt[t].vpus /\ T[t].free_vm = s.evtt[t].free_vm
    BY ONLY <2>2, <2>3, MarkField
  <2> QED
    BY <2>1, <2>4
<1>7. T \in [Evtts -> EvttType]
  <2>1. T = [t \in Evtts |-> T[t]]
    OBVIOUS
  <2> HIDE DEF T
  <2> QED
    BY <1>6, <2>1
<1>8. s.memq \in Seq(Ecbs) /\ m.memq \o q \in Seq(Ecbs)
  <2>1. s.memq \in Seq(Ecbs)
    BY <1>1, StateFields
  <2>2. s.memq \o q \in Seq(Ecbs)
    BY <2>1, Joins
  <2> QED
    BY <1>2, <2>1, <2>2
<1>9. r = [m EXCEPT !.memq = m.memq \o q, !.evtt = T]
  BY DEF Starved, add
<1> HIDE DEF T, m, r, mk
<1>10. r \in StateType /\ r.memq = s.memq \o q /\ r.evtt = T /\ r.ecb = m.ecb
  <2>1. PICK a : a = m.memq \o q
    OBVIOUS
  <2>2. a \in Seq(Ecbs) /\ r = [m EXCEPT !.memq = a, !.evtt = T]
    BY <1>8, <1>9, <2>1
  <2>3. r \in StateType /\ r.memq = a /\ r.evtt = T /\ r.ecb = m.ecb
    BY ONLY <1>2, <1>7, <2>2 DEF StateType
  <2> QED
    BY <1>2, <2>1, <2>3
<1>11. Steady(s, r)
  <2>1. ASSUME NEW u \in Evtts, r.evtt[u].kind.correlative PROVE r.evtt[u].mark = s.evtt[u].mark
    <3>1. s.evtt[u].kind.correlative /\ r.evtt[u].mark = mk(u)
      BY <1>6, <1>10, <2>1
    <3> QED
      BY <1>5, <3>1
  <2> QED
    BY <1>6, <1>10, <2>1 DEF Steady
<1>12. SameLives(s, r)
  BY <1>2, <1>3, <1>10 DEF SameLives
<1>13. \A e \in Ecbs : Lacks(r, e) <=> Lacks(s, e) \/ e \in ToSet(q)
  BY <1>2, <1>10 DEF Lacks
<1>14. Memories(s, r, ToSet(q), {})
  <2>1. \A e \in Ecbs : /\ r.ecb[e].vm = s.ecb[e].vm
                        /\ Lacks(r, e) <=> (Lacks(s, e) \/ e \in ToSet(q)) /\ e \notin {}
                        /\ e \in ToSet(q) => /\ s.ecb[e].place = "ready" /\ ~s.ecb[e].vm
                                             /\ s.evtt[s.ecb[e].type].free_vm = 0
    BY <1>2, <1>3, <1>10, <1>13
  <2>2. \A t \in Evtts : r.evtt[t].vpus = s.evtt[t].vpus /\ r.evtt[t].free_vm = s.evtt[t].free_vm
    BY SMTT(60), <1>6, <1>10
  <2> QED
    BY SMTT(60), <1>10, <1>11, <1>12, <2>1, <2>2 DEF Memories
<1>15. Marks(r)
  <2> SUFFICES ASSUME NEW t \in Evtts, ~r.evtt[t].kind.correlative
               PROVE  ToSet(r.evtt[t].mark) = Lacking(r, t) /\ NoDuplicates(r.evtt[t].mark)
    BY DEF Marks
  <2>1. ~s.evtt[t].kind.correlative /\ r.evtt[t].mark = s.evtt[t].mark \o add(t)
    BY <1>5, <1>6, <1>10
  <2>2. ToSet(s.evtt[t].mark) = Lacking(s, t) /\ NoDuplicates(s.evtt[t].mark)
    BY <1>1, <2>1 DEF Marks
  <2>3. \A e \in ToSet(q) : ~Lacks(s, e)
    BY <1>3 DEF Lacks
  <2>4. \A e \in ToSet(s.evtt[t].mark) : e \notin ToSet(add(t))
    BY <1>4, <2>2, <2>3 DEF Lacking
  <2>5. /\ ToSet(s.evtt[t].mark \o add(t)) = ToSet(s.evtt[t].mark) \union ToSet(add(t))
        /\ NoDuplicates(s.evtt[t].mark \o add(t))
    BY <1>4, <2>2, <2>4, Joins
  <2>6. Of(r, t) = Of(s, t)
    BY <1>11, <1>12, SteadyKeeps
  <2>7. Lacking(r, t) = Lacking(s, t) \union ToSet(add(t))
    <3>1. \A e \in Of(s, t) : e \in Ecbs
      BY DEF Of
    <3>2. \A e \in ToSet(add(t)) : e \in Of(s, t) /\ e \in ToSet(q)
      BY <1>3, <1>4 DEF Of
    <3>3. \A e \in Of(s, t) : e \in ToSet(q) => e \in ToSet(add(t))
      BY <1>4 DEF Of
    <3> QED
      BY <1>13, <2>6, <3>1, <3>2, <3>3 DEF Lacking
  <2> QED
    BY <2>1, <2>2, <2>5, <2>7
<1>16. Core(r, h)
  BY <1>14, <1>15, MemoriesKeep
<1>17. MemQueue(r)
  <2>1. \A w \in Ecbs : w \in ToSet(s.memq) <=> s.ecb[w].place = "mem"
    BY <1>1 DEF MemQueue
  <2>2. \A e \in ToSet(s.memq) : e \notin ToSet(q)
    BY <1>3, <2>1
  <2>3. ToSet(s.memq \o q) = ToSet(s.memq) \union ToSet(q) /\ NoDuplicates(s.memq \o q)
    BY <1>1, <1>8, <2>2, Joins DEF MemQueue
  <2> QED
    BY <1>2, <1>10, <2>1, <2>3 DEF MemQueue
<1>18. Waits(r)
  BY <1>11, <1>12, <1>17, SteadyWaits
<1> QED
  BY <1>11, <1>12, <1>16, <1>18 DEF r

(* __M_FreeHeap makes the first events that wait for memory ready, the last *)
(* of all excepted.                                                         *)
LEMMA GiveBackSafe ==
  ASSUME NEW s, NEW h, Core(s, h), Waits(s), NEW b \in Nat, NEW n \in Nat
  PROVE  LET r == GiveBack(s, b, n)
         IN  /\ Core(r, h) /\ Waits(r) /\ Steady(s, r) /\ SameLives(s, r)
             /\ \A t \in Evtts : r.evtt[t].vpus = s.evtt[t].vpus
<1> DEFINE q == s.memq
           k == IF n < Len(q) THEN n ELSE Len(q)
           All == ToSet(SubSeq(q, 1, k))
           W == IF k > 0 /\ k = Len(q) THEN All \ {Last(q)} ELSE All
           m1 == Ready(s, W)
           m == Moved(m1, All \ W, "none")
           mk(t) == IF s.evtt[t].kind.correlative THEN s.evtt[t].mark
                    ELSE Without(s.evtt[t].mark, W)
           T == [t \in Evtts |-> [m.evtt[t] EXCEPT !.mark =
                    IF m.evtt[t].kind.correlative THEN @ ELSE Without(@, W)]]
           rest == SubSeq(q, k + 1, Len(q))
           d == s.dead \/ \E e \in W : s.evtt[s.ecb[e].type].kind.correlative
           r == GiveBack(s, b, n)
<1>1. s \in StateType /\ Live(s) /\ Marks(s) /\ MemQueue(s)
  BY DEF Core, Waits
<1>2. q \in Seq(Ecbs) /\ s.mem \in Int /\ s.dead \in BOOLEAN
  BY <1>1, StateFields
<1>3. k \in 0..Len(q)
  BY <1>2
<1>4. rest \in Seq(Ecbs) /\ NoDuplicates(rest) /\ ToSet(rest) = ToSet(q) \ All /\ All \subseteq ToSet(q)
  <2>1. All = ToSet(FirstOf(q, k)) /\ rest = RestOf(q, k)
    BY DEF FirstOf, RestOf
  <2>2. NoDuplicates(q)
    BY <1>1 DEF MemQueue
  <2> HIDE DEF k, All, rest, q
  <2>3. /\ RestOf(q, k) \in Seq(Ecbs) /\ NoDuplicates(RestOf(q, k))
        /\ ToSet(q) = ToSet(FirstOf(q, k)) \union ToSet(RestOf(q, k))
        /\ \A e \in ToSet(FirstOf(q, k)) : e \notin ToSet(RestOf(q, k))
    BY <1>2, <1>3, <2>2, Splits
  <2> QED
    BY <2>1, <2>3
<1>5. W \subseteq All
  <2> HIDE DEF All, k
  <2> QED
    BY SMTT(60)
<1>6. r = [m EXCEPT !.evtt = T, !.memq = SubSeq(m.memq, k + 1, Len(m.memq)), !.mem = m.mem + b,
                    !.dead = m.dead \/ \E e \in W : s.evtt[s.ecb[e].type].kind.correlative]
  BY DEF GiveBack
<1> HIDE DEF All, k, W, r, q
<1>7. \A e \in All : e \in Ecbs /\ s.ecb[e].place = "mem"
  <2>1. \A e \in All : e \in ToSet(q) /\ e \in Ecbs
    BY <1>2, <1>4, Elements
  <2> QED
    BY <1>1, <2>1 DEF MemQueue, q
<1>8. /\ m1 \in StateType /\ m1.evtt = s.evtt /\ m1.memq = s.memq /\ m1.mem = s.mem
      /\ m1.dead = s.dead
      /\ \A e \in Ecbs : /\ m1.ecb[e].place = IF e \in W THEN "ready" ELSE s.ecb[e].place
                         /\ m1.ecb[e].type = s.ecb[e].type /\ m1.ecb[e].vm = s.ecb[e].vm
                         /\ m1.ecb[e].sync = s.ecb[e].sync
  BY SMTT(60), <1>1, MovedFields DEF Ready, Places
<1> HIDE DEF m1
<1>9. /\ m \in StateType /\ m.evtt = m1.evtt /\ m.memq = m1.memq /\ m.mem = m1.mem
      /\ m.dead = m1.dead
      /\ \A e \in Ecbs : /\ m.ecb[e].place = IF e \in All \ W THEN "none" ELSE m1.ecb[e].place
                         /\ m.ecb[e].type = m1.ecb[e].type /\ m.ecb[e].vm = m1.ecb[e].vm
                         /\ m.ecb[e].sync = m1.ecb[e].sync
  BY <1>8, MovedFields DEF Places
<1> HIDE DEF m
<1>10. /\ m.evtt = s.evtt /\ m.memq = q /\ m.mem = s.mem /\ m.dead = s.dead
       /\ \A e \in Ecbs : /\ m.ecb[e].place = IF e \in W THEN "ready"
                                              ELSE IF e \in All THEN "none" ELSE s.ecb[e].place
                          /\ m.ecb[e].type = s.ecb[e].type /\ m.ecb[e].vm = s.ecb[e].vm
                          /\ m.ecb[e].sync = s.ecb[e].sync
  BY <1>8, <1>9 DEF q
<1>11. ASSUME NEW t \in Evtts
       PROVE  /\ mk(t) \in Seq(Ecbs)
              /\ s.evtt[t].kind.correlative => mk(t) = s.evtt[t].mark
              /\ ~s.evtt[t].kind.correlative =>
                   /\ ToSet(mk(t)) = ToSet(s.evtt[t].mark) \ W
                   /\ NoDuplicates(s.evtt[t].mark) => NoDuplicates(mk(t))
  <2>1. s.evtt[t].mark \in Seq(Ecbs)
    BY <1>1, TypeFields
  <2>2. /\ Without(s.evtt[t].mark, W) \in Seq(Ecbs)
        /\ ToSet(Without(s.evtt[t].mark, W)) = ToSet(s.evtt[t].mark) \ W
        /\ NoDuplicates(s.evtt[t].mark) => NoDuplicates(Without(s.evtt[t].mark, W))
    BY <2>1, WithoutFacts
  <2> QED
    BY <2>1, <2>2
<1>12. T = [t \in Evtts |-> [s.evtt[t] EXCEPT !.mark = mk(t)]]
  BY <1>10
<1> HIDE DEF mk, T
<1>13. ASSUME NEW t \in Evtts
       PROVE  /\ T[t] \in EvttType /\ T[t].mark = mk(t) /\ T[t].pop_sync = s.evtt[t].pop_sync
              /\ T[t].done_sync = s.evtt[t].done_sync /\ T[t].deleting = s.evtt[t].deleting
              /\ T[t].registered = s.evtt[t].registered /\ T[t].inuse = s.evtt[t].inuse
              /\ T[t].kind = s.evtt[t].kind /\ T[t].events = s.evtt[t].events
              /\ T[t].vpus = s.evtt[t].vpus /\ T[t].free_vm = s.evtt[t].free_vm
  <2>1. mk(t) \in Seq(Ecbs) /\ s.evtt[t] \in EvttType
    BY <1>1, <1>11, TypeFields
  <2>2. T[t] = [s.evtt[t] EXCEPT !.mark = mk(t)]
    BY <1>12
  <2> QED
    BY ONLY <2>1, <2>2, MarkField
<1>14. T \in [Evtts -> EvttType]
  <2>1. T = [t \in Evtts |-> T[t]]
    BY <1>12
  <2> QED
    BY <1>13, <2>1
<1>15. r \in StateType /\ r.memq = rest /\ r.evtt = T /\ r.ecb = m.ecb
  <2>1. r = [m EXCEPT !.evtt = T, !.memq = rest, !.mem = s.mem + b, !.dead = d]
    BY <1>6, <1>10
  <2>2. s.mem + b \in Int /\ d \in BOOLEAN
    BY <1>2
  <2> HIDE DEF rest, d
  <2> QED
    BY <1>4, <1>9, <1>14, <2>1, <2>2 DEF StateType
<1> HIDE DEF rest
<1>16. Steady(s, r)
  <2>1. ASSUME NEW u \in Evtts, r.evtt[u].kind.correlative PROVE r.evtt[u].mark = s.evtt[u].mark
    <3>1. s.evtt[u].kind.correlative /\ r.evtt[u].mark = mk(u)
      BY <1>13, <1>15, <2>1
    <3> QED
      BY <1>11, <3>1
  <2> QED
    BY <1>13, <1>15, <2>1 DEF Steady
<1>17. SameLives(s, r)
  BY <1>5, <1>7, <1>10, <1>15 DEF SameLives
<1>18. \A e \in Ecbs : Lacks(r, e) <=> Lacks(s, e) /\ e \notin W
  BY <1>5, <1>7, <1>10, <1>15 DEF Lacks
<1>19. Memories(s, r, {}, W)
  <2>1. \A e \in Ecbs : /\ r.ecb[e].vm = s.ecb[e].vm
                        /\ Lacks(r, e) <=> (Lacks(s, e) \/ e \in {}) /\ e \notin W
    BY <1>10, <1>15, <1>18
  <2>2. \A t \in Evtts : r.evtt[t].vpus = s.evtt[t].vpus /\ r.evtt[t].free_vm = s.evtt[t].free_vm
    BY <1>13, <1>15
  <2> QED
    BY <1>15, <1>16, <1>17, <2>1, <2>2 DEF Memories
<1>20. Marks(r)
  <2> SUFFICES ASSUME NEW t \in Evtts, ~r.evtt[t].kind.correlative
               PROVE  ToSet(r.evtt[t].mark) = Lacking(r, t) /\ NoDuplicates(r.evtt[t].mark)
    BY DEF Marks
  <2>1. ~s.evtt[t].kind.correlative /\ r.evtt[t].mark = mk(t)
    BY <1>13, <1>15
  <2>2. ToSet(s.evtt[t].mark) = Lacking(s, t) /\ NoDuplicates(s.evtt[t].mark)
    BY <1>1, <2>1 DEF Marks
  <2>3. Of(r, t) = Of(s, t)
    BY <1>16, <1>17, SteadyKeeps
  <2>4. Lacking(r, t) = Lacking(s, t) \ W
    <3>1. \A e \in Of(s, t) : e \in Ecbs
      BY DEF Of
    <3> QED
      BY <1>18, <2>3, <3>1 DEF Lacking
  <2> QED
    BY <1>11, <2>1, <2>2, <2>4
<1>21. Core(r, h)
  BY <1>19, <1>20, MemoriesKeep
<1>22. MemQueue(r)
  <2>1. \A w \in Ecbs : w \in ToSet(q) <=> s.ecb[w].place = "mem"
    BY <1>1 DEF MemQueue, q
  <2> QED
    BY <1>4, <1>5, <1>10, <1>15, <2>1 DEF MemQueue
<1>23. Waits(r)
  BY <1>16, <1>17, <1>22, SteadyWaits
<1>24. \A t \in Evtts : r.evtt[t].vpus = s.evtt[t].vpus
  BY <1>13, <1>15
<1> QED
  BY <1>16, <1>17, <1>21, <1>23, <1>24 DEF r
--------------------------------------------------------------------------------
(***************************************************************************)
(* Event e of type t obtains a thread that was idle, new or held, h before *)
(* and g after that.                                                       *)
(***************************************************************************)
Serves(s, r, t, e) ==
  /\ r \in StateType /\ Steady(s, r) /\ SameLives(s, r)
  /\ e \in Of(s, t) /\ ~s.ecb[e].vm /\ r.ecb[e].vm /\ ~Lacks(r, e)
  /\ \A w \in Ecbs \ {e} : r.ecb[w].vm = s.ecb[w].vm /\ r.ecb[w].place = s.ecb[w].place
  /\ \A u \in Evtts \ {t} : /\ r.evtt[u].vpus = s.evtt[u].vpus
                            /\ r.evtt[u].free_vm = s.evtt[u].free_vm
                            /\ r.evtt[u].mark = s.evtt[u].mark
  /\ r.evtt[t].free_vm <= s.evtt[t].free_vm
  /\ ~s.evtt[t].kind.correlative =>
       /\ ToSet(r.evtt[t].mark) = ToSet(s.evtt[t].mark) \ {e}
       /\ NoDuplicates(s.evtt[t].mark) => NoDuplicates(r.evtt[t].mark)

(* The counters are kept if those of type t are. *)
LEMMA ServesKeeps ==
  ASSUME NEW s, NEW r, NEW h, NEW g, NEW t \in Evtts, NEW e, Core(s, h), Serves(s, r, t, e),
         \A u \in Evtts \ {t} : u = g <=> u = h,
         r.evtt[t].vpus - r.evtt[t].free_vm - (IF t = g THEN 1 ELSE 0)
           = s.evtt[t].vpus - s.evtt[t].free_vm - (IF t = h THEN 1 ELSE 0) + 1
  PROVE  Core(r, g)
<1>1. /\ s \in StateType /\ Live(s) /\ Counted(s, h) /\ NoIdle(s) /\ Uses(s) /\ Marks(s)
      /\ r \in StateType /\ Steady(s, r) /\ SameLives(s, r)
  BY DEF Core, Serves
<1>2. (\A u : Of(r, u) = Of(s, u)) /\ Uses(r)
  BY SMTT(60), <1>1, SteadyKeeps
<1>3. /\ e \in Ecbs /\ s.ecb[e].place # "free" /\ s.ecb[e].type = t /\ ~s.ecb[e].vm /\ r.ecb[e].vm
      /\ ~Lacks(r, e) /\ r.ecb[e].type = t
  BY <1>1 DEF Serves, Of, SameLives
<1>4. \A w \in Ecbs \ {e} : r.ecb[w].vm = s.ecb[w].vm /\ (Lacks(r, w) <=> Lacks(s, w))
  BY DEF Serves, Lacks
<1>5. Live(r)
  <2> SUFFICES ASSUME NEW w \in Ecbs
               PROVE  /\ IF r.ecb[w].place = "free"
                         THEN r.ecb[w].type = NoEvtt /\ ~r.ecb[w].vm /\ r.ecb[w].sync = << >>
                         ELSE r.ecb[w].type \in Evtts
                      /\ Lacks(r, w) => ~r.ecb[w].vm
    BY DEF Live
  <2>1. CASE w = e
    <3>1. r.ecb[w].place # "free"
      BY <1>1, <1>3, <2>1 DEF SameLives
    <3> QED
      BY <1>3, <2>1, <3>1
  <2>2. CASE w # e
    <3>1. r.ecb[w].place = s.ecb[w].place /\ r.ecb[w].type = s.ecb[w].type
          /\ r.ecb[w].sync = s.ecb[w].sync /\ r.ecb[w].vm = s.ecb[w].vm
      BY <1>1, <2>2 DEF Serves, SameLives
    <3> QED
      BY SMTT(60), <1>1, <1>4, <2>2, <3>1 DEF Live
  <2> QED
    BY <2>1, <2>2
<1>6. Busy(r, t) = Busy(s, t) \union {e} /\ e \notin Busy(s, t)
  <2>1. e \in Of(s, t) /\ \A w \in Of(s, t) : w \in Ecbs
    BY <1>3 DEF Of
  <2> QED
    BY <1>2, <1>3, <1>4, <2>1 DEF Busy
<1>7. \A u \in Evtts \ {t} : Busy(r, u) = Busy(s, u)
  <2> SUFFICES ASSUME NEW u \in Evtts \ {t} PROVE Busy(r, u) = Busy(s, u)
    OBVIOUS
  <2>1. e \notin Of(s, u) /\ \A w \in Of(s, u) : w \in Ecbs
    BY <1>3 DEF Of
  <2> QED
    BY <1>2, <1>4, <2>1 DEF Busy
<1>8. Counted(r, g)
  <2>1. \A u \in Evtts : r.evtt[u].events = Cardinality(Of(r, u))
    BY <1>1, <1>2 DEF Counted, Steady
  <2>2. ASSUME NEW u \in Evtts \ {t}
        PROVE  r.evtt[u].vpus = r.evtt[u].free_vm + Cardinality(Busy(r, u)) + (IF u = g THEN 1 ELSE 0)
    <3>1. s.evtt[u].vpus = s.evtt[u].free_vm + Cardinality(Busy(s, u)) + (IF u = h THEN 1 ELSE 0)
      BY <1>1 DEF Counted
    <3>2. r.evtt[u].vpus = s.evtt[u].vpus /\ r.evtt[u].free_vm = s.evtt[u].free_vm
      BY DEF Serves
    <3>3. (IF u = h THEN 1 ELSE 0) = (IF u = g THEN 1 ELSE 0)
      OBVIOUS
    <3> QED
      BY <1>7, <3>1, <3>2, <3>3
  <2>3. r.evtt[t].vpus = r.evtt[t].free_vm + Cardinality(Busy(r, t)) + (IF t = g THEN 1 ELSE 0)
    <3>1. s.evtt[t].vpus = s.evtt[t].free_vm + Cardinality(Busy(s, t)) + (IF t = h THEN 1 ELSE 0)
      BY <1>1 DEF Counted
    <3>2. Busy(s, t) \in SUBSET Ecbs
      BY Sets
    <3>3. Cardinality(Busy(s, t)) \in Nat /\ Cardinality(Busy(r, t)) = Cardinality(Busy(s, t)) + 1
      BY <1>6, <3>2, Counts
    <3>4. /\ s.evtt[t].vpus \in Nat /\ s.evtt[t].free_vm \in Nat
          /\ r.evtt[t].vpus \in Nat /\ r.evtt[t].free_vm \in Nat
      BY <1>1, TypeFields
    <3> QED
      BY <3>1, <3>3, <3>4
  <2> QED
    BY <2>1, <2>2, <2>3 DEF Counted
<1>9. Lacking(r, t) = Lacking(s, t) \ {e}
  <2>1. \A w \in Of(s, t) : w \in Ecbs
    BY DEF Of
  <2> QED
    BY <1>2, <1>3, <1>4, <2>1 DEF Lacking
<1>10. \A u \in Evtts \ {t} : Lacking(r, u) = Lacking(s, u)
  <2> SUFFICES ASSUME NEW u \in Evtts \ {t} PROVE Lacking(r, u) = Lacking(s, u)
    OBVIOUS
  <2>1. e \notin Of(s, u) /\ \A w \in Of(s, u) : w \in Ecbs
    BY <1>3 DEF Of
  <2> QED
    BY <1>2, <1>4, <2>1 DEF Lacking
<1>11. NoIdle(r)
  <2> SUFFICES ASSUME NEW u \in Evtts, Lacking(r, u) # {} PROVE r.evtt[u].free_vm = 0
    BY DEF NoIdle
  <2>1. CASE u = t
    <3>1. s.evtt[t].free_vm = 0
      BY SMTT(60), <1>1, <1>9, <2>1 DEF NoIdle
    <3>2. r.evtt[t].free_vm \in Nat /\ r.evtt[t].free_vm <= 0
      BY <1>1, <3>1, TypeFields DEF Serves
    <3> QED
      BY <2>1, <3>2
  <2>2. CASE u # t
    BY <1>1, <1>10, <2>2 DEF NoIdle, Serves
  <2> QED
    BY <2>1, <2>2
<1>12. Marks(r)
  <2> SUFFICES ASSUME NEW u \in Evtts, ~r.evtt[u].kind.correlative
               PROVE  ToSet(r.evtt[u].mark) = Lacking(r, u) /\ NoDuplicates(r.evtt[u].mark)
    BY DEF Marks
  <2>1. ~s.evtt[u].kind.correlative
    BY <1>1 DEF Steady
  <2>2. ToSet(s.evtt[u].mark) = Lacking(s, u) /\ NoDuplicates(s.evtt[u].mark)
    BY <1>1, <2>1 DEF Marks
  <2>3. CASE u = t
    BY <1>9, <2>1, <2>2, <2>3 DEF Serves
  <2>4. CASE u # t
    BY <1>10, <2>2, <2>4 DEF Serves
  <2> QED
    BY <2>3, <2>4
<1> QED
  BY <1>1, <1>2, <1>5, <1>8, <1>11, <1>12 DEF Core

(* An event gets a thread. *)
LEMMA VmField ==
  ASSUME NEW x \in EcbType
  PROVE  LET z == [x EXCEPT !.vm = TRUE]
         IN  z \in EcbType /\ z.vm = TRUE /\ z.place = x.place /\ z.type = x.type /\ z.sync = x.sync
  BY DEF EcbType

(* __Djy_SelectEventToRun gives the event an idle thread or a new one. *)
LEMMA WithThreadSafe ==
  ASSUME NEW s, NEW h, Core(s, h), Waits(s), NEW e \in NeedThread(s)
  PROVE  LET r == WithThread(s, e)
         IN  Core(r, h) /\ Waits(r) /\ Steady(s, r) /\ SameLives(s, r)
<1> DEFINE t == s.ecb[e].type
           y == s.evtt[t]
           idle == y.free_vm > 0
           f == IF idle THEN y.free_vm - 1 ELSE y.free_vm
           v == IF idle THEN y.vpus ELSE y.vpus + 1
           c == IF idle THEN s.mem ELSE s.mem - 1
           z == [y EXCEPT !.free_vm = f, !.vpus = v]
           x == [s.ecb[e] EXCEPT !.vm = TRUE]
           A == [s.evtt EXCEPT ![t] = z]
           B == [s.ecb EXCEPT ![e] = x]
           r == WithThread(s, e)
<1>1. e \in Ecbs /\ s.ecb[e].place = "ready" /\ ~s.ecb[e].vm
  BY DEF NeedThread
<1>2. s \in StateType /\ Live(s) /\ MemQueue(s)
  BY DEF Core, Waits
<1>3. t \in Evtts
  BY <1>1, <1>2 DEF Live
<1>4. y \in EvttType /\ y.free_vm \in Nat /\ y.vpus \in Nat
  BY <1>2, <1>3, TypeFields
<1>5. f \in Nat /\ v \in Nat /\ c \in Int /\ f <= y.free_vm /\ v - f = y.vpus - y.free_vm + 1
  <2>1. s.mem \in Int
    BY <1>2, StateFields
  <2> HIDE DEF y
  <2> QED
    BY ONLY <1>4, <2>1 DEF f, v, c, idle
<1>6. s.ecb[e] \in EcbType
  BY SMTT(60), <1>1, <1>2, EventFields
<1>7. r = [s EXCEPT !.evtt = A, !.ecb = B, !.mem = c]
  <2>1. CASE idle
    <3>1. r = [s EXCEPT !.ecb[e].vm = TRUE, !.evtt[t].free_vm = y.free_vm - 1]
      BY <2>1 DEF WithThread
    <3>2. z = [y EXCEPT !.free_vm = y.free_vm - 1]
      BY ZenonT(30), <1>4, <2>1 DEF EvttType
    <3>3. r = [s EXCEPT !.ecb = B, !.evtt = [s.evtt EXCEPT ![t] = [y EXCEPT !.free_vm = y.free_vm - 1]]]
      BY <1>2, <3>1 DEF StateType
    <3>4. r = [s EXCEPT !.ecb = B, !.evtt = A]
      BY <3>2, <3>3, Zenon
    <3>5. c = s.mem
      BY <2>1
    <3> HIDE DEF A, B, r, c
    <3> QED
      BY <1>2, <3>4, <3>5 DEF StateType
  <2>2. CASE ~idle
    <3>1. r = [s EXCEPT !.ecb[e].vm = TRUE, !.evtt[t].vpus = y.vpus + 1, !.mem = s.mem - 1]
      BY <1>2, <2>2 DEF WithThread, StateType
    <3>2. z = [y EXCEPT !.vpus = y.vpus + 1]
      BY ZenonT(30), <1>4, <2>2 DEF EvttType
    <3>3. r = [s EXCEPT !.ecb = B, !.evtt = [s.evtt EXCEPT ![t] = [y EXCEPT !.vpus = y.vpus + 1]],
                        !.mem = s.mem - 1]
      BY <1>2, <3>1 DEF StateType
    <3>4. r = [s EXCEPT !.ecb = B, !.evtt = A, !.mem = s.mem - 1]
      BY <3>2, <3>3, Zenon
    <3>5. c = s.mem - 1
      BY <2>2
    <3> HIDE DEF A, B, r, c
    <3> QED
      BY <1>2, <3>4, <3>5 DEF StateType
  <2> QED
    BY <2>1, <2>2
<1> HIDE DEF f, v, c
<1>8. /\ z \in EvttType /\ z.free_vm = f /\ z.vpus = v /\ z.mark = y.mark
      /\ z.pop_sync = y.pop_sync /\ z.done_sync = y.done_sync /\ z.deleting = y.deleting
      /\ z.registered = y.registered /\ z.inuse = y.inuse /\ z.kind = y.kind
      /\ z.events = y.events
  <2> HIDE DEF y
  <2> QED
    BY ONLY <1>4, <1>5 DEF EvttType
<1>9. x \in EcbType /\ x.vm = TRUE /\ x.place = s.ecb[e].place /\ x.type = t /\ x.sync = s.ecb[e].sync
  BY <1>6, VmField
<1> HIDE DEF x, z, r
<1>10. /\ A \in [Evtts -> EvttType] /\ \A u \in Evtts : A[u] = IF u = t THEN z ELSE s.evtt[u]
       /\ B \in [Ecbs -> EcbType] /\ \A w \in Ecbs : B[w] = IF w = e THEN x ELSE s.ecb[w]
  BY <1>1, <1>2, <1>3, <1>8, <1>9, StateFields
<1> HIDE DEF A, B
<1>11. r \in StateType /\ r.memq = s.memq /\ r.evtt = A /\ r.ecb = B
  BY <1>2, <1>5, <1>7, <1>10 DEF StateType
<1>12. Steady(s, r)
  BY <1>8, <1>10, <1>11 DEF Steady
<1>13. SameLives(s, r)
  BY <1>9, <1>10, <1>11 DEF SameLives
<1>14. Serves(s, r, t, e)
  <2>1. e \in Of(s, t) /\ ~s.ecb[e].vm
    BY <1>1 DEF Of
  <2>2. r.ecb[e].vm /\ r.ecb[e].place = "ready" /\ ~Lacks(r, e)
    BY <1>1, <1>9, <1>10, <1>11 DEF Lacks
  <2>3. \A w \in Ecbs \ {e} : r.ecb[w].vm = s.ecb[w].vm /\ r.ecb[w].place = s.ecb[w].place
    BY <1>10, <1>11
  <2>4. \A u \in Evtts \ {t} : r.evtt[u] = s.evtt[u]
    BY SMTT(60), <1>10, <1>11
  <2>5. r.evtt[t].free_vm <= s.evtt[t].free_vm /\ r.evtt[t].mark = s.evtt[t].mark
    BY ZenonT(30), <1>3, <1>5, <1>8, <1>10, <1>11
  <2>6. ~s.evtt[t].kind.correlative => ToSet(s.evtt[t].mark) = ToSet(s.evtt[t].mark) \ {e}
    <3> SUFFICES ASSUME ~s.evtt[t].kind.correlative PROVE e \notin ToSet(s.evtt[t].mark)
      OBVIOUS
    <3>1. ToSet(s.evtt[t].mark) = Lacking(s, t)
      BY SMTT(60), <1>3 DEF Core, Marks
    <3> QED
      BY SMTT(60), <1>1, <3>1 DEF Lacking, Lacks
  <2> HIDE DEF t
  <2> QED
    BY <1>11, <1>12, <1>13, <2>1, <2>2, <2>3, <2>4, <2>5, <2>6 DEF Serves
<1>15. r.evtt[t].vpus - r.evtt[t].free_vm - (IF t = h THEN 1 ELSE 0)
         = s.evtt[t].vpus - s.evtt[t].free_vm - (IF t = h THEN 1 ELSE 0) + 1
  <2>1. r.evtt[t].vpus = v /\ r.evtt[t].free_vm = f
    BY <1>3, <1>8, <1>10, <1>11
  <2> QED
    BY SMTT(60), <1>4, <1>5, <2>1
<1>16. Core(r, h)
  <2> HIDE DEF t
  <2> QED
    BY <1>3, <1>14, <1>15, ServesKeeps
<1>17. MemQueue(r)
  <2>1. \A w \in Ecbs : r.ecb[w].place = s.ecb[w].place
    BY <1>9, <1>10, <1>11
  <2> QED
    BY <1>2, <1>11, <2>1 DEF MemQueue
<1>18. Waits(r)
  BY <1>12, <1>13, <1>17, SteadyWaits
<1> QED
  BY <1>12, <1>13, <1>16, <1>18 DEF r

(* Both together: what __Djy_Schedule does. *)
LEMMA SelectedSafe ==
  ASSUME NEW s, NEW h, Core(s, h), Waits(s), NEW c \in Picks(s)
  PROVE  LET r == Selected(s, c)
         IN  Core(r, h) /\ Waits(r) /\ Steady(s, r) /\ SameLives(s, r)
<1> DEFINE q == c.starved
           m == Starved(s, q)
           r == Selected(s, c)
<1>1. PICK X \in SUBSET Starving(s) : q \in SetToSeqs(X)
  BY DEF Picks
<1>2. X \in SUBSET Ecbs
  BY DEF Starving, NeedThread
<1>3. Cardinality(X) \in Nat
  BY <1>2, Counts
<1>4. /\ q \in [1..Cardinality(X) -> X]
      /\ \A i, j \in 1..Cardinality(X) : i # j => q[i] # q[j]
  BY <1>1 DEF SetToSeqs
<1> HIDE DEF q
<1>5. q \in Seq(Ecbs) /\ q \in Seq(X) /\ Len(q) = Cardinality(X)
  BY <1>2, <1>3, <1>4
<1>6. NoDuplicates(q)
  BY <1>4, <1>5 DEF NoDuplicates
<1>7. \A e \in ToSet(q) : e \in Starving(s)
  BY <1>5, Elements
<1>8. Core(m, h) /\ Waits(m) /\ Steady(s, m) /\ SameLives(s, m)
  BY <1>5, <1>6, <1>7, StarvedSafe
<1> HIDE DEF m
<1>9. CASE c.first \in NeedThread(m) \ Starving(m)
  <2>1. r = WithThread(m, c.first)
    BY <1>9 DEF Selected, m, q
  <2>2. Core(r, h) /\ Waits(r) /\ Steady(m, r) /\ SameLives(m, r)
    BY <1>8, <1>9, <2>1, WithThreadSafe
  <2> HIDE DEF r
  <2>3. Steady(s, r)
    BY <1>8, <2>2 DEF Steady
  <2>4. SameLives(s, r)
    BY <1>8, <2>2 DEF SameLives
  <2> QED
    BY <2>2, <2>3, <2>4 DEF r
<1>10. CASE c.first \notin NeedThread(m) \ Starving(m)
  <2>1. r = m
    BY <1>10 DEF Selected, m, q
  <2> QED
    BY <1>8, <2>1
<1> QED
  BY <1>9, <1>10
--------------------------------------------------------------------------------
(***************************************************************************)
(* Completion: the thread of the event is held until it is kept or freed.  *)
(***************************************************************************)
(* An event e of type t that runs and that nobody waits for leaves its type, *)
(* which is in use no longer only if no event is left.                       *)
LEMMA LeavesType ==
  ASSUME NEW s, Core(s, NoEvtt), Waits(s), NEW t \in Evtts, NEW e \in Ecbs,
         s.ecb[e].place = "ready", s.ecb[e].vm, s.ecb[e].type = t, s.ecb[e].sync = << >>,
         NEW r \in StateType, NEW z \in EvttType, r.memq = s.memq,
         \A w \in Ecbs : r.ecb[w] = IF w = e THEN FreeEcb ELSE s.ecb[w],
         \A u \in Evtts : r.evtt[u] = IF u = t THEN z ELSE s.evtt[u],
         z.events = s.evtt[t].events - 1,
         z.inuse = (s.evtt[t].inuse /\ ~IsLast([s.evtt[t] EXCEPT !.events = @ - 1])),
         z.mark = s.evtt[t].mark, z.pop_sync = s.evtt[t].pop_sync,
         z.done_sync = s.evtt[t].done_sync, z.deleting = s.evtt[t].deleting,
         z.registered = s.evtt[t].registered, z.kind = s.evtt[t].kind,
         z.vpus = s.evtt[t].vpus, z.free_vm = s.evtt[t].free_vm
  PROVE  Core(r, t) /\ Waits(r) /\ (z.kind.correlative => ~z.inuse)
<1>1. s \in StateType /\ Live(s) /\ Counted(s, NoEvtt) /\ NoIdle(s) /\ Uses(s) /\ Marks(s)
  BY DEF Core
<1>2. /\ FreeEcb.place = "free" /\ FreeEcb.type = NoEvtt /\ FreeEcb.vm = FALSE
      /\ FreeEcb.sync = << >> /\ NoEvtt \notin Evtts
  BY FreeFields, EvttAssumption
<1>3. r.ecb[e] = FreeEcb /\ \A w \in Ecbs \ {e} : r.ecb[w] = s.ecb[w]
  OBVIOUS
<1>4. r.evtt[t] = z /\ \A u \in Evtts \ {t} : r.evtt[u] = s.evtt[u]
  OBVIOUS
<1>5. /\ e \in Of(s, t) /\ Of(r, t) = Of(s, t) \ {e}
      /\ \A u \in Evtts \ {t} : Of(r, u) = Of(s, u)
  <2>1. ASSUME NEW u \in Evtts, NEW w \in Ecbs
        PROVE  w \in Of(r, u) <=> w \in Of(s, u) /\ w # e
    BY <1>2, <1>3 DEF Of
  <2>2. \A u : Of(r, u) \subseteq Ecbs /\ Of(s, u) \subseteq Ecbs
    BY DEF Of
  <2>3. \A u \in Evtts : e \in Of(s, u) <=> u = t
    BY DEF Of
  <2>4. Of(r, t) = Of(s, t) \ {e}
    BY ONLY t \in Evtts, <2>1, <2>2
  <2>5. ASSUME NEW u \in Evtts \ {t} PROVE Of(r, u) = Of(s, u)
    BY ONLY <2>1, <2>2, <2>3, <2>5
  <2> QED
    BY <2>3, <2>4, <2>5
<1>6. /\ e \in Busy(s, t) /\ Busy(r, t) = Busy(s, t) \ {e}
      /\ \A u \in Evtts \ {t} : Busy(r, u) = Busy(s, u)
  <2>1. \A u \in Evtts : \A w \in Of(s, u) : w \in Ecbs
    BY DEF Of
  <2>2. \A u \in Evtts \ {t} : e \notin Of(s, u)
    BY DEF Of
  <2> QED
    BY <1>3, <1>5, <2>1, <2>2 DEF Busy
<1>7. \A u \in Evtts : Lacking(r, u) = Lacking(s, u)
  <2>1. \A u \in Evtts : \A w \in Of(s, u) : w \in Ecbs
    BY DEF Of
  <2>2. \A u \in Evtts \ {t} : e \notin Of(s, u)
    BY DEF Of
  <2>3. ~Lacks(s, e) /\ \A w \in Ecbs \ {e} : Lacks(r, w) <=> Lacks(s, w)
    BY <1>3 DEF Lacks
  <2> QED
    BY <1>5, <2>1, <2>2, <2>3 DEF Lacking
<1>8. Live(r)
  BY SMTT(60), <1>1, <1>2, <1>3 DEF Live, Lacks
<1>9. /\ s.evtt[t].events = Cardinality(Of(s, t)) /\ Cardinality(Of(s, t)) \in Nat
      /\ Cardinality(Of(r, t)) = Cardinality(Of(s, t)) - 1
  <2>1. Of(s, t) \in SUBSET Ecbs
    BY Sets
  <2>2. Cardinality(Of(s, t)) \in Nat /\ Cardinality(Of(s, t) \ {e}) = Cardinality(Of(s, t)) - 1
    BY <1>5, <2>1, Counts
  <2> QED
    BY <1>1, <1>5, <2>2 DEF Counted
<1>10. Counted(r, t)
  <2>1. ASSUME NEW u \in Evtts PROVE r.evtt[u].events = Cardinality(Of(r, u))
    <3>1. CASE u = t
      BY <1>4, <1>9, <3>1
    <3>2. CASE u # t
      BY <1>1, <1>4, <1>5, <3>2 DEF Counted
    <3> QED
      BY <3>1, <3>2
  <2>2. ASSUME NEW u \in Evtts \ {t}
        PROVE  r.evtt[u].vpus = r.evtt[u].free_vm + Cardinality(Busy(r, u)) + (IF u = t THEN 1 ELSE 0)
    <3>1. s.evtt[u].vpus = s.evtt[u].free_vm + Cardinality(Busy(s, u)) + (IF u = NoEvtt THEN 1 ELSE 0)
      BY <1>1 DEF Counted
    <3> QED
      BY <1>2, <1>4, <1>6, <3>1
  <2>3. r.evtt[t].vpus = r.evtt[t].free_vm + Cardinality(Busy(r, t)) + 1
    <3>1. s.evtt[t].vpus = s.evtt[t].free_vm + Cardinality(Busy(s, t)) + 0
      BY <1>1, <1>2 DEF Counted
    <3>2. Busy(s, t) \in SUBSET Ecbs
      BY Sets
    <3>3. /\ Cardinality(Busy(s, t)) \in Nat
          /\ Cardinality(Busy(s, t) \ {e}) = Cardinality(Busy(s, t)) - 1
      BY SMTT(60), <1>6, <3>2, Counts
    <3>4. s.evtt[t].vpus \in Nat /\ s.evtt[t].free_vm \in Nat
      BY <1>1, TypeFields
    <3>5. r.evtt[t].vpus = s.evtt[t].vpus /\ r.evtt[t].free_vm = s.evtt[t].free_vm
      BY <1>4
    <3>6. Cardinality(Busy(r, t)) = Cardinality(Busy(s, t)) - 1
      BY <1>6, <3>3
    <3> QED
      BY ONLY <3>1, <3>3, <3>4, <3>5, <3>6
  <2> QED
    BY <2>1, <2>2, <2>3 DEF Counted
<1>11. NoIdle(r)
  BY <1>1, <1>4, <1>7 DEF NoIdle
<1>12. z.kind.correlative => ~z.inuse
  <2>1. ASSUME s.evtt[t].kind.correlative PROVE [s.evtt[t] EXCEPT !.events = @ - 1].kind.correlative
    BY <1>1, <2>1, TypeFields DEF EvttType
  <2> QED
    BY <2>1 DEF IsLast
<1>13. ~z.inuse => Of(r, t) = {}
  <2> SUFFICES ASSUME ~z.inuse PROVE Of(r, t) = {}
    OBVIOUS
  <2>1. s.evtt[t].inuse
    BY <1>1, <1>5 DEF Uses
  <2>2. IsLast([s.evtt[t] EXCEPT !.events = @ - 1])
    BY <2>1
  <2>3. CASE s.evtt[t].kind.correlative
    BY <1>1, <1>5, <2>1, <2>3 DEF Uses
  <2>4. CASE ~s.evtt[t].kind.correlative
    <3>0. PICK y : y = [s.evtt[t] EXCEPT !.events = s.evtt[t].events - 1]
      OBVIOUS
    <3>1. y.kind = s.evtt[t].kind /\ y.vpus = s.evtt[t].vpus /\ y.events = s.evtt[t].events - 1
      <4>1. s.evtt[t] \in EvttType
        BY <1>1, TypeFields
      <4> QED
        BY ONLY <3>0, <4>1 DEF EvttType
    <3>2. y.events < y.vpus /\ y.vpus = 1
      BY <2>2, <2>4, <3>0, <3>1 DEF IsLast
    <3>3. Cardinality(Of(r, t)) \in Int /\ Cardinality(Of(r, t)) < 1
      BY <1>9, <3>1, <3>2
    <3>4. Of(r, t) \in SUBSET Ecbs
      BY Sets
    <3>5. Cardinality(Of(r, t)) \in Nat /\ (Cardinality(Of(r, t)) = 0 <=> Of(r, t) = {})
      BY <3>4, Counts
    <3> QED
      BY <3>3, <3>5
  <2> QED
    BY <2>3, <2>4
<1>14. Uses(r)
  <2> SUFFICES ASSUME NEW u \in Evtts
               PROVE  /\ ~r.evtt[u].registered => ~r.evtt[u].inuse
                      /\ ~r.evtt[u].inuse => Of(r, u) = {}
                      /\ r.evtt[u].inuse /\ r.evtt[u].kind.correlative => Of(r, u) = {r.evtt[u].mark[1]}
    BY DEF Uses
  <2>1. CASE u # t
    BY <1>1, <1>4, <1>5, <2>1 DEF Uses
  <2>2. CASE u = t
    <3>1. r.evtt[u] = z
      BY <1>4, <2>2
    <3>2. ~z.registered => ~z.inuse
      BY <1>1 DEF Uses
    <3> QED
      BY <1>12, <1>13, <2>2, <3>1, <3>2
  <2> QED
    BY <2>1, <2>2
<1>15. Marks(r)
  BY <1>1, <1>4, <1>7 DEF Marks
<1>16. Waits(r)
  <2>1. \A w \in Ecbs : /\ r.ecb[w].sync = s.ecb[w].sync
                        /\ \/ r.ecb[w].place = s.ecb[w].place
                           \/ /\ s.ecb[w].place \in {"free", "ready", "none"}
                              /\ r.ecb[w].place \in {"free", "ready", "none"}
    BY <1>2, <1>3
  <2>2. \A u \in Evtts : /\ r.evtt[u].done_sync = s.evtt[u].done_sync
                         /\ r.evtt[u].pop_sync = s.evtt[u].pop_sync
                         /\ r.evtt[u].registered = s.evtt[u].registered
                         /\ r.evtt[u].deleting = s.evtt[u].deleting
    BY <1>4
  <2>3. NobodyLeft(r)
    BY <2>2 DEF Waits, NobodyLeft
  <2> QED
    BY <2>1, <2>2, <2>3, QueuesSame
<1> QED
  BY <1>8, <1>10, <1>11, <1>12, <1>14, <1>15, <1>16 DEF Core

(* Djy_EventComplete up to the decision what becomes of the thread. *)
LEMMA RetiredSafe ==
  ASSUME TypesInv, NEW e \in Ecbs, Runs(e), NEW t, t = ecb[e].type, NEW r, r = Retired(e)
  PROVE  /\ t \in Evtts /\ Core(r, t) /\ Waits(r)
         /\ r.evtt[t].kind.correlative => ~r.evtt[t].inuse
<1>1. PICK v : v = DoneSync(Ready(Now, ToSet(Now.ecb[e].sync)), t)
  OBVIOUS
<1> DEFINE p == Cleared(v, e)
           y == v.evtt[t]
           y1 == [y EXCEPT !.events = y.events - 1]
           z == [y1 EXCEPT !.inuse = y1.inuse /\ ~IsLast(y1)]
           x == [v.ecb[e] EXCEPT !.sync = << >>]
           A == [v.evtt EXCEPT ![t] = z]
           B == [v.ecb EXCEPT ![e] = FreeEcb]
<1>2. Core(Now, NoEvtt) /\ Waits(Now) /\ Now.ecb[e].place = "ready" /\ Now.ecb[e].vm /\ t = Now.ecb[e].type
  BY NowFields DEF TypesInv, Runs
<1>3. t \in Evtts
  BY SMTT(60), <1>2 DEF Core, Live
<1>4. /\ v \in StateType /\ Core(p, NoEvtt) /\ Waits(p)
      /\ p.ecb[e].place = "ready" /\ p.ecb[e].sync = << >>
      /\ p.ecb[e].type = t /\ p.ecb[e].vm
  BY SMTT(60), <1>1, <1>2, <1>3, CompleteWakes
<1>5. v.ecb[e] \in EcbType /\ v.ecb \in [Ecbs -> EcbType] /\ y \in EvttType /\ v.evtt \in [Evtts -> EvttType]
  BY <1>3, <1>4, EventFields, TypeFields, StateFields
<1>6. x \in EcbType
  BY <1>5, NoQueue, SyncField
<1>7. p = PutEvent(v, e, x)
  BY <1>4, StateFields DEF PutEvent, Cleared
<1> HIDE DEF x, p
<1>8. /\ p \in StateType /\ p.evtt = v.evtt /\ p.memq = v.memq
      /\ \A w \in Ecbs : p.ecb[w] = IF w = e THEN x ELSE v.ecb[w]
  BY <1>4, <1>6, <1>7, PutEventFields
<1>9. y.events - 1 \in Nat
  <2>1. e \in Of(p, t)
    BY <1>4 DEF Of
  <2>2. Of(p, t) \in SUBSET Ecbs
    BY Sets
  <2>3. y.events = Cardinality(Of(p, t))
    BY <1>3, <1>4, <1>8 DEF Core, Counted
  <2>4. Cardinality(Of(p, t)) \in Nat /\ Cardinality(Of(p, t)) # 0
    BY <2>1, <2>2, Counts
  <2> QED
    BY <2>3, <2>4
<1>10. /\ y1 \in EvttType /\ y1.events = y.events - 1 /\ y1.inuse = y.inuse /\ y1.mark = y.mark
       /\ y1.pop_sync = y.pop_sync /\ y1.done_sync = y.done_sync /\ y1.deleting = y.deleting
       /\ y1.registered = y.registered /\ y1.kind = y.kind /\ y1.vpus = y.vpus
       /\ y1.free_vm = y.free_vm
  <2> HIDE DEF y
  <2> QED
    BY ONLY <1>5, <1>9 DEF EvttType
<1> HIDE DEF y1
<1>11. /\ z \in EvttType /\ z.events = y1.events /\ z.inuse = (y1.inuse /\ ~IsLast(y1))
       /\ z.mark = y1.mark
       /\ z.pop_sync = y1.pop_sync /\ z.done_sync = y1.done_sync /\ z.deleting = y1.deleting
       /\ z.registered = y1.registered /\ z.kind = y1.kind /\ z.vpus = y1.vpus
       /\ z.free_vm = y1.free_vm
  <2>1. PICK b \in BOOLEAN : b = (y1.inuse /\ ~IsLast(y1))
    OBVIOUS
  <2>2. z = [y1 EXCEPT !.inuse = b]
    BY <2>1
  <2> HIDE DEF z
  <2>3. /\ z \in EvttType /\ z.events = y1.events /\ z.inuse = b
        /\ z.mark = y1.mark
        /\ z.pop_sync = y1.pop_sync /\ z.done_sync = y1.done_sync /\ z.deleting = y1.deleting
        /\ z.registered = y1.registered /\ z.kind = y1.kind /\ z.vpus = y1.vpus
        /\ z.free_vm = y1.free_vm
    BY ONLY <1>10, <2>2 DEF EvttType
  <2> QED
    BY <2>1, <2>3
<1>12. r = [v EXCEPT !.ecb = B, !.evtt = A]
  <2> DEFINE A1 == [v.evtt EXCEPT ![t] = y1]
             s1 == [v EXCEPT !.ecb[e] = FreeEcb, !.evtt[t].events = @ - 1]
  <2>1. s1 = [v EXCEPT !.ecb = B, !.evtt = A1]
    BY SMTT(60), <1>4 DEF StateType, y1
  <2>2. r = [s1 EXCEPT !.evtt[t].inuse = @ /\ ~IsLast(s1.evtt[t])]
    <3>1. v = DoneSync(Ready(Now, ToSet(ecb[e].sync)), t)
      BY <1>1, NowFields
    <3> QED
      BY ZenonT(30), <3>1 DEF Retired
  <2> HIDE DEF s1, B
  <2>3. A1 \in [Evtts -> EvttType] /\ A1[t] = y1
    BY <1>3, <1>5, <1>10
  <2>4. s1.evtt = A1 /\ s1.evtt[t] = y1
    <3> HIDE DEF A1
    <3> QED
      BY <1>4, <2>1, <2>3 DEF StateType
  <2>5. r = [s1 EXCEPT !.evtt = [A1 EXCEPT ![t] = z]]
    BY <2>2, <2>4
  <2>6. [A1 EXCEPT ![t] = z] = A
    <3> HIDE DEF z
    <3> QED
      BY <1>3, <1>5
  <2> HIDE DEF A1, A, z
  <2> QED
    BY <1>4, <2>1, <2>5, <2>6 DEF StateType
<1> HIDE DEF z
<1>13. /\ A \in [Evtts -> EvttType] /\ \A u \in Evtts : A[u] = IF u = t THEN z ELSE v.evtt[u]
       /\ B \in [Ecbs -> EcbType] /\ \A w \in Ecbs : B[w] = IF w = e THEN FreeEcb ELSE v.ecb[w]
  BY <1>3, <1>5, <1>11, FreeFields
<1> HIDE DEF A, B
<1>14. r \in StateType /\ r.memq = v.memq /\ r.evtt = A /\ r.ecb = B
  BY ZenonT(60), <1>4, <1>12, <1>13 DEF StateType
<1>15. \A w \in Ecbs : r.ecb[w] = IF w = e THEN FreeEcb ELSE p.ecb[w]
  BY <1>8, <1>13, <1>14
<1>16. \A u \in Evtts : r.evtt[u] = IF u = t THEN z ELSE p.evtt[u]
  BY <1>8, <1>13, <1>14
<1>17. p.evtt[t] = y /\ y1 = [p.evtt[t] EXCEPT !.events = @ - 1]
  BY <1>8 DEF y1
<1>18. Core(r, t) /\ Waits(r) /\ (z.kind.correlative => ~z.inuse)
  <2>1. /\ z.events = p.evtt[t].events - 1
        /\ z.inuse = (p.evtt[t].inuse /\ ~IsLast([p.evtt[t] EXCEPT !.events = @ - 1]))
        /\ z.mark = p.evtt[t].mark /\ z.pop_sync = p.evtt[t].pop_sync
        /\ z.done_sync = p.evtt[t].done_sync /\ z.deleting = p.evtt[t].deleting
        /\ z.registered = p.evtt[t].registered /\ z.kind = p.evtt[t].kind
        /\ z.vpus = p.evtt[t].vpus /\ z.free_vm = p.evtt[t].free_vm
    BY ZenonT(30), <1>10, <1>11, <1>17
  <2>2. r.memq = p.memq
    BY <1>8, <1>14
  <2>3. z \in EvttType /\ r \in StateType
    BY <1>11, <1>14
  <2> QED
    BY ONLY SMTT(60), e \in Ecbs, <1>3, <1>4, <1>15, <1>16, <2>1, <2>2, <2>3, LeavesType
<1> QED
  BY <1>3, <1>16, <1>18
--------------------------------------------------------------------------------
(***************************************************************************)
(* A type is registered, is not any more, or changes its number of threads.*)
(***************************************************************************)
(* A type that is not registered. *)
LEMMA UnregisteredFields ==
  /\ Unregistered \in EvttType /\ Unregistered.registered = FALSE
  /\ Unregistered.deleting = FALSE /\ Unregistered.inuse = FALSE
  /\ Unregistered.kind.correlative = TRUE /\ Unregistered.events = 0
  /\ Unregistered.vpus = 0 /\ Unregistered.free_vm = 0 /\ Unregistered.mark = << >>
  /\ Unregistered.pop_sync = << >> /\ Unregistered.done_sync = << >>
<1>1. << >> \in Seq(Ecbs) /\ 0 \in Nat
  OBVIOUS
<1> DEFINE k == [correlative |-> TRUE, urgent |-> FALSE, vpus_res |-> 0, vpus_limit |-> 0]
<1>2. k \in KindType /\ k.correlative = TRUE
  BY DEF KindType
<1>3. Unregistered = [registered |-> FALSE, deleting |-> FALSE, inuse |-> FALSE, kind |-> k,
                      events |-> 0, vpus |-> 0, free_vm |-> 0, mark |-> << >>,
                      pop_sync |-> << >>, done_sync |-> << >>]
  BY DEF Unregistered
<1> HIDE DEF k
<1> QED
  BY <1>1, <1>2, <1>3 DEF EvttType

(* The conditions on one type, when g has a thread that is held. *)
Fits(s, t, y, g) ==
  /\ y.events = Cardinality(Of(s, t))
  /\ y.vpus = y.free_vm + Cardinality(Busy(s, t)) + (IF t = g THEN 1 ELSE 0)
  /\ Lacking(s, t) # {} => y.free_vm = 0
  /\ ~y.registered => ~y.inuse
  /\ ~y.inuse => Of(s, t) = {}
  /\ y.inuse /\ y.kind.correlative => Of(s, t) = {y.mark[1]}
  /\ ~y.kind.correlative => ToSet(y.mark) = Lacking(s, t) /\ NoDuplicates(y.mark)

OnlyType(s, r, t, h, g) ==
  r.ecb = s.ecb /\ \A u \in Evtts \ {t} : r.evtt[u] = s.evtt[u] /\ (u = g <=> u = h)

(* The counters, when only a type changes. *)
LEMMA TypeCore ==
  ASSUME NEW s, NEW h, NEW g, NEW t \in Evtts, NEW r \in StateType, Core(s, h),
         OnlyType(s, r, t, h, g), Fits(s, t, r.evtt[t], g)
  PROVE  Core(r, g)
<1> USE DEF OnlyType
<1>1. Live(s) /\ Counted(s, h) /\ NoIdle(s) /\ Uses(s) /\ Marks(s)
  BY DEF Core
<1>2. \A u : Of(r, u) = Of(s, u) /\ Busy(r, u) = Busy(s, u) /\ Lacking(r, u) = Lacking(s, u)
  BY DEF Of, Busy, Lacking, Lacks
<1>3. Live(r)
  BY <1>1 DEF Live, Lacks
<1> USE DEF Fits
<1>4. Counted(r, g)
  <2> SUFFICES ASSUME NEW u \in Evtts
               PROVE  /\ r.evtt[u].events = Cardinality(Of(r, u))
                      /\ r.evtt[u].vpus = r.evtt[u].free_vm + Cardinality(Busy(r, u))
                                          + (IF u = g THEN 1 ELSE 0)
    BY DEF Counted
  <2>1. CASE u = t
    BY <1>2, <2>1
  <2>2. CASE u # t
    <3>1. /\ s.evtt[u].events = Cardinality(Of(s, u))
          /\ s.evtt[u].vpus = s.evtt[u].free_vm + Cardinality(Busy(s, u)) + (IF u = h THEN 1 ELSE 0)
      BY <1>1 DEF Counted
    <3>2. r.evtt[u] = s.evtt[u] /\ (IF u = h THEN 1 ELSE 0) = (IF u = g THEN 1 ELSE 0)
      BY <2>2
    <3> QED
      BY <1>2, <3>1, <3>2
  <2> QED
    BY <2>1, <2>2
<1>5. NoIdle(r)
  BY <1>1, <1>2 DEF NoIdle
<1>6. Uses(r)
  BY <1>1, <1>2 DEF Uses
<1>7. Marks(r)
  BY <1>1, <1>2 DEF Marks
<1> QED
  BY <1>3, <1>4, <1>5, <1>6, <1>7 DEF Core

(* A type that no event belongs to or waits for is unregistered; a thread that *)
(* was held for it is gone with its idle ones.                                 *)
LEMMA UnregisterSafe ==
  ASSUME NEW s, NEW h, Core(s, h), Waits(s), NEW t \in Evtts, h \in {t, NoEvtt},
         ~s.evtt[t].inuse, s.evtt[t].pop_sync = << >>, s.evtt[t].done_sync = << >>
  PROVE  LET r == [s EXCEPT !.evtt[t] = Unregistered]
         IN  Core(r, NoEvtt) /\ Waits(r)
<1> DEFINE r == [s EXCEPT !.evtt[t] = Unregistered]
<1>1. s \in StateType
  BY DEF Core
<1>2. r = PutType(s, t, Unregistered)
  BY DEF PutType
<1> HIDE DEF r
<1>3. /\ r \in StateType /\ r.ecb = s.ecb /\ r.memq = s.memq
      /\ \A u \in Evtts : r.evtt[u] = IF u = t THEN Unregistered ELSE s.evtt[u]
  BY <1>1, <1>2, UnregisteredFields, PutTypeFields
<1>4. /\ ~r.evtt[t].registered /\ ~r.evtt[t].inuse /\ r.evtt[t].kind.correlative
      /\ r.evtt[t].events = 0 /\ r.evtt[t].vpus = 0 /\ r.evtt[t].free_vm = 0
      /\ r.evtt[t].pop_sync = << >> /\ r.evtt[t].done_sync = << >>
  BY <1>3, UnregisteredFields
<1>5. Of(s, t) = {} /\ Busy(s, t) = {}
  BY Sets DEF Core, Uses
<1>6. Cardinality(Of(s, t)) = 0 /\ Cardinality(Busy(s, t)) = 0
  BY <1>5, FS_EmptySet
<1>7. t # NoEvtt /\ \A u \in Evtts \ {t} : r.evtt[u] = s.evtt[u] /\ (u = NoEvtt <=> u = h)
  BY <1>3, EvttAssumption
<1>8. Core(r, NoEvtt)
  <2>1. Fits(s, t, r.evtt[t], NoEvtt)
    BY <1>4, <1>5, <1>6, <1>7 DEF Fits
  <2>2. OnlyType(s, r, t, h, NoEvtt)
    BY <1>3, <1>7 DEF OnlyType
  <2> QED
    BY <1>3, <2>1, <2>2, TypeCore
<1>9. Waits(r)
  <2>1. \A u \in Evtts : /\ r.evtt[u].done_sync = s.evtt[u].done_sync
                         /\ r.evtt[u].pop_sync = s.evtt[u].pop_sync
    BY <1>3, <1>4
  <2>2. NobodyLeft(r)
    BY <1>3, <1>4 DEF Waits, NobodyLeft
  <2> QED
    BY <1>3, <2>1, <2>2, QueuesSame
<1> QED
  BY <1>8, <1>9 DEF r

(* The waits do not change with the number of threads of a type. *)
LEMMA TypeWaits ==
  ASSUME NEW s, NEW r, Waits(s), NEW t \in Evtts, r.ecb = s.ecb, r.memq = s.memq,
         \A u \in Evtts \ {t} : r.evtt[u] = s.evtt[u],
         r.evtt[t].done_sync = s.evtt[t].done_sync, r.evtt[t].pop_sync = s.evtt[t].pop_sync,
         r.evtt[t].registered = s.evtt[t].registered, r.evtt[t].deleting = s.evtt[t].deleting
  PROVE  Waits(r)
<1>1. \A u \in Evtts : /\ r.evtt[u].done_sync = s.evtt[u].done_sync
                       /\ r.evtt[u].pop_sync = s.evtt[u].pop_sync
                       /\ r.evtt[u].registered = s.evtt[u].registered
                       /\ r.evtt[u].deleting = s.evtt[u].deleting
  OBVIOUS
<1>2. NobodyLeft(r)
  BY <1>1 DEF Waits, NobodyLeft
<1> QED
  BY <1>1, <1>2, QueuesSame

(* The conditions on one type, from those on all. *)
LEMMA CoreFits ==
  ASSUME NEW s, NEW h, Core(s, h), NEW t \in Evtts
  PROVE  Fits(s, t, s.evtt[t], h)
  BY DEF Core, Counted, NoIdle, Uses, Marks, Fits

(* The thread is kept, and no event of the type lacks one: it becomes idle. *)
LEMMA KeptIdle ==
  ASSUME NEW s, NEW t \in Evtts, Core(s, t), Waits(s), Lacking(s, t) = {}
  PROVE  LET r == [s EXCEPT !.evtt[t].free_vm = @ + 1]
         IN  Core(r, NoEvtt) /\ Waits(r)
<1> DEFINE y == s.evtt[t]
           z == [y EXCEPT !.free_vm = y.free_vm + 1]
           r == [s EXCEPT !.evtt[t].free_vm = @ + 1]
<1>1. s \in StateType /\ y \in EvttType /\ y.free_vm \in Nat /\ y.vpus \in Nat
  BY TypeFields DEF Core
<1>2. /\ z \in EvttType /\ z.free_vm = y.free_vm + 1 /\ z.vpus = y.vpus /\ z.mark = y.mark
      /\ z.pop_sync = y.pop_sync /\ z.done_sync = y.done_sync /\ z.deleting = y.deleting
      /\ z.registered = y.registered /\ z.inuse = y.inuse /\ z.kind = y.kind
      /\ z.events = y.events
  <2>1. y.free_vm + 1 \in Nat
    BY <1>1
  <2> HIDE DEF y
  <2> QED
    BY ONLY <1>1, <2>1 DEF EvttType
<1>3. r = PutType(s, t, z)
  BY <1>1 DEF PutType, StateType
<1> HIDE DEF z, r
<1>4. /\ r \in StateType /\ r.ecb = s.ecb /\ r.memq = s.memq
      /\ \A u \in Evtts : r.evtt[u] = IF u = t THEN z ELSE s.evtt[u]
  BY SMTT(60), <1>1, <1>2, <1>3, PutTypeFields
<1>5. t # NoEvtt /\ NoEvtt \notin Evtts /\ r.evtt[t] = z /\ \A u \in Evtts \ {t} : r.evtt[u] = s.evtt[u]
  BY <1>4, EvttAssumption
<1>6. OnlyType(s, r, t, t, NoEvtt)
  BY <1>4, <1>5 DEF OnlyType
<1>7. Fits(s, t, z, NoEvtt)
  <2>1. Fits(s, t, y, t)
    BY CoreFits
  <2>2. Busy(s, t) \in SUBSET Ecbs
    BY Sets
  <2>3. Cardinality(Busy(s, t)) \in Nat
    BY <2>2, Counts
  <2>4. y.vpus = y.free_vm + Cardinality(Busy(s, t)) + 1
    BY <2>1 DEF Fits
  <2>5. z.vpus = z.free_vm + Cardinality(Busy(s, t)) + 0
    BY <1>1, <1>2, <2>3, <2>4
  <2> HIDE DEF y
  <2> QED
    BY <1>2, <1>5, <2>1, <2>5 DEF Fits
<1>8. Core(r, NoEvtt)
  BY <1>4, <1>5, <1>6, <1>7, TypeCore
<1>9. Waits(r)
  BY <1>2, <1>4, <1>5, TypeWaits
<1> QED
  BY <1>8, <1>9 DEF r

(* The thread is freed. *)
LEMMA DestroyedSafe ==
  ASSUME NEW s, NEW t \in Evtts, Core(s, t), Waits(s), NEW n \in Nat, NEW d \in BOOLEAN
  PROVE  LET r == [Destroyed(s, t, n) EXCEPT !.dead = d]
         IN  Core(r, NoEvtt) /\ Waits(r)
<1> DEFINE m == GiveBack(s, 1, n)
           y == m.evtt[t]
           z == [y EXCEPT !.vpus = y.vpus - 1]
           p == PutType(m, t, z)
           r == [Destroyed(s, t, n) EXCEPT !.dead = d]
<1>1. Core(m, t) /\ Waits(m)
  BY GiveBackSafe
<1>2. r = [[m EXCEPT !.evtt[t].vpus = @ - 1] EXCEPT !.dead = d]
  BY DEF Destroyed
<1> HIDE DEF m
<1>3. m \in StateType /\ y \in EvttType /\ y.free_vm \in Nat /\ y.vpus \in Nat
  BY <1>1, TypeFields DEF Core
<1>4. /\ Fits(m, t, y, t) /\ Cardinality(Busy(m, t)) \in Nat
      /\ y.vpus = y.free_vm + Cardinality(Busy(m, t)) + 1 /\ y.vpus - 1 \in Nat
  <2>1. Fits(m, t, y, t)
    BY <1>1, CoreFits
  <2>2. Busy(m, t) \in SUBSET Ecbs
    BY Sets
  <2>3. Cardinality(Busy(m, t)) \in Nat
    BY <2>2, Counts
  <2>4. y.vpus = y.free_vm + Cardinality(Busy(m, t)) + 1
    BY <2>1 DEF Fits
  <2> QED
    BY <1>3, <2>1, <2>3, <2>4
<1>5. /\ z \in EvttType /\ z.vpus = y.vpus - 1 /\ z.free_vm = y.free_vm /\ z.mark = y.mark
      /\ z.pop_sync = y.pop_sync /\ z.done_sync = y.done_sync /\ z.deleting = y.deleting
      /\ z.registered = y.registered /\ z.inuse = y.inuse /\ z.kind = y.kind
      /\ z.events = y.events
  <2> HIDE DEF y
  <2> QED
    BY ONLY <1>3, <1>4 DEF EvttType
<1>6. r = [p EXCEPT !.dead = d]
  <2>1. [m EXCEPT !.evtt[t].vpus = @ - 1] = p
    BY <1>3 DEF PutType, StateType
  <2> QED
    BY <1>2, <2>1
<1> HIDE DEF z, r
<1>7. /\ p \in StateType /\ p.ecb = m.ecb /\ p.memq = m.memq
      /\ \A u \in Evtts : p.evtt[u] = IF u = t THEN z ELSE m.evtt[u]
  BY <1>3, <1>5, PutTypeFields
<1> HIDE DEF p
<1>8. r \in StateType /\ r.ecb = p.ecb /\ r.memq = p.memq /\ r.evtt = p.evtt
  BY <1>6, <1>7 DEF StateType
<1>9. t # NoEvtt /\ NoEvtt \notin Evtts /\ r.evtt[t] = z /\ \A u \in Evtts \ {t} : r.evtt[u] = m.evtt[u]
  BY <1>7, <1>8, EvttAssumption
<1>10. OnlyType(m, r, t, t, NoEvtt)
  BY <1>7, <1>8, <1>9 DEF OnlyType
<1>11. Fits(m, t, z, NoEvtt)
  <2>1. z.vpus = z.free_vm + Cardinality(Busy(m, t)) + 0
    BY <1>3, <1>4, <1>5
  <2> HIDE DEF y
  <2> QED
    BY <1>4, <1>5, <1>9, <2>1 DEF Fits
<1>12. Core(r, NoEvtt)
  BY <1>1, <1>8, <1>9, <1>10, <1>11, TypeCore
<1>13. Waits(r)
  BY <1>1, <1>5, <1>7, <1>8, <1>9, TypeWaits
<1> QED
  BY <1>12, <1>13 DEF r

(* The rest of a queue. *)
LEMMA Tails ==
  ASSUME NEW q \in Seq(Ecbs), q # << >>
  PROVE  /\ Head(q) \in ToSet(q) /\ Tail(q) \in Seq(Ecbs)
         /\ NoDuplicates(q) => ToSet(Tail(q)) = ToSet(q) \ {Head(q)} /\ NoDuplicates(Tail(q))
<1>1. Len(q) \in Nat /\ Len(q) >= 1 /\ Head(q) = q[1]
  OBVIOUS
<1>2. Tail(q) = RestOf(q, 1)
  <2>1. Tail(q) = SubSeq(q, 2, Len(q))
    BY TailIsSubSeq
  <2>2. 1 + 1 = 2
    OBVIOUS
  <2> QED
    BY <2>1, <2>2 DEF RestOf
<1>3. 1 \in 0..Len(q)
  BY <1>1
<1>4. /\ RestOf(q, 1) \in Seq(Ecbs)
      /\ ToSet(FirstOf(q, 1)) = {q[i] : i \in 1..1}
      /\ ToSet(q) = ToSet(FirstOf(q, 1)) \union ToSet(RestOf(q, 1))
      /\ NoDuplicates(q) => /\ NoDuplicates(RestOf(q, 1))
                            /\ \A e \in ToSet(FirstOf(q, 1)) : e \notin ToSet(RestOf(q, 1))
  BY <1>3, Splits
<1>5. {q[i] : i \in 1..1} = {q[1]}
  <2>1. 1 \in 1..1 /\ \A i \in 1..1 : i = 1
    OBVIOUS
  <2> QED
    BY <2>1
<1> QED
  BY <1>1, <1>2, <1>4, <1>5

(* The thread is kept, and an event of the type lacks one: it gets it. *)
Handed(s, t, e) == [Ready(s, {e}) EXCEPT !.evtt[t].mark = Tail(@), !.memq = Without(@, {e}),
                                         !.ecb[e].vm = TRUE]

(* That keeps the counters and the queues. *)
LEMMA KeptHanded ==
  ASSUME NEW s, NEW t \in Evtts, Core(s, t), Waits(s), ~s.evtt[t].kind.correlative,
         s.evtt[t].mark # << >>, NEW e, e = Head(s.evtt[t].mark)
  PROVE  Core(Handed(s, t, e), NoEvtt) /\ Waits(Handed(s, t, e))
<1> DEFINE m == Ready(s, {e})
           y == s.evtt[t]
           k == Tail(y.mark)
           q == Without(s.memq, {e})
           z == [y EXCEPT !.mark = k]
           x == [m.ecb[e] EXCEPT !.vm = TRUE]
           A == [s.evtt EXCEPT ![t] = z]
           B == [m.ecb EXCEPT ![e] = x]
           r == Handed(s, t, e)
<1>1. s \in StateType /\ Live(s) /\ Marks(s) /\ MemQueue(s)
  BY DEF Core, Waits
<1>2. y \in EvttType /\ y.mark \in Seq(Ecbs) /\ s.memq \in Seq(Ecbs) /\ y.free_vm \in Nat /\ y.vpus \in Nat
  BY <1>1, TypeFields, StateFields
<1>3. ToSet(y.mark) = Lacking(s, t) /\ NoDuplicates(y.mark)
  BY <1>1 DEF Marks
<1>4. k \in Seq(Ecbs) /\ e \in ToSet(y.mark) /\ ToSet(k) = ToSet(y.mark) \ {e} /\ NoDuplicates(k)
  BY SMTT(60), <1>2, <1>3, Tails
<1>5. e \in Ecbs /\ e \in Of(s, t) /\ Lacks(s, e) /\ ~s.ecb[e].vm
  <2>1. e \in Of(s, t) /\ Lacks(s, e) /\ e \in Ecbs
    BY ZenonT(30), <1>3, <1>4 DEF Lacking, Of
  <2> QED
    BY SMTT(60), <1>1, <2>1 DEF Live
<1>6. /\ q \in Seq(Ecbs) /\ ToSet(q) = ToSet(s.memq) \ {e} /\ NoDuplicates(q)
  BY SMTT(60), <1>1, <1>2, WithoutFacts DEF MemQueue
<1>7. /\ m \in StateType /\ m.evtt = s.evtt /\ m.memq = s.memq
      /\ \A w \in Ecbs : /\ m.ecb[w].place = IF w \in {e} THEN "ready" ELSE s.ecb[w].place
                         /\ m.ecb[w].type = s.ecb[w].type /\ m.ecb[w].vm = s.ecb[w].vm
                         /\ m.ecb[w].sync = s.ecb[w].sync
  BY SMTT(60), <1>1, MovedFields DEF Ready, Places
<1>8. r = [m EXCEPT !.evtt = A, !.memq = q, !.ecb = B]
  <2>1. r = [m EXCEPT !.evtt[t].mark = Tail(@), !.memq = Without(@, {e}), !.ecb[e].vm = TRUE]
    BY DEF Handed
  <2> HIDE DEF m, r
  <2> QED
    BY <1>7, <2>1 DEF StateType
<1> HIDE DEF m
<1> HIDE DEF k, q, r
<1>9. /\ z \in EvttType /\ z.mark = k /\ z.pop_sync = y.pop_sync
      /\ z.done_sync = y.done_sync /\ z.deleting = y.deleting
      /\ z.registered = y.registered /\ z.inuse = y.inuse /\ z.kind = y.kind
      /\ z.events = y.events /\ z.vpus = y.vpus /\ z.free_vm = y.free_vm
  <2> HIDE DEF y
  <2> QED
    BY ONLY <1>2, <1>4, MarkField
<1>10. x \in EcbType /\ x.vm = TRUE /\ x.place = m.ecb[e].place /\ x.type = m.ecb[e].type /\ x.sync = m.ecb[e].sync
  <2>1. m.ecb[e] \in EcbType
    BY SMTT(60), <1>5, <1>7, EventFields
  <2> QED
    BY ONLY SMTT(60), <2>1, VmField
<1> HIDE DEF x, z
<1>11. /\ A \in [Evtts -> EvttType] /\ \A u \in Evtts : A[u] = IF u = t THEN z ELSE s.evtt[u]
       /\ B \in [Ecbs -> EcbType] /\ \A w \in Ecbs : B[w] = IF w = e THEN x ELSE m.ecb[w]
  BY ZenonT(30), <1>1, <1>5, <1>7, <1>9, <1>10, StateFields
<1> HIDE DEF A, B
<1>12. r \in StateType /\ r.memq = q /\ r.evtt = A /\ r.ecb = B
  BY <1>6, <1>7, <1>8, <1>11 DEF StateType
<1>13. /\ r.evtt[t] = z /\ \A u \in Evtts \ {t} : r.evtt[u] = s.evtt[u]
  BY <1>11, <1>12
<1>14. /\ r.ecb[e].vm /\ r.ecb[e].place = "ready" /\ r.ecb[e].type = s.ecb[e].type
       /\ r.ecb[e].sync = s.ecb[e].sync
       /\ \A w \in Ecbs \ {e} : /\ r.ecb[w].place = s.ecb[w].place /\ r.ecb[w].type = s.ecb[w].type
                                /\ r.ecb[w].vm = s.ecb[w].vm /\ r.ecb[w].sync = s.ecb[w].sync
  <2>1. r.ecb[e] = x /\ \A w \in Ecbs \ {e} : r.ecb[w] = m.ecb[w]
    BY ZenonT(30), <1>5, <1>11, <1>12
  <2>2. /\ m.ecb[e].place = "ready" /\ m.ecb[e].type = s.ecb[e].type
        /\ m.ecb[e].sync = s.ecb[e].sync
    BY ZenonT(30), <1>5, <1>7
  <2>3. /\ r.ecb[e].vm /\ r.ecb[e].place = "ready" /\ r.ecb[e].type = s.ecb[e].type
        /\ r.ecb[e].sync = s.ecb[e].sync
    BY ZenonT(30), <1>10, <2>1, <2>2
  <2>4. ASSUME NEW w \in Ecbs \ {e}
        PROVE  /\ r.ecb[w].place = s.ecb[w].place /\ r.ecb[w].type = s.ecb[w].type
               /\ r.ecb[w].vm = s.ecb[w].vm /\ r.ecb[w].sync = s.ecb[w].sync
    BY ONLY <1>7, <2>1, <2>4
  <2> QED
    BY ZenonT(30), <2>3, <2>4
<1>15. Steady(s, r)
  BY ZenonT(30), <1>9, <1>13 DEF Steady
<1>16. SameLives(s, r)
  <2>1. s.ecb[e].place \in {"ready", "mem", "none"}
    BY ZenonT(30), <1>5 DEF Lacks
  <2> QED
    BY ZenonT(30), <1>14, <2>1 DEF SameLives
<1>17. Serves(s, r, t, e)
  <2>1. ~Lacks(r, e)
    BY ZenonT(30), <1>14 DEF Lacks
  <2>2. r.evtt[t].free_vm <= s.evtt[t].free_vm
    BY <1>2, <1>9, <1>13
  <2>3. ToSet(r.evtt[t].mark) = ToSet(s.evtt[t].mark) \ {e} /\ NoDuplicates(r.evtt[t].mark)
    BY <1>4, <1>9, <1>13
  <2> QED
    BY ZenonT(30), <1>5, <1>12, <1>13, <1>14, <1>15, <1>16, <2>1, <2>2, <2>3 DEF Serves
<1>18. Core(r, NoEvtt)
  <2>1. t # NoEvtt /\ \A u \in Evtts \ {t} : u = NoEvtt <=> u = t
    BY EvttAssumption
  <2>2. r.evtt[t].vpus - r.evtt[t].free_vm - (IF t = NoEvtt THEN 1 ELSE 0)
          = s.evtt[t].vpus - s.evtt[t].free_vm - (IF t = t THEN 1 ELSE 0) + 1
    BY <1>2, <1>9, <1>13, <2>1
  <2> QED
    BY <1>17, <2>1, <2>2, ServesKeeps
<1>19. MemQueue(r)
  <2>1. \A w \in Ecbs : w \in ToSet(s.memq) <=> s.ecb[w].place = "mem"
    BY ONLY SMTT(60), <1>1 DEF MemQueue
  <2>2. \A w \in Ecbs : w \in ToSet(q) <=> r.ecb[w].place = "mem"
    BY ZenonT(30), <1>6, <1>14, <2>1
  <2> QED
    BY <1>6, <1>12, <2>2 DEF MemQueue
<1>20. Waits(r)
  BY <1>15, <1>16, <1>19, SteadyWaits
<1> QED
  BY <1>18, <1>20 DEF r

(* Djy_EventComplete keeps the thread. *)
LEMMA KeptSafe ==
  ASSUME NEW s, NEW t \in Evtts, Core(s, t), Waits(s),
         s.evtt[t].kind.correlative => ~s.evtt[t].inuse
  PROVE  Core(Kept(s, t), NoEvtt) /\ Waits(Kept(s, t))
<1>1. s \in StateType /\ s.evtt[t].mark \in Seq(Ecbs)
  BY TypeFields DEF Core
<1>2. CASE s.evtt[t].kind.correlative \/ s.evtt[t].mark = << >>
  <2>1. Kept(s, t) = [s EXCEPT !.evtt[t].free_vm = @ + 1]
    BY ZenonT(30), <1>2 DEF Kept
  <2>2. Lacking(s, t) = {}
    <3>1. CASE s.evtt[t].kind.correlative
      <4>1. Of(s, t) = {}
        BY <3>1 DEF Core, Uses
      <4> QED
        BY <4>1 DEF Lacking
    <3>2. CASE ~s.evtt[t].kind.correlative
      <4>1. ToSet(s.evtt[t].mark) = Lacking(s, t)
        BY ONLY t \in Evtts, Core(s, t), <3>2 DEF Core, Marks
      <4> QED
        BY <1>1, <1>2, <3>2, <4>1, Empty
    <3> QED
      BY <3>1, <3>2
  <2> QED
    BY SMTT(60), <2>1, <2>2, KeptIdle
<1>3. CASE ~s.evtt[t].kind.correlative /\ s.evtt[t].mark # << >>
  <2>1. PICK e : e = Head(s.evtt[t].mark)
    BY SMTT(60)
  <2>2. Kept(s, t) = Handed(s, t, e)
    BY ZenonT(30), <1>3, <2>1 DEF Kept, Handed
  <2> QED
    BY <1>3, <2>1, <2>2, KeptHanded
<1> QED
  BY <1>2, <1>3
--------------------------------------------------------------------------------
(***************************************************************************)
(* The steps.                                                              *)
(***************************************************************************)
(* The number of threads that the largest free block may have room for. *)
LEMMA RoomNat == \A s, b, n : b \in Nat /\ s.mem \in Int /\ n \in Room(s, b) => n \in Nat
  BY DEF Room

(* Djy_EvttRegist *)
LEMMA RegistSafe ==
  ASSUME TypesInv, NEW t \in Evtts, NEW k \in Kinds, EvttRegist(t, k)
  PROVE  TypesInv'
<1> DEFINE n == IF k.urgent THEN 1 ELSE 0
           res == IF k.correlative THEN 0 ELSE IF k.vpus_res = 0 /\ k.urgent THEN 1 ELSE k.vpus_res
           kd == [k EXCEPT !.vpus_res = res]
           y == [Unregistered EXCEPT !.registered = TRUE, !.kind = kd, !.vpus = n, !.free_vm = n]
           p == PutType(Now, t, y)
           r == [p EXCEPT !.mem = mem - n]
<1>1. Core(Now, NoEvtt) /\ Waits(Now) /\ Now \in StateType
  BY DEF TypesInv, Core
<1>2. /\ ~Now.evtt[t].registered /\ evtt' = [evtt EXCEPT ![t] = y] /\ mem' = mem - n
      /\ UNCHANGED <<ecb, memq, dead>>
  BY NowFields DEF EvttRegist
<1>3. k \in KindType /\ n \in Nat /\ mem - n \in Int
  <2>1. k \in KindType
    BY EvttAssumption DEF KindType
  <2>2. Now.mem \in Int
    BY <1>1, StateFields
  <2> QED
    BY <2>1, <2>2, NowFields
<1>4. kd \in KindType
  <2>1. res \in Nat
    BY <1>3 DEF KindType
  <2> HIDE DEF res
  <2> QED
    BY <1>3, <2>1 DEF KindType
<1> HIDE DEF n, kd
<1>5. /\ y \in EvttType /\ y.registered = TRUE /\ y.deleting = FALSE /\ y.inuse = FALSE
      /\ y.kind = kd /\ y.events = 0 /\ y.vpus = n /\ y.free_vm = n /\ y.mark = << >>
      /\ y.pop_sync = << >> /\ y.done_sync = << >>
  <2>1. PICK x \in EvttType : x = Unregistered /\ x.deleting = FALSE /\ x.inuse = FALSE
               /\ x.events = 0 /\ x.mark = << >> /\ x.pop_sync = << >> /\ x.done_sync = << >>
    BY UnregisteredFields
  <2>2. y = [x EXCEPT !.registered = TRUE, !.kind = kd, !.vpus = n, !.free_vm = n]
    BY <2>1
  <2> HIDE DEF y
  <2> QED
    BY <1>3, <1>4, <2>1, <2>2 DEF EvttType
<1> HIDE DEF y
<1>6. /\ p \in StateType /\ p.ecb = Now.ecb /\ p.memq = Now.memq /\ p.dead = Now.dead
      /\ \A u \in Evtts : p.evtt[u] = IF u = t THEN y ELSE Now.evtt[u]
  BY <1>1, <1>5, PutTypeFields
<1>7. p.evtt = [evtt EXCEPT ![t] = y]
  BY NowFields DEF PutType, Now
<1> HIDE DEF p
<1>8. /\ r \in StateType /\ r.ecb = p.ecb /\ r.memq = p.memq /\ r.dead = p.dead
      /\ r.evtt = p.evtt /\ r.mem = mem - n
  BY <1>3, <1>6 DEF StateType
<1>9. Become(r)
  BY <1>2, <1>6, <1>7, <1>8, NowFields DEF Become
<1> HIDE DEF r
<1>10. r.evtt[t] = y /\ \A u \in Evtts \ {t} : r.evtt[u] = Now.evtt[u]
  BY <1>6, <1>8
<1>11. OnlyType(Now, r, t, NoEvtt, NoEvtt)
  BY <1>6, <1>8, <1>10 DEF OnlyType
<1>12. Of(Now, t) = {} /\ Busy(Now, t) = {} /\ Lacking(Now, t) = {}
  <2>1. Of(Now, t) = {}
    BY <1>1, <1>2 DEF Core, Uses
  <2> QED
    BY <2>1, Sets
<1>13. Fits(Now, t, r.evtt[t], NoEvtt)
  <2>1. Cardinality(Of(Now, t)) = 0 /\ Cardinality(Busy(Now, t)) = 0
    BY <1>12, FS_EmptySet
  <2>2. y.vpus = y.free_vm + Cardinality(Busy(Now, t)) + (IF t = NoEvtt THEN 1 ELSE 0)
    BY <1>3, <1>5, <2>1, EvttAssumption
  <2>3. ToSet(y.mark) = Lacking(Now, t) /\ NoDuplicates(y.mark)
    BY <1>5, <1>12, NoQueue DEF NoDuplicates
  <2> QED
    BY <1>5, <1>10, <1>12, <2>1, <2>2, <2>3 DEF Fits
<1>14. Core(r, NoEvtt)
  BY <1>1, <1>8, <1>11, <1>13, TypeCore
<1>15. Waits(r)
  <2>1. Now.evtt[t].pop_sync = << >> /\ Now.evtt[t].done_sync = << >>
    BY <1>1, <1>2 DEF Waits, NobodyLeft
  <2>2. \A u \in Evtts : /\ r.evtt[u].done_sync = Now.evtt[u].done_sync
                         /\ r.evtt[u].pop_sync = Now.evtt[u].pop_sync
    BY <1>5, <1>10, <2>1
  <2>3. NobodyLeft(r)
    BY <1>1, <1>5, <1>10 DEF Waits, NobodyLeft
  <2> QED
    BY <1>1, <1>6, <1>8, <2>2, <2>3, QueuesSame
<1> QED
  BY <1>9, <1>14, <1>15, Becomes

(* Djy_EvttUnregist *)
LEMMA UnregistSafe ==
  ASSUME TypesInv, NEW t \in Evtts, EvttUnregist(t)
  PROVE  TypesInv'
<1>1. Core(Now, NoEvtt) /\ Waits(Now) /\ Now \in StateType
  BY DEF TypesInv, Core
<1>2. Now.evtt[t].pop_sync = << >> /\ Now.evtt[t].done_sync = << >>
  BY NowFields DEF EvttUnregist
<1>3. CASE evtt[t].inuse
  <2> DEFINE y == [Now.evtt[t] EXCEPT !.deleting = TRUE]
             r == [Now EXCEPT !.evtt[t].deleting = TRUE]
  <2>1. Become(r)
    BY <1>3 DEF EvttUnregist
  <2>2. r = PutType(Now, t, y)
    BY <1>1 DEF PutType, StateType
  <2>3. /\ y \in EvttType /\ y.pop_sync = << >> /\ y.done_sync = << >>
        /\ y.registered = Now.evtt[t].registered /\ y.inuse = Now.evtt[t].inuse
        /\ y.kind = Now.evtt[t].kind /\ y.events = Now.evtt[t].events
        /\ y.vpus = Now.evtt[t].vpus /\ y.free_vm = Now.evtt[t].free_vm
        /\ y.mark = Now.evtt[t].mark
    <3>1. Now.evtt[t] \in EvttType
      BY <1>1, TypeFields
    <3> QED
      BY ONLY <1>2, <3>1 DEF EvttType
  <2> HIDE DEF y, r
  <2>4. /\ r \in StateType /\ r.ecb = Now.ecb /\ r.memq = Now.memq
        /\ \A u \in Evtts : r.evtt[u] = IF u = t THEN y ELSE Now.evtt[u]
    BY <1>1, <2>2, <2>3, PutTypeFields
  <2>5. Core(r, NoEvtt)
    <3>1. \A e \in Ecbs : SameEvent(Now, r, e)
      BY <2>4 DEF SameEvent, Lacks
    <3>2. \A u \in Evtts : SameCounts(Now, r, u)
      BY <2>3, <2>4 DEF SameCounts
    <3> QED
      BY <1>1, <2>4, <3>1, <3>2, CoreKept
  <2>6. Waits(r)
    <3>1. \A u \in Evtts : /\ r.evtt[u].done_sync = Now.evtt[u].done_sync
                           /\ r.evtt[u].pop_sync = Now.evtt[u].pop_sync
      BY <1>2, <2>3, <2>4
    <3>2. NobodyLeft(r)
      BY <1>1, <2>3, <2>4 DEF Waits, NobodyLeft
    <3> QED
      BY <1>1, <2>4, <3>1, <3>2, QueuesSame
  <2> QED
    BY <2>1, <2>5, <2>6, Becomes
<1>4. CASE ~evtt[t].inuse
  <2> DEFINE m == [Now EXCEPT !.evtt[t] = Unregistered]
             b == evtt[t].free_vm
  <2>1. PICK n \in Room(Now, b) : Become(GiveBack(m, b, n))
    BY <1>4 DEF EvttUnregist
  <2>2. b \in Nat /\ Now.mem \in Int
    BY <1>1, NowFields, TypeFields, StateFields
  <2>3. n \in Nat
    BY <2>2, RoomNat
  <2>4. Core(m, NoEvtt) /\ Waits(m)
    <3>1. ~Now.evtt[t].inuse
      BY <1>4, NowFields
    <3> QED
      BY <1>1, <1>2, <3>1, UnregisterSafe
  <2> HIDE DEF m, b
  <2>5. Core(GiveBack(m, b, n), NoEvtt) /\ Waits(GiveBack(m, b, n))
    BY <2>2, <2>3, <2>4, GiveBackSafe
  <2> QED
    BY <2>1, <2>5, Becomes
<1> QED
  BY <1>3, <1>4

(* Djy_EventComplete: between the release of its control block and the      *)
(* decision about its thread, that thread is held by the type t.            *)
LEMMA EventCompleteSafe ==
  ASSUME TypesInv, NEW e \in Ecbs, EventComplete(e)
  PROVE  TypesInv'
<1> DEFINE t == ecb[e].type
           s == Retired(e)
           y == s.evtt[t]
           gone == y.deleting /\ ~y.inuse
<1>1. /\ t \in Evtts /\ Core(s, t) /\ Waits(s)
      /\ s.evtt[t].kind.correlative => ~s.evtt[t].inuse
  <2>1. Runs(e)
    BY ZenonT(30) DEF EventComplete
  <2> HIDE DEF t, s
  <2>2. t = ecb[e].type /\ s = Retired(e)
    BY ZenonT(60) DEF t, s
  <2> QED
    BY <2>1, <2>2, RetiredSafe
<1>2. \/ gone /\ \E n \in Room(s, y.free_vm) :
                   \E c \in Picks(GiveBack([s EXCEPT !.evtt[t] = Unregistered], y.free_vm, n)) :
                     Become(Selected(GiveBack([s EXCEPT !.evtt[t] = Unregistered],
                                              y.free_vm, n), c))
      \/ \E c \in Picks(s) : Become(Kept(Selected(s, c), t))
      \/ \E c \in Picks(s) : \E n \in Room(Selected(s, c), 1) :
           \E d \in NoThreadToRun(Selected(s, c), Destroyed(Selected(s, c), t, n)) :
             Become([Destroyed(Selected(s, c), t, n) EXCEPT !.dead = d])
  BY ZenonT(30) DEF EventComplete
<1> HIDE DEF s, t
<1>3. CASE gone /\ \E n \in Room(s, y.free_vm) :
                   \E c \in Picks(GiveBack([s EXCEPT !.evtt[t] = Unregistered], y.free_vm, n)) :
                     Become(Selected(GiveBack([s EXCEPT !.evtt[t] = Unregistered],
                                              y.free_vm, n), c))
  <2> DEFINE m == [s EXCEPT !.evtt[t] = Unregistered]
             b == y.free_vm
  <2>1. PICK n \in Room(s, b) : \E c \in Picks(GiveBack(m, b, n)) :
               Become(Selected(GiveBack(m, b, n), c))
    BY <1>3
  <2>2. b \in Nat /\ s.mem \in Int
    BY <1>1, TypeFields, StateFields DEF Core
  <2>3. n \in Nat
    BY <2>2, RoomNat
  <2>4. Core(m, NoEvtt) /\ Waits(m)
    <3>1. s.evtt[t].pop_sync = << >> /\ s.evtt[t].done_sync = << >>
      BY <1>1, <1>3 DEF Waits, NobodyLeft
    <3> QED
      BY <1>1, <1>3, <3>1, UnregisterSafe
  <2> HIDE DEF m, b
  <2> DEFINE r == GiveBack(m, b, n)
  <2>5. Core(r, NoEvtt) /\ Waits(r)
    BY <2>2, <2>3, <2>4, GiveBackSafe
  <2>6. PICK c \in Picks(r) : Become(Selected(r, c))
    BY <2>1
  <2> HIDE DEF r
  <2>7. Core(Selected(r, c), NoEvtt) /\ Waits(Selected(r, c))
    BY <2>5, SelectedSafe
  <2> QED
    BY <2>6, <2>7, Becomes
<1>4. ASSUME NEW c \in Picks(s)
      PROVE  /\ Core(Selected(s, c), t) /\ Waits(Selected(s, c))
             /\ Selected(s, c).evtt[t].kind.correlative => ~Selected(s, c).evtt[t].inuse
  <2> DEFINE v == Selected(s, c)
  <2>1. Core(v, t) /\ Waits(v) /\ Steady(s, v)
    BY <1>1, SelectedSafe
  <2> HIDE DEF v
  <2>2. v.evtt[t].kind = s.evtt[t].kind /\ v.evtt[t].inuse = s.evtt[t].inuse
    BY <1>1, <2>1 DEF Steady
  <2>3. v.evtt[t].kind.correlative => ~v.evtt[t].inuse
    BY <1>1, <2>2
  <2> QED
    BY <2>1, <2>3 DEF v
<1>5. ASSUME NEW c \in Picks(s), Become(Kept(Selected(s, c), t))
      PROVE  TypesInv'
  <2> DEFINE v == Selected(s, c)
  <2>1. Core(v, t) /\ Waits(v) /\ (v.evtt[t].kind.correlative => ~v.evtt[t].inuse)
    BY <1>4
  <2>2. Become(Kept(v, t))
    BY <1>5
  <2> HIDE DEF v
  <2>3. Core(Kept(v, t), NoEvtt) /\ Waits(Kept(v, t))
    BY <1>1, <2>1, KeptSafe
  <2> QED
    BY <2>2, <2>3, Becomes
<1>6. ASSUME NEW c \in Picks(s), NEW n \in Room(Selected(s, c), 1),
             NEW d \in NoThreadToRun(Selected(s, c), Destroyed(Selected(s, c), t, n)),
             Become([Destroyed(Selected(s, c), t, n) EXCEPT !.dead = d])
      PROVE  TypesInv'
  <2> DEFINE v == Selected(s, c)
             r == Destroyed(v, t, n)
  <2>1. Core(v, t) /\ Waits(v)
    BY <1>4
  <2>2. Become([Destroyed(v, t, n) EXCEPT !.dead = d]) /\ n \in Room(v, 1)
    BY <1>6
  <2>3. d \in NoThreadToRun(v, r)
    BY <1>6
  <2> HIDE DEF v
  <2>4. n \in Nat
    <3>1. v.mem \in Int
      BY <2>1, StateFields DEF Core
    <3> QED
      BY <2>2, <3>1, RoomNat
  <2>5. d \in BOOLEAN
    <3> DEFINE g == GiveBack(v, 1, n)
    <3>1. g \in StateType
      BY <2>1, <2>4, GiveBackSafe DEF Core
    <3>2. r = [g EXCEPT !.evtt[t].vpus = @ - 1]
      BY DEF Destroyed
    <3> HIDE DEF g, r
    <3>3. r.dead = g.dead
      BY <3>1, <3>2 DEF StateType
    <3>4. r.dead \in BOOLEAN
      BY <3>1, <3>3, StateFields
    <3> QED
      BY <2>3, <3>4 DEF NoThreadToRun
  <2> HIDE DEF r
  <2> DEFINE q == [Destroyed(v, t, n) EXCEPT !.dead = d]
  <2>6. Core(q, NoEvtt) /\ Waits(q)
    BY <1>1, <2>1, <2>4, <2>5, DestroyedSafe
  <2> HIDE DEF q
  <2>7. Become(q)
    BY <2>2 DEF q
  <2> QED
    BY <2>6, <2>7, Becomes
<1> QED
  BY <1>2, <1>3, <1>5, <1>6

(* The three ways to wait, and the end of a wait. *)
LEMMA WaitSafe ==
  ASSUME TypesInv, NEW e \in Ecbs
  PROVE  /\ \A x \in Ecbs : WaitEventCompleted(e, x) => TypesInv'
         /\ \A t \in Evtts, n \in Int : WaitEvttCompleted(e, t, n) => TypesInv'
         /\ \A t \in Evtts, n \in Int : WaitEvttPop(e, t, n) => TypesInv'
         /\ Timeout(e) => TypesInv'
<1>1. Core(Now, NoEvtt) /\ Waits(Now)
  BY DEF TypesInv
<1>2. ASSUME NEW x \in Ecbs, WaitEventCompleted(e, x) PROVE TypesInv'
  <2> DEFINE r == [Waiting(Now, e, "event", 0) EXCEPT !.ecb[x].sync = Append(@, e)]
  <2>1. Now.ecb[e].place = "ready" /\ Now.ecb[x].place # "free" /\ Become(r)
    BY <1>2, NowFields DEF WaitEventCompleted, Runs
  <2>2. Core(r, NoEvtt) /\ Waits(r)
    BY <1>1, <2>1, JoinEvent
  <2> HIDE DEF r
  <2> QED
    BY <2>1, <2>2, Becomes
<1>3. ASSUME NEW t \in Evtts, NEW n \in Int, WaitEvttCompleted(e, t, n) PROVE TypesInv'
  <2> DEFINE r == [Waiting(Now, e, "done", n) EXCEPT !.evtt[t].done_sync = Insert(@, e, n)]
  <2>1. /\ Now.ecb[e].place = "ready" /\ Now.evtt[t].registered /\ ~Now.evtt[t].deleting
        /\ Become(r)
    BY <1>3, NowFields DEF WaitEvttCompleted, Runs
  <2>2. Core(r, NoEvtt) /\ Waits(r)
    BY <1>1, <2>1, JoinDone
  <2> HIDE DEF r
  <2> QED
    BY <2>1, <2>2, Becomes
<1>4. ASSUME NEW t \in Evtts, NEW n \in Int, WaitEvttPop(e, t, n) PROVE TypesInv'
  <2> DEFINE r == [Waiting(Now, e, "pop", n) EXCEPT !.evtt[t].pop_sync = Insert(@, e, n)]
  <2>1. /\ Now.ecb[e].place = "ready" /\ Now.evtt[t].registered /\ ~Now.evtt[t].deleting
        /\ Become(r)
    BY <1>4, NowFields DEF WaitEvttPop, Runs
  <2>2. Core(r, NoEvtt) /\ Waits(r)
    BY <1>1, <2>1, JoinPop
  <2> HIDE DEF r
  <2> QED
    BY <2>1, <2>2, Becomes
<1>5. ASSUME Timeout(e) PROVE TypesInv'
  <2> DEFINE r == Ready(Unlinked(Now, e), {e})
  <2>1. Now.ecb[e].place \in {"event", "done", "pop"} /\ Become(r)
    BY <1>5, NowFields DEF Timeout
  <2>2. Core(r, NoEvtt) /\ Waits(r)
    BY <1>1, <2>1, TimeoutSafe
  <2> HIDE DEF r
  <2> QED
    BY <2>1, <2>2, Becomes
<1> QED
  BY <1>2, <1>3, <1>4, <1>5

(* The waiters of an event are woken, and a thread is looked for. *)
LEMMA ScheduleSafe ==
  ASSUME TypesInv
  PROVE  /\ \A e \in Ecbs : EventSessionComplete(e) => TypesInv'
         /\ Schedule => TypesInv'
<1>1. Core(Now, NoEvtt) /\ Waits(Now)
  BY DEF TypesInv
<1>2. ASSUME NEW e \in Ecbs, EventSessionComplete(e) PROVE TypesInv'
  <2> DEFINE r == [Ready(Now, ToSet(Now.ecb[e].sync)) EXCEPT !.ecb[e].sync = << >>]
  <2>1. Become(r)
    BY SMTT(60), <1>2, NowFields DEF EventSessionComplete
  <2>2. Core(r, NoEvtt) /\ Waits(r)
    BY SMTT(60), <1>1, SessionSafe
  <2> HIDE DEF r
  <2> QED
    BY <2>1, <2>2, Becomes
<1>3. ASSUME Schedule PROVE TypesInv'
  <2>1. PICK c \in Picks(Now) : Become(Selected(Now, c))
    BY <1>3 DEF Schedule
  <2>2. Core(Selected(Now, c), NoEvtt) /\ Waits(Selected(Now, c))
    BY <1>1, SelectedSafe
  <2> QED
    BY <2>1, <2>2, Becomes
<1> QED
  BY <1>2, <1>3

(* Memory is taken and released by the application. *)
LEMMA MemorySafe ==
  ASSUME TypesInv
  PROVE  (TakeMemory \/ GiveMemory) => TypesInv'
<1>1. Core(Now, NoEvtt) /\ Waits(Now) /\ Now \in StateType /\ Now.mem \in Int
  BY StateFields DEF TypesInv, Core
<1>2. ASSUME TakeMemory PROVE TypesInv'
  <2> DEFINE r == [Now EXCEPT !.mem = @ - 1]
  <2>1. /\ r \in StateType /\ r.evtt = Now.evtt /\ r.ecb = Now.ecb /\ r.memq = Now.memq
        /\ r.dead = Now.dead /\ r.mem = Now.mem - 1
    BY <1>1 DEF StateType
  <2>2. Become(r)
    BY <1>2, <2>1, NowFields DEF TakeMemory, Become
  <2> HIDE DEF r
  <2>3. Core(r, NoEvtt)
    <3>1. \A e \in Ecbs : SameEvent(Now, r, e)
      BY <2>1 DEF SameEvent, Lacks
    <3>2. \A u \in Evtts : SameCounts(Now, r, u)
      BY <2>1 DEF SameCounts
    <3> QED
      BY <1>1, <2>1, <3>1, <3>2, CoreKept
  <2>4. Waits(r)
    <3>1. NobodyLeft(r)
      BY <1>1, <2>1 DEF Waits, NobodyLeft
    <3> QED
      BY <1>1, <2>1, <3>1, QueuesSame
  <2> QED
    BY <2>2, <2>3, <2>4, Becomes
<1>3. ASSUME GiveMemory PROVE TypesInv'
  <2>1. PICK n \in Room(Now, 1) : Become(GiveBack(Now, 1, n))
    BY <1>3 DEF GiveMemory
  <2>2. n \in Nat
    BY <1>1, RoomNat
  <2>3. Core(GiveBack(Now, 1, n), NoEvtt) /\ Waits(GiveBack(Now, 1, n))
    BY <1>1, <2>2, GiveBackSafe
  <2> QED
    BY <2>1, <2>3, Becomes
<1> QED
  BY <1>2, <1>3

(* Nothing is registered, every control block is free. *)
LEMMA InitTypes == Init => TypesInv
<1> SUFFICES ASSUME Init PROVE TypesInv
  OBVIOUS
<1>1. /\ Now.evtt = [t \in Evtts |-> Unregistered] /\ Now.ecb = [e \in Ecbs |-> FreeEcb]
      /\ Now.memq = << >> /\ Now.mem = Memory /\ Now.dead = FALSE
  BY NowFields DEF Init
<1>2. /\ \A t \in Evtts : Now.evtt[t] = Unregistered
      /\ \A e \in Ecbs : Now.ecb[e] = FreeEcb
  BY <1>1
<1>3. Now \in StateType
  <2>1. evtt \in [Evtts -> EvttType]
    BY UnregisteredFields DEF Init
  <2>2. ecb \in [Ecbs -> EcbType]
    BY FreeFields DEF Init
  <2>3. memq \in Seq(Ecbs) /\ mem \in Int /\ dead \in BOOLEAN
    <3>1. memq \in Seq(Ecbs)
      BY Zenon, NoQueue DEF Init
    <3>2. mem \in Int
      BY EvttAssumption DEF Init
    <3>3. dead \in BOOLEAN
      BY DEF Init
    <3> QED
      BY <3>1, <3>2, <3>3
  <2> QED
    BY ONLY <2>1, <2>2, <2>3 DEF Now, StateType
<1>4. \A t \in Evtts : Of(Now, t) = {} /\ Busy(Now, t) = {} /\ Lacking(Now, t) = {}
  BY <1>2, FreeFields DEF Of, Busy, Lacking
<1>5. Live(Now)
  BY <1>2, FreeFields DEF Live, Lacks
<1>6. Counted(Now, NoEvtt)
  <2>1. Cardinality({}) = 0
    BY FS_EmptySet
  <2> SUFFICES ASSUME NEW t \in Evtts
               PROVE  /\ Now.evtt[t].events = Cardinality(Of(Now, t))
                      /\ Now.evtt[t].vpus = Now.evtt[t].free_vm + Cardinality(Busy(Now, t))
                                            + (IF t = NoEvtt THEN 1 ELSE 0)
    BY DEF Counted
  <2>2. t # NoEvtt /\ Cardinality(Of(Now, t)) = 0 /\ Cardinality(Busy(Now, t)) = 0
    BY <1>4, <2>1, EvttAssumption
  <2>3. Now.evtt[t].events = 0 /\ Now.evtt[t].vpus = 0 /\ Now.evtt[t].free_vm = 0
    BY <1>2, UnregisteredFields
  <2> QED
    BY <2>2, <2>3
<1>7. NoIdle(Now) /\ Uses(Now) /\ Marks(Now)
  BY <1>2, <1>4, UnregisteredFields DEF NoIdle, Uses, Marks
<1>8. Core(Now, NoEvtt)
  BY <1>3, <1>5, <1>6, <1>7 DEF Core
<1>9. Hold(SyncOf(Now), Ecbs, PlaceOf(Now), "event")
  BY <1>2, FreeFields, NoQueue DEF Hold, SyncOf, PlaceOf
<1>10. Hold(DoneOf(Now), Evtts, PlaceOf(Now), "done")
  BY <1>2, FreeFields, UnregisteredFields, NoQueue DEF Hold, DoneOf, PlaceOf
<1>11. Hold(PopOf(Now), Evtts, PlaceOf(Now), "pop")
  BY <1>2, FreeFields, UnregisteredFields, NoQueue DEF Hold, PopOf, PlaceOf
<1>12. MemQueue(Now)
  BY <1>1, <1>2, FreeFields, NoQueue DEF MemQueue, NoDuplicates
<1>13. NobodyLeft(Now)
  BY <1>2, UnregisteredFields DEF NobodyLeft
<1> QED
  BY <1>8, <1>9, <1>10, <1>11, <1>12, <1>13 DEF TypesInv, Waits

(* Every step keeps the invariant. *)
LEMMA StepTypes == TypesInv /\ [Next]_vars => TypesInv'
<1> SUFFICES ASSUME TypesInv, [Next]_vars PROVE TypesInv'
  OBVIOUS
<1>1. CASE UNCHANGED vars
  <2>1. Now' = Now
    BY <1>1 DEF vars, Now
  <2>2. Core(Now, NoEvtt) /\ Waits(Now) /\ Become(Now)
    BY <1>1, NowFields DEF TypesInv, vars, Become
  <2> QED
    BY <2>2, Becomes
<1>2. ASSUME NEW t \in Evtts, NEW k \in Kinds, EvttRegist(t, k) PROVE TypesInv'
  BY <1>2, RegistSafe
<1>3. ASSUME NEW t \in Evtts, EvttUnregist(t) PROVE TypesInv'
  BY <1>3, UnregistSafe
<1>4. ASSUME NEW c \in Ecbs \cup {NoEcb}, NEW h \in Ecbs \cup {NoEcb}, NEW t \in Evtts,
             NEW w \in BOOLEAN, EventPop(c, t, h, w)
      PROVE  TypesInv'
  BY <1>4, EventPopSafe
<1>5. ASSUME NEW e \in Ecbs, NEW x \in Ecbs, WaitEventCompleted(e, x) PROVE TypesInv'
  BY <1>5, WaitSafe
<1>6. ASSUME NEW e \in Ecbs, NEW t \in Evtts, NEW n \in 0..MaxTimes, WaitEvttCompleted(e, t, n)
      PROVE  TypesInv'
  BY <1>6, WaitSafe
<1>7. ASSUME NEW e \in Ecbs, NEW t \in Evtts, NEW n \in 1..MaxTimes, WaitEvttPop(e, t, n)
      PROVE  TypesInv'
  BY <1>7, WaitSafe
<1>8. ASSUME NEW e \in Ecbs, Timeout(e) PROVE TypesInv'
  BY <1>8, WaitSafe
<1>9. ASSUME NEW e \in Ecbs, EventSessionComplete(e) PROVE TypesInv'
  BY <1>9, ScheduleSafe
<1>10. ASSUME NEW e \in Ecbs, EventComplete(e) PROVE TypesInv'
  BY <1>10, EventCompleteSafe
<1>11. Schedule \/ TakeMemory \/ GiveMemory => TypesInv'
  BY ScheduleSafe, MemorySafe
<1> QED
  BY SMTT(60), <1>1, <1>2, <1>3, <1>4, <1>5, <1>6, <1>7, <1>8, <1>9, <1>10, <1>11 DEF Next

(***************************************************************************)
(* The inductive invariant of event types: in every reachable state the    *)
(* counters agree with the events and the threads there are, no thread is  *)
(* idle beside an event of its type that lacks one, and every waiter is in *)
(* the one queue that its place names.                                     *)
(***************************************************************************)
THEOREM TypesInvariance == Spec => []TypesInv
<1> QED
  BY InitTypes, StepTypes, PTL DEF Spec

(* `events' and `vpus', from which Djy_EventComplete decides what becomes   *)
(* of a thread, are the numbers of events and of threads of the type,       *)
(* whoever registers, pops, waits, completes or allocates in between.       *)
THEOREM ThreadsAreAccounted == Spec => []ThreadsAccounted
<1>1. TypesInv => ThreadsAccounted
  <2> SUFFICES ASSUME TypesInv, NEW t \in Evtts
               PROVE  /\ evtt[t].events = Cardinality(EventsOf(t))
                      /\ evtt[t].vpus = evtt[t].free_vm
                                        + Cardinality({e \in EventsOf(t) : ecb[e].vm})
    BY DEF ThreadsAccounted
  <2>1. /\ Now.evtt[t].events = Cardinality(Of(Now, t))
        /\ Now.evtt[t].vpus = Now.evtt[t].free_vm + Cardinality(Busy(Now, t))
                              + (IF t = NoEvtt THEN 1 ELSE 0)
    BY DEF TypesInv, Core, Counted
  <2>2. EventsOf(t) = Of(Now, t) /\ {e \in EventsOf(t) : ecb[e].vm} = Busy(Now, t)
    <3>1. EventsOf(t) = Of(Now, t)
      BY NowFields DEF EventsOf, Of
    <3>2. {e \in Of(Now, t) : ecb[e].vm} = Busy(Now, t)
      BY NowFields DEF Busy
    <3> QED
      BY <3>1, <3>2
  <2>3. t # NoEvtt /\ Now.evtt[t].free_vm \in Nat /\ Cardinality(Busy(Now, t)) \in Nat
    <3>1. Now \in StateType /\ Busy(Now, t) \in SUBSET Ecbs
      BY Sets DEF TypesInv, Core
    <3> QED
      BY <3>1, EvttAssumption, TypeFields, Counts
  <2>4. Now.evtt[t].vpus = Now.evtt[t].free_vm + Cardinality(Busy(Now, t))
    BY <2>1, <2>3
  <2>5. /\ evtt[t].events = Cardinality(Of(Now, t))
        /\ evtt[t].vpus = evtt[t].free_vm + Cardinality(Busy(Now, t))
    BY <2>1, <2>4, NowFields
  <2> QED
    BY Zenon, <2>2, <2>5
<1> QED
  BY <1>1, TypesInvariance, PTL

(* An event that waits for the memory of a thread never does so while its   *)
(* type has an idle one: Djy_EventComplete hands the thread it keeps to the *)
(* first of mark_event, and __Djy_SelectEventToRun takes idle ones first.   *)
THEOREM NobodyWaitsIdly == Spec => []NobodyWaitsBesideAnIdleThread
<1>1. TypesInv => NobodyWaitsBesideAnIdleThread
  <2> SUFFICES ASSUME TypesInv, NEW e \in Ecbs, ecb[e].place \in {"mem", "none"}
               PROVE  evtt[ecb[e].type].free_vm = 0
    BY DEF NobodyWaitsBesideAnIdleThread
  <2> DEFINE t == Now.ecb[e].type
  <2>1. Lacks(Now, e) /\ Now.ecb[e].place # "free"
    BY NowFields DEF Lacks
  <2>2. t \in Evtts
    BY <2>1 DEF TypesInv, Core, Live
  <2>3. e \in Lacking(Now, t)
    BY <2>1 DEF Lacking, Of
  <2>4. Now.evtt[t].free_vm = 0
    BY <2>2, <2>3 DEF TypesInv, Core, NoIdle
  <2> QED
    BY <2>4, NowFields
<1> QED
  BY <1>1, TypesInvariance, PTL

(* A queue of its place holds a waiter, and no other queue does.            *)
LEMMA HoldCounts ==
  ASSUME NEW F, NEW D, NEW pl, NEW p, Hold(F, D, pl, p), NEW w \in Ecbs
  PROVE  Cardinality({x \in D : w \in F[x]}) = IF pl[w] = p THEN 1 ELSE 0
<1> DEFINE X == {x \in D : w \in F[x]}
<1>1. CASE pl[w] = p
  <2>1. PICK x \in D : w \in F[x]
    BY <1>1 DEF Hold
  <2>2. X = {x}
    BY <2>1 DEF Hold
  <2> HIDE DEF X
  <2>3. Cardinality(X) = 1
    BY SMTT(60), <2>2, FS_Singleton
  <2> QED
    BY <1>1, <2>3 DEF X
<1>2. CASE pl[w] # p
  <2>1. X = {}
    BY <1>2 DEF Hold
  <2> HIDE DEF X
  <2>2. Cardinality(X) = 0
    BY <2>1, FS_EmptySet
  <2> QED
    BY <1>2, <2>2 DEF X
<1> QED
  BY <1>1, <1>2

(* Whoever waits for an event, for completions or pops of a type or for     *)
(* memory is in exactly the one queue that will wake it; a wake, a timeout, *)
(* a completion and Djy_EvttUnregist leave nobody behind.                   *)
THEOREM WaitersAreHeld == Spec => []WaitersHaveTargets
<1>1. TypesInv => WaitersHaveTargets
  <2> SUFFICES ASSUME TypesInv, NEW w \in Ecbs
               PROVE  /\ Cardinality({e \in Ecbs : w \in ToSet(ecb[e].sync)})
                           = IF ecb[w].place = "event" THEN 1 ELSE 0
                      /\ Cardinality({t \in Evtts : w \in ToSet(evtt[t].done_sync)})
                           = IF ecb[w].place = "done" THEN 1 ELSE 0
                      /\ Cardinality({t \in Evtts : w \in ToSet(evtt[t].pop_sync)})
                           = IF ecb[w].place = "pop" THEN 1 ELSE 0
                      /\ w \in ToSet(memq) <=> ecb[w].place = "mem"
                      /\ ecb[w].place = "free" => ecb[w].sync = << >>
    BY DEF WaitersHaveTargets
  <2>1. PlaceOf(Now)[w] = ecb[w].place
    BY NowFields DEF PlaceOf
  <2>2. Cardinality({e \in Ecbs : w \in ToSet(ecb[e].sync)})
          = IF ecb[w].place = "event" THEN 1 ELSE 0
    <3>1. {e \in Ecbs : w \in ToSet(ecb[e].sync)} = {e \in Ecbs : w \in SyncOf(Now)[e]}
      BY NowFields DEF SyncOf
    <3>2. Hold(SyncOf(Now), Ecbs, PlaceOf(Now), "event")
      BY DEF TypesInv, Waits
    <3> QED
      BY <2>1, <3>1, <3>2, HoldCounts
  <2>3. Cardinality({t \in Evtts : w \in ToSet(evtt[t].done_sync)})
          = IF ecb[w].place = "done" THEN 1 ELSE 0
    <3>1. {t \in Evtts : w \in ToSet(evtt[t].done_sync)} = {t \in Evtts : w \in DoneOf(Now)[t]}
      BY NowFields DEF DoneOf
    <3>2. Hold(DoneOf(Now), Evtts, PlaceOf(Now), "done")
      BY DEF TypesInv, Waits
    <3> QED
      BY <2>1, <3>1, <3>2, HoldCounts
  <2>4. Cardinality({t \in Evtts : w \in ToSet(evtt[t].pop_sync)})
          = IF ecb[w].place = "pop" THEN 1 ELSE 0
    <3>1. {t \in Evtts : w \in ToSet(evtt[t].pop_sync)} = {t \in Evtts : w \in PopOf(Now)[t]}
      BY NowFields DEF PopOf
    <3>2. Hold(PopOf(Now), Evtts, PlaceOf(Now), "pop")
      BY DEF TypesInv, Waits
    <3> QED
      BY <2>1, <3>1, <3>2, HoldCounts
  <2>5. w \in ToSet(memq) <=> ecb[w].place = "mem"
    BY NowFields DEF TypesInv, Waits, MemQueue
  <2>6. ecb[w].place = "free" => ecb[w].sync = << >>
    BY NowFields DEF TypesInv, Core, Live
  <2> QED
    BY <2>2, <2>3, <2>4, <2>5, <2>6
<1> QED
  BY <1>1, TypesInvariance, PTL

(* A correlative type has at most one event, mark_event, through which      *)
(* Djy_EventPop reaches it: it is that of a type in use and of no other.    *)
THEOREM CorrelativeStaysSingle == Spec => []CorrelativeIsSingle
<1>1. TypesInv => CorrelativeIsSingle
  <2>1. ASSUME TypesInv
        PROVE  \A t \in Evtts : evtt[t].kind.correlative =>
                 EventsOf(t) = IF evtt[t].inuse THEN {evtt[t].mark[1]} ELSE {}
    <3>1. \A t \in Evtts : EventsOf(t) = Of(Now, t)
      BY NowFields DEF EventsOf, Of
    <3> QED
      BY <2>1, <3>1, NowFields DEF TypesInv, Core, Uses
  <2> QED
    BY <2>1 DEF CorrelativeIsSingle
<1> QED
  BY <1>1, TypesInvariance, PTL
================================================================================
