----------------------------- MODULE EventTypes -----------------------------
(* Event types, the events popped from them and the threads that serve them, *)
(* djyos/core/djyos.c: registration, Djy_EventPop, the four ways to wait for *)
(* an event or a type, Djy_EventComplete with its decision what becomes of   *)
(* the thread, and the queue of events that wait for the memory of a thread, *)
(* which djyos/heap/heap-dynamic.c serves.  All of them run with asynchronous*)
(* signals off, so each is one step.  Priorities are left out: any ready     *)
(* event can be the first of the ready queue, and any that has a thread can  *)
(* be running; the system service event always is ready.                     *)
EXTENDS Integers, Sequences, SequencesExt, FiniteSets, FiniteSetsExt

CONSTANTS Evtts,     \* g_ptEvttTable
          Ecbs,      \* g_ptECB_Table without the system service event
          Kinds,     \* what types are registered as
          Memory,    \* bound: how many threads the heap has room for
          MaxTimes,  \* bound: counts that waiters ask for
          NoEcb,     \* no event: an interrupt service routine, a type's id
          NoEvtt     \* CN_EVTT_ID_INVALID

ASSUME EvttAssumption ==
    /\ IsFiniteSet(Ecbs)
    /\ Kinds \subseteq [correlative : BOOLEAN, urgent : BOOLEAN,
                        vpus_res : Nat, vpus_limit : Nat]
    /\ Memory \in Nat
    /\ MaxTimes \in Nat
    /\ NoEcb \notin Ecbs
    /\ NoEvtt \notin Evtts

VARIABLES evtt,     \* the event types
          ecb,      \* the events
          memq,     \* s_ptMemSync: events that wait for the memory of a thread
          mem,      \* threads that the heap still has room for
          taken,    \* memory that the application has taken
          dead      \* an endless loop with signals off, or a switch to no thread

vars == <<evtt, ecb, memq, mem, taken, dead>>

Unregistered ==
    [registered |-> FALSE, deleting |-> FALSE, inuse |-> FALSE,
     kind |-> [correlative |-> TRUE, urgent |-> FALSE, vpus_res |-> 0,
               vpus_limit |-> 0],
     events |-> 0, vpus |-> 0, free_vm |-> 0, mark |-> << >>,
     pop_sync |-> << >>, done_sync |-> << >>]

\* `place' is the list an event is in: the free list, the ready queue, the
\* queue of an event, of a type or of the heap; or none at all.
FreeEcb == [place |-> "free", type |-> NoEvtt, vm |-> FALSE, counter |-> 0,
            sync |-> << >>]

Init == /\ evtt = [t \in Evtts |-> Unregistered]
        /\ ecb = [e \in Ecbs |-> FreeEcb]
        /\ memq = << >>
        /\ mem = Memory
        /\ taken = 0
        /\ dead = FALSE

\* The functions of the kernel are composed of pieces that map one state to
\* the next: a state is a record, and a step moves to such a record.
Now == [evtt |-> evtt, ecb |-> ecb, memq |-> memq, mem |-> mem, dead |-> dead]

Become(s) == /\ evtt' = s.evtt
             /\ ecb' = s.ecb
             /\ memq' = s.memq
             /\ mem' = s.mem
             /\ dead' = s.dead

\* A queue without the events in X, as SelectSeq would leave it, in closed
\* form: the k-th that stays is the one of rank k.
Without(q, X) ==
    LET Stay    == {i \in 1 .. Len(q) : q[i] \notin X}
        Rank(i) == Cardinality({j \in Stay : j <= i})
    IN  [k \in 1 .. Cardinality(Stay) |-> q[CHOOSE i \in Stay : Rank(i) = k]]

Moved(s, X, place) ==
    [s EXCEPT !.ecb = [e \in Ecbs |->
                         IF e \in X THEN [s.ecb[e] EXCEPT !.place = place]
                                    ELSE s.ecb[e]]]

Ready(s, X) == Moved(s, X, "ready")

Waiting(s, e, place, n) == [s EXCEPT !.ecb[e].place = place,
                                     !.ecb[e].counter = n]

\* An event that runs, or could.
Runs(e) == ecb[e].place = "ready" /\ ecb[e].vm
-----------------------------------------------------------------------------
\* __M_FreeHeap gives back the memory of m threads when the largest block has
\* room for n: the first waiters are made ready, except that the last of all
\* is unlinked and not put into any list.  Unlinking a correlative event from
\* the mark queue, which it is not in, goes through null pointers.
GiveBack(s, m, n) ==
    LET k     == IF n < Len(s.memq) THEN n ELSE Len(s.memq)
        All   == ToSet(SubSeq(s.memq, 1, k))
        Woken == IF k > 0 /\ k = Len(s.memq) THEN All \ {Last(s.memq)} ELSE All
        s1    == Moved(Ready(s, Woken), All \ Woken, "none")
        s2    == [s1 EXCEPT !.evtt = [t \in Evtts |->
                    [s1.evtt[t] EXCEPT !.mark =
                       IF s1.evtt[t].kind.correlative THEN @
                                                      ELSE Without(@, Woken)]]]
    IN  [s2 EXCEPT !.memq = SubSeq(@, k + 1, Len(@)),
                   !.mem = @ + m,
                   !.dead = @ \/ \E e \in Woken :
                                    s.evtt[s.ecb[e].type].kind.correlative]

\* The threads that the largest free block may have room for after that.
Room(s, m) == (IF m = 0 THEN 0 ELSE 1) .. s.mem + m

\* Application code allocates and releases memory of its own.
TakeMemory ==
    /\ mem > 0
    /\ mem' = mem - 1
    /\ taken' = taken + 1
    /\ UNCHANGED <<evtt, ecb, memq, dead>>

GiveMemory ==
    /\ taken > 0
    /\ taken' = taken - 1
    /\ \E n \in Room(Now, 1) : Become(GiveBack(Now, 1, n))
-----------------------------------------------------------------------------
\* Djy_EvttRegist; it fails if there is no memory for the first thread.
EvttRegist(t, k) ==
    /\ ~ evtt[t].registered
    /\ k.urgent => mem > 0
    /\ LET n == IF k.urgent THEN 1 ELSE 0
       IN  /\ evtt' = [evtt EXCEPT ![t] =
                 [Unregistered EXCEPT
                    !.registered = TRUE,
                    !.kind = [k EXCEPT !.vpus_res =
                                IF k.correlative THEN 0
                                ELSE IF @ = 0 /\ k.urgent THEN 1 ELSE @],
                    !.vpus = n,
                    !.free_vm = n]]
           /\ mem' = mem - n
    /\ UNCHANGED <<ecb, memq, taken, dead>>

\* Djy_EvttUnregist, called when no event waits for the type; otherwise it
\* would put the waiters for its pops into the ready queue again and again.
\* It is called once for a type: it only notes that a type is not registered,
\* and would release the idle threads that it has released already.
EvttUnregist(t) ==
    /\ evtt[t].registered
    /\ ~ evtt[t].deleting
    /\ evtt[t].pop_sync = << >>
    /\ evtt[t].done_sync = << >>
    /\ IF evtt[t].inuse
       THEN Become([Now EXCEPT !.evtt[t].deleting = TRUE])
       ELSE \E n \in Room(Now, evtt[t].free_vm) :
              Become(GiveBack([Now EXCEPT !.evtt[t] = Unregistered],
                              evtt[t].free_vm, n))
    /\ UNCHANGED taken
-----------------------------------------------------------------------------
\* The place of a waiter for n pops or completions among the others.
Insert(q, e, n) ==
    LET Behind == {i \in 1 .. Len(q) : ecb[q[i]].counter >= n}
    IN  IF Behind = {} \/ ecb[q[1]].counter = n THEN Append(q, e)
        ELSE InsertAt(q, Min(Behind), e)

\* Djy_WaitEventCompleted
WaitEventCompleted(e, x) ==
    /\ Runs(e)
    /\ e # x
    /\ ecb[x].place # "free"
    /\ Become([Waiting(Now, e, "event", 0) EXCEPT
                 !.ecb[x].sync = Append(@, e)])
    /\ UNCHANGED taken

\* Djy_WaitEvttCompleted
WaitEvttCompleted(e, t, n) ==
    /\ Runs(e)
    /\ evtt[t].registered /\ ~ evtt[t].deleting
    /\ Become([Waiting(Now, e, "done", n) EXCEPT
                 !.evtt[t].done_sync = Insert(@, e, n)])
    /\ UNCHANGED taken

\* Djy_WaitEvttPop, when the condition does not hold already.
WaitEvttPop(e, t, n) ==
    /\ Runs(e)
    /\ evtt[t].registered /\ ~ evtt[t].deleting
    /\ Become([Waiting(Now, e, "pop", n) EXCEPT
                 !.evtt[t].pop_sync = Insert(@, e, n)])
    /\ UNCHANGED taken

Unlinked(s, e) ==
    [s EXCEPT !.ecb = [x \in Ecbs |->
                         [s.ecb[x] EXCEPT !.sync = Without(@, {e})]],
              !.evtt = [t \in Evtts |->
                          [s.evtt[t] EXCEPT !.pop_sync = Without(@, {e}),
                                            !.done_sync = Without(@, {e})]]]

\* (Mutant: the timeout leaves the waiter in the queue of a type.)
TimeoutEventOnly(e) ==
    /\ ecb[e].place \in {"event", "done", "pop"}
    /\ Become([Ready(Unlinked(Now, e), {e}) EXCEPT !.evtt = evtt])
    /\ UNCHANGED taken

\* Djy_IsrTick: a wait times out.
Timeout(e) ==
    /\ ecb[e].place \in {"event", "done", "pop"}
    /\ Become(Ready(Unlinked(Now, e), {e}))
    /\ UNCHANGED taken
-----------------------------------------------------------------------------
\* Djy_EventPop of type t through `hybrid', an event or the type itself, goes
\* over the waiters for its pops.  When the first of them is woken, the list
\* head is left on it, and the loop ends only when the list is empty; an
\* event that does not count this pop then keeps it going for ever.
PopSync(s, t, hybrid) ==
    LET q == s.evtt[t].pop_sync
        Counts(w) == \/ s.evtt[t].kind.correlative
                     \/ w = hybrid
                     \/ s.ecb[w].type # t
        Due(w) == Counts(w) /\ s.ecb[w].counter <= 1
        Woken == {w \in ToSet(q) : Due(w)}
    IN  IF q = << >> THEN s
        ELSE IF Due(q[1])
        THEN [Ready(s, ToSet(q)) EXCEPT
                !.evtt[t].pop_sync = << >>,
                !.dead = \E w \in ToSet(q) : ~ Counts(w)]
        ELSE Ready([s EXCEPT
                      !.evtt[t].pop_sync = Without(q, Woken),
                      !.ecb = [w \in Ecbs |->
                                 IF w \in ToSet(q) \ Woken /\ Counts(w)
                                 THEN [s.ecb[w] EXCEPT !.counter = @ - 1]
                                 ELSE s.ecb[w]]],
                   Woken)

\* (Mutant: only whether the caller names an event decides.)
NeedsNewEventById(s, t, hybrid) == hybrid = NoEcb

NeedsNewEvent(s, t, hybrid) ==
    \/ ~ s.evtt[t].inuse
    \/ ~ s.evtt[t].kind.correlative /\ hybrid = NoEcb

\* A new event of type t in the control block e.
NewEvent(s, t, e) ==
    [s EXCEPT !.evtt[t] = [s.evtt[t] EXCEPT
                               !.events = @ + 1,
                               !.inuse = TRUE,
                               !.mark = IF s.evtt[t].kind.correlative
                                        THEN <<e>> ELSE @],
              !.ecb[e] = [FreeEcb EXCEPT !.place = "ready", !.type = t]]

\* The caller waits until event x is done.
PopWait(s, caller, x, wait) ==
    IF wait THEN [Waiting(s, caller, "event", 0) EXCEPT
                    !.ecb[x].sync = Append(@, caller)]
    ELSE s

\* Djy_EventPop of a type, or of an event that is not free.  The order of the
\* mark queue by priority is left out, as priorities are.
EventPop(caller, t, hybrid, wait) ==
    /\ caller # NoEcb => Runs(caller)
    /\ wait => caller # NoEcb
    /\ hybrid # NoEcb => ecb[hybrid].type = t
    /\ evtt[t].registered /\ ~ evtt[t].deleting
    /\ LET s == PopSync(Now, t, hybrid)
           Free == {e \in Ecbs : s.ecb[e].place = "free"}
           x == IF s.evtt[t].kind.correlative THEN s.evtt[t].mark[1] ELSE hybrid
       IN  \/ /\ NeedsNewEvent(s, t, hybrid)
              /\ \/ Free = {}
                 \/ /\ ~ evtt[t].kind.correlative
                    /\ evtt[t].vpus > evtt[t].kind.vpus_limit
              /\ Become(s)
           \/ /\ NeedsNewEvent(s, t, hybrid)
              /\ \/ evtt[t].kind.correlative
                 \/ evtt[t].vpus <= evtt[t].kind.vpus_limit
              /\ \E e \in Free :
                    Become(PopWait(NewEvent(s, t, e), caller, e, wait))
           \/ /\ ~ NeedsNewEvent(s, t, hybrid)
              /\ Become(PopWait(s, caller, x, wait))
    /\ UNCHANGED taken
-----------------------------------------------------------------------------
\* __Djy_SelectEventToRun: the first event of the ready queue obtains an idle
\* thread of its type or a new one; those that cannot get one wait for memory.
NeedThread(s) == {e \in Ecbs : s.ecb[e].place = "ready" /\ ~ s.ecb[e].vm}

Starving(s) == {e \in NeedThread(s) :
                  s.mem = 0 /\ s.evtt[s.ecb[e].type].free_vm = 0}

\* The events of the sequence q cannot, one after the other.
Starved(s, q) ==
    LET Others(t) == {e \in Ecbs : s.ecb[e].type # t}
    IN  [Moved(s, ToSet(q), "mem") EXCEPT
           !.memq = @ \o q,
           !.evtt = [t \in Evtts |->
                       [s.evtt[t] EXCEPT !.mark =
                          IF s.evtt[t].kind.correlative THEN @
                          ELSE @ \o Without(q, Others(t))]]]

WithThread(s, e) ==
    LET t == s.ecb[e].type
    IN  IF s.evtt[t].free_vm > 0
        THEN [s EXCEPT !.ecb[e].vm = TRUE, !.evtt[t].free_vm = @ - 1]
        ELSE [s EXCEPT !.ecb[e].vm = TRUE, !.evtt[t].vpus = @ + 1,
                       !.mem = @ - 1]

\* Who cannot get one, in which order, and who then is first.
Picks(s) == [starved : UNION {SetToSeqs(X) : X \in SUBSET Starving(s)},
               first : NeedThread(s) \cup {NoEcb}]

Selected(s, c) ==
    LET r == Starved(s, c.starved)
    IN  IF c.first \in NeedThread(r) \ Starving(r)
        THEN WithThread(r, c.first) ELSE r

\* __Djy_Schedule
Schedule ==
    /\ \E c \in Picks(Now) : Become(Selected(Now, c))
    /\ UNCHANGED taken
-----------------------------------------------------------------------------
\* Djy_EventSessionComplete
EventSessionComplete(e) ==
    /\ Runs(e)
    /\ ecb[e].sync # << >>
    /\ Become([Ready(Now, ToSet(ecb[e].sync)) EXCEPT !.ecb[e].sync = << >>])
    /\ UNCHANGED taken

\* Djy_EventComplete goes over the waiters for completions of type t until
\* none is left, whatever they asked for; one that waits for the last event
\* of the type while the type has several threads keeps it going for ever.
DoneSync(s, t) ==
    LET q == s.evtt[t].done_sync
    IN  [Ready(s, ToSet(q)) EXCEPT
           !.evtt[t].done_sync = << >>,
           !.dead = \E w \in ToSet(q) : /\ s.ecb[w].counter = 0
                                        /\ s.evtt[t].vpus # 1]

\* What becomes of the thread of an event of type y that is complete.
Disposal(y) ==
    IF y.kind.correlative THEN IF y.kind.urgent THEN "KEEP" ELSE "DELETE"
    ELSE IF y.events >= y.vpus \/ y.vpus <= y.kind.vpus_res THEN "KEEP"
    ELSE IF y.vpus = 1 /\ y.kind.urgent THEN "KEEP" ELSE "DELETE"

\* Whether Djy_EventComplete takes the type for unused.
IsLast(y) == \/ y.kind.correlative
             \/ y.events < y.vpus /\ y.vpus > y.kind.vpus_res /\ y.vpus = 1

\* The waiters are woken and the control block is free.
Retired(e) ==
    LET t  == ecb[e].type
        s  == DoneSync(Ready(Now, ToSet(ecb[e].sync)), t)
        s1 == [s EXCEPT !.ecb[e] = FreeEcb, !.evtt[t].events = @ - 1]
    IN  [s1 EXCEPT !.evtt[t].inuse = @ /\ ~ IsLast(s1.evtt[t])]

\* (Mutant: it always becomes idle.)
KeptUnused(s, t) == [s EXCEPT !.evtt[t].free_vm = @ + 1]

\* The thread of a complete event goes to the first event that waits for one,
\* or becomes idle.
Kept(s, t) ==
    IF s.evtt[t].kind.correlative \/ s.evtt[t].mark = << >>
    THEN [s EXCEPT !.evtt[t].free_vm = @ + 1]
    ELSE LET e == Head(s.evtt[t].mark)
         IN  [Ready(s, {e}) EXCEPT !.evtt[t].mark = Tail(@),
                                   !.memq = Without(@, {e}),
                                   !.ecb[e].vm = TRUE]

\* (Mutant: the number of threads is not adjusted.)
DestroyedUncounted(s, t, n) == GiveBack(s, 1, n)

\* The thread is freed.
Destroyed(s, t, n) == [GiveBack(s, 1, n) EXCEPT !.evtt[t].vpus = @ - 1]

\* An event that gets ready by that has no thread yet; if it is the first of
\* the ready queue it is switched to nevertheless.
NoThreadToRun(s, r) == {r.dead, r.dead \/ \E e \in Ecbs :
                                   /\ s.ecb[e].place = "mem"
                                   /\ r.ecb[e].place = "ready"}

\* Djy_EventComplete
EventComplete(e) ==
    /\ Runs(e)
    /\ LET t == ecb[e].type
           s == Retired(e)
           y == s.evtt[t]
           gone == y.deleting /\ ~ y.inuse
       IN  \/ /\ gone
              /\ \E n \in Room(s, y.free_vm) :
                   LET r == GiveBack([s EXCEPT !.evtt[t] = Unregistered],
                                     y.free_vm, n)
                   IN  \E c \in Picks(r) : Become(Selected(r, c))
           \/ /\ ~ gone
              /\ Disposal(y) = "KEEP"
              /\ \E c \in Picks(s) : Become(Kept(Selected(s, c), t))
           \/ /\ ~ gone
              /\ Disposal(y) = "DELETE"
              /\ \E c \in Picks(s) :
                   LET v == Selected(s, c)
                   IN  \E n \in Room(v, 1) :
                         LET r == Destroyed(v, t, n)
                         IN  \E d \in NoThreadToRun(v, r) :
                               Become([r EXCEPT !.dead = d])
    /\ UNCHANGED taken
-----------------------------------------------------------------------------
Next ==
    /\ ~ dead
    /\ \/ \E t \in Evtts, k \in Kinds : EvttRegist(t, k)
       \/ \E t \in Evtts : EvttUnregist(t)
       \/ \E c, h \in Ecbs \cup {NoEcb}, t \in Evtts, w \in BOOLEAN :
            EventPop(c, t, h, w)
       \/ \E e, x \in Ecbs : WaitEventCompleted(e, x)
       \/ \E e \in Ecbs, t \in Evtts, n \in 0 .. MaxTimes :
            WaitEvttCompleted(e, t, n)
       \/ \E e \in Ecbs, t \in Evtts, n \in 1 .. MaxTimes :
            WaitEvttPop(e, t, n)
       \/ \E e \in Ecbs : Timeout(e)
       \/ Schedule
       \/ \E e \in Ecbs : EventSessionComplete(e)
       \/ \E e \in Ecbs : EventComplete(e)
       \/ TakeMemory
       \/ GiveMemory

Spec == Init /\ [][Next]_vars
-----------------------------------------------------------------------------
EventsOf(t) == {e \in Ecbs : ecb[e].place # "free" /\ ecb[e].type = t}

(* The counters from which Djy_EventComplete decides what becomes of a       *)
(* thread are right: `events' is the number of events of the type, `vpus'    *)
(* the number of its threads, busy and idle, although __Djy_SelectEventToRun *)
(* takes and creates threads in the middle of the decision.                  *)
ThreadsAccounted ==
    dead \/ \A t \in Evtts : evtt[t].registered =>
      /\ evtt[t].events = Cardinality(EventsOf(t))
      /\ evtt[t].vpus = evtt[t].free_vm
                        + Cardinality({e \in EventsOf(t) : ecb[e].vm})

(* No event waits for the memory of a new thread while its type has an idle  *)
(* thread: a thread that is kept is handed to an event that waits for one.   *)
NobodyWaitsBesideAnIdleThread ==
    dead \/ \A e \in Ecbs : ecb[e].place \in {"mem", "none"}
                              => evtt[ecb[e].type].free_vm = 0

(* Whoever waits is in exactly the one queue that will wake it, and that     *)
(* queue belongs to an event or a type that still exists: no completion,     *)
(* timeout or unregistration leaves a waiter behind.                         *)
WaitersHaveTargets ==
    dead \/ \A w \in Ecbs :
      LET Of(e) == w \in ToSet(ecb[e].sync)
      IN  /\ Cardinality({e \in Ecbs : Of(e)})
               = IF ecb[w].place = "event" THEN 1 ELSE 0
          /\ Cardinality({t \in Evtts : w \in ToSet(evtt[t].done_sync)})
               = IF ecb[w].place = "done" THEN 1 ELSE 0
          /\ Cardinality({t \in Evtts : w \in ToSet(evtt[t].pop_sync)})
               = IF ecb[w].place = "pop" THEN 1 ELSE 0
          /\ w \in ToSet(memq) <=> ecb[w].place = "mem"
          /\ ecb[w].place = "free" => ecb[w].sync = << >>

(* A correlative type has at most one event, and mark_event is that event:   *)
(* a pop during its life goes to it, one after its life makes a new one.     *)
CorrelativeIsSingle ==
    dead \/ \A t \in Evtts :
      evtt[t].registered /\ evtt[t].kind.correlative =>
        EventsOf(t) = IF evtt[t].inuse THEN {evtt[t].mark[1]} ELSE {}

(* An event that waited for the memory of a thread is put into the ready     *)
(* queue when memory is released, and not just taken off the waiting queue.  *)
MemoryWaiterGetsReady == \A e \in Ecbs : ecb[e].place # "none"
=============================================================================
