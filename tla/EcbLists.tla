-------------------------------- MODULE EcbLists -------------------------------
(***************************************************************************)
(* The event lists of djyos.c as the code keeps them: circular doubly      *)
(* linked lists through the control blocks, where the SAME pair of         *)
(* pointers next/previous serves the ready queue and the alarm queue, and  *)
(* the SAME pair multi_next/multi_previous serves a block queue and the    *)
(* ring of the first event of each ready priority (the "monotone" queue    *)
(* that makes insertion independent of the number of ready events).        *)
(*                                                                         *)
(* A list operation is an operator from a value of lists to a value of     *)
(* lists, written assignment by assignment where the order matters.        *)
(* Sched!Spec (module EventSched) is what all of it amounts to.            *)
(***************************************************************************)
EXTENDS Naturals, Sequences, FiniteSets

CONSTANTS Events, Service, Syncs, Lines, PrioOrder, Prios, ServicePrio,
          MaxTicks, Slice, NULL

ASSUME EcbAssumption ==
  /\ IsFiniteSet(Events) /\ Service \in Events
  /\ NULL \notin Events /\ NULL \notin Syncs
  /\ PrioOrder \subseteq Syncs
  /\ Prios \subseteq Nat \ {0}
  /\ ServicePrio \in Nat
  /\ \A p \in Prios : p < ServicePrio
  /\ MaxTicks \in Nat \ {0}
  /\ Slice \in Nat

VARIABLES
  lists,      \* the pointers, see ListsType
  running, remain, sync_event, prio, prio_base, event_status, phase, isr

vars == <<lists, running, remain, sync_event, prio, prio_base, event_status, phase, isr>>

Pointers == Events \union {NULL}

ListsType ==
  [next : [Events -> Pointers], previous : [Events -> Pointers],
   multi_next : [Events -> Pointers], multi_previous : [Events -> Pointers],
   ready : Events,                  \* g_ptEventReady
   delay : Pointers,                \* g_ptEventDelay
   head : [Syncs -> Pointers],      \* semp_sync, mutex_sync
   sync_head : [Events -> Syncs \union {NULL}]]  \* the block queue an event is in
--------------------------------------------------------------------------------
(***************************************************************************)
(* The search loops: do { if(key[x] <= key[e]) x = nxt[x]; else break; }    *)
(* while(x != start).                                                       *)
(***************************************************************************)
Search(nxt, start, key, e) ==
  LET n == Cardinality(Events)
      x[k \in 0..n] ==
        IF k = 0 THEN start
        ELSE IF key[x[k - 1]] <= key[e] /\ (k = 1 \/ x[k - 1] # start)
             THEN nxt[x[k - 1]]
             ELSE x[k - 1]
  IN  x[n]

(* Linking e in front of x in the list through next/previous. *)
LinkBefore(L, x, e) ==
  [L EXCEPT !.next = [@ EXCEPT ![e] = x, ![L.previous[x]] = e],
            !.previous = [@ EXCEPT ![e] = L.previous[x], ![x] = e]]

Unlink(L, e) ==
  [L EXCEPT !.previous[L.next[e]] = L.previous[e], !.next[L.previous[e]] = L.next[e]]

(* The same for the list through multi_next/multi_previous. *)
MultiLinkBefore(L, x, e) ==
  [L EXCEPT !.multi_next = [@ EXCEPT ![L.multi_previous[x]] = e, ![e] = x],
            !.multi_previous = [@ EXCEPT ![e] = L.multi_previous[x], ![x] = e]]

(* Mutant: the backward link is not repaired. *)
MultiUnlinkForwardOnly(L, e) ==
  [L EXCEPT !.multi_next[L.multi_previous[e]] = L.multi_next[e]]

MultiUnlink(L, e) ==
  [L EXCEPT !.multi_previous[L.multi_next[e]] = L.multi_previous[e],
            !.multi_next[L.multi_previous[e]] = L.multi_next[e]]

(* by takes e's place in the ring of first-of-priority events. *)
MultiReplace(L, e, by) ==
  LET mp == L.multi_previous[e]
      mn == L.multi_next[e]
  IN  [L EXCEPT !.multi_next = [@ EXCEPT ![mp] = by, ![by] = mn],
                !.multi_previous = [@ EXCEPT ![by] = mp, ![mn] = by]]

(***************************************************************************)
(* __Djy_CutReadyEvent: e leaves the ready queue; if it was the first of    *)
(* its priority, the next of that priority replaces it in the ring, and if  *)
(* there is none the priority leaves the ring.                              *)
(***************************************************************************)
CutReadyEvent(L, pr, e) ==
  LET nx == L.next[e]
      cut == [Unlink(L, e) EXCEPT !.ready = IF e = L.ready THEN nx ELSE @]
  IN  IF e # L.ready /\ L.multi_next[e] = NULL
      THEN cut
      ELSE IF pr[nx] = pr[e]
           THEN MultiReplace(cut, e, nx)
           ELSE [cut EXCEPT !.multi_previous[nx] = L.multi_previous[e],
                            !.multi_next[L.multi_previous[e]] = nx]

(* Mutant: the links of a former block queue stay behind in e. *)
EventReadyStaleLinks(L, pr, e) ==
  LET at == Search(L.multi_next, L.ready, pr, e)
      linked == LinkBefore(L, at, e)
      ringed == IF pr[e] # pr[linked.previous[e]]
                THEN MultiLinkBefore(linked, at, e)
                ELSE linked
  IN  [ringed EXCEPT !.ready = IF pr[e] < pr[L.ready] THEN e ELSE @]

(***************************************************************************)
(* __Djy_EventReady: behind the last event of the same or a higher          *)
(* priority, found by walking the ring.                                     *)
(***************************************************************************)
EventReady(L, pr, e) ==
  LET at == Search(L.multi_next, L.ready, pr, e)
      linked == LinkBefore(L, at, e)
      ringed == IF pr[e] # pr[linked.previous[e]]
                THEN MultiLinkBefore(linked, at, e)
                ELSE [linked EXCEPT !.multi_next[e] = NULL, !.multi_previous[e] = NULL]
  IN  [ringed EXCEPT !.ready = IF pr[e] < pr[L.ready] THEN e ELSE @]

(* __Djy_AddToDelay, and the same code inside Djy_EventDelay(To). *)
AddToDelay(L, end, e) ==
  IF L.delay = NULL
  THEN [L EXCEPT !.next[e] = e, !.previous[e] = e, !.delay = e]
  ELSE LET at == Search(L.next, L.delay, end, e)
       IN  [LinkBefore(L, at, e) EXCEPT !.delay = IF end[L.delay] > end[e] THEN e ELSE @]

(* Mutant: g_ptEventDelay is not moved on when its event leaves. *)
ResumeDelayKeepsHead(L, e) ==
  LET out == IF L.next[L.delay] = L.delay THEN [L EXCEPT !.delay = NULL] ELSE Unlink(L, e)
  IN  [out EXCEPT !.next[e] = NULL, !.previous[e] = NULL]

(* __Djy_ResumeDelay *)
ResumeDelay(L, e) ==
  LET out == IF L.next[L.delay] = L.delay
             THEN [L EXCEPT !.delay = NULL]
             ELSE [Unlink(L, e) EXCEPT !.delay = IF e = L.delay THEN L.next[L.delay] ELSE @]
  IN  [out EXCEPT !.next[e] = NULL, !.previous[e] = NULL]

(* The block-queue half of __Djy_AddRunningToBlock. *)
AddToBlock(L, pr, s, e) ==
  LET cut == [CutReadyEvent(L, pr, e) EXCEPT !.previous[e] = NULL, !.next[e] = NULL,
                                             !.sync_head[e] = s]
      h   == L.head[s]
  IN  IF h = NULL
      THEN [cut EXCEPT !.multi_next[e] = e, !.multi_previous[e] = e, !.head[s] = e]
      ELSE IF s \in PrioOrder
      THEN [MultiLinkBefore(cut, Search(cut.multi_next, h, pr, e), e)
              EXCEPT !.head[s] = IF pr[h] > pr[e] THEN e ELSE @]
      ELSE MultiLinkBefore(cut, h, e)

(* Lock_SempPost, Lock_MutexPost: the head of the block queue leaves it. *)
TakeBlockHead(L, s) ==
  LET e == L.head[s]
      out == IF L.multi_next[e] = e
             THEN [L EXCEPT !.head[s] = NULL]
             ELSE [MultiUnlink(L, e) EXCEPT !.head[s] = L.multi_next[e],
                     !.multi_next[e] = NULL, !.multi_previous[e] = NULL]
  IN  [out EXCEPT !.sync_head[e] = NULL]

(* Djy_IsrTick: an event whose alarm rings leaves the block queue it is in. *)
CutTimedOut(L, e) ==
  LET s == L.sync_head[e]
  IN  IF s = NULL THEN L
      ELSE LET out == IF L.head[s] = e /\ L.multi_next[e] = e
                      THEN [L EXCEPT !.head[s] = NULL,
                              !.multi_next[e] = NULL, !.multi_previous[e] = NULL]
                      ELSE [MultiUnlink(L, e) EXCEPT
                              !.head[s] = IF @ = e THEN L.multi_next[e] ELSE @]
           IN  [out EXCEPT !.sync_head[e] = NULL]

(* Djy_IsrTick: the head of the alarm queue leaves it. *)
PopDelayHead(L) ==
  LET e == L.delay
  IN  IF L.next[e] = e THEN [L EXCEPT !.delay = NULL]
      ELSE [Unlink(L, e) EXCEPT !.delay = L.next[e]]

(* Djy_IsrTick: the running event goes behind the last of its priority. *)
RotateRunning(L, r) ==
  LET nx == L.next[r]
      mn == L.multi_next[r]
      ring == [MultiReplace(L, r, nx) EXCEPT !.multi_next[r] = NULL, !.multi_previous[r] = NULL,
                                             !.ready = IF @ = r THEN nx ELSE @]
      out == [ring EXCEPT !.next[ring.previous[r]] = nx, !.previous[nx] = ring.previous[r]]
  IN  LinkBefore(out, mn, r)
--------------------------------------------------------------------------------
(* The lists once the events have been popped, in the order given by seq. *)
Linked(pr, seq) ==
  LET alone == [e \in Events |-> IF e = Service THEN Service ELSE NULL]
      start == [next |-> alone, previous |-> alone,
                multi_next |-> alone, multi_previous |-> alone,
                ready |-> Service, delay |-> NULL,
                head |-> [s \in Syncs |-> NULL], sync_head |-> [e \in Events |-> NULL]]
      L[k \in 0..Len(seq)] == IF k = 0 THEN start ELSE EventReady(L[k - 1], pr, seq[k])
  IN  L[Len(seq)]

Init ==
  /\ prio \in [Events -> Prios \union {ServicePrio}]
  /\ \A e \in Events : prio[e] = ServicePrio <=> e = Service
  /\ prio_base = prio
  /\ \E seq \in [1..(Cardinality(Events) - 1) -> Events \ {Service}] :
       /\ \A i, j \in DOMAIN seq : seq[i] = seq[j] => i = j
       /\ lists = Linked(prio, seq)
  /\ running = lists.ready
  /\ remain = [e \in Events |-> 0]
  /\ sync_event = [l \in Lines |-> NULL]
  /\ event_status = [e \in Events |-> "READY"]
  /\ phase = 0
  /\ isr = FALSE

InThread == ~isr /\ event_status[running] = "READY"

(* Int_RestoreAsynSignal / end of an interrupt: __Djy_Schedule. *)
Dispatch == running' = lists'.ready

(* The running event shares its priority with the one behind it. *)
HasPeer == /\ prio[running] = prio[lists.next[running]]
           /\ running # lists.next[running]

(* Djy_EventDelay(0) *)
Yield ==
  /\ InThread
  /\ lists' = IF HasPeer
              THEN EventReady(CutReadyEvent(lists, prio, running), prio, running)
              ELSE lists
  /\ Dispatch
  /\ UNCHANGED <<remain, sync_event, prio, prio_base, event_status, phase, isr>>

(* Mutant: the conversion from microseconds rounds one tick too far. *)
DelayOneMore(t) ==
  /\ InThread /\ running # Service
  /\ remain' = [remain EXCEPT ![running] = t + 1]
  /\ lists' = AddToDelay(CutReadyEvent(lists, prio, running), remain', running)
  /\ event_status' = [event_status EXCEPT ![running] = "DELAY"]
  /\ Dispatch
  /\ UNCHANGED <<sync_event, prio, prio_base, phase, isr>>

(* Djy_EventDelay(t), Djy_EventDelayTo *)
Delay(t) ==
  /\ InThread /\ running # Service
  /\ remain' = [remain EXCEPT ![running] = t]
  /\ lists' = AddToDelay(CutReadyEvent(lists, prio, running), remain', running)
  /\ event_status' = [event_status EXCEPT ![running] = "DELAY"]
  /\ Dispatch
  /\ UNCHANGED <<sync_event, prio, prio_base, phase, isr>>

(***************************************************************************)
(* __Djy_AddRunningToBlock.  The status is assigned last, so the bit        *)
(* CN_BLOCK_PRIO_SORT that the queue code sets in it never survives.        *)
(***************************************************************************)
Block(s, t) ==
  /\ InThread /\ running # Service
  /\ LET blocked == AddToBlock(lists, prio, s, running)
     IN  IF t = 0
         THEN lists' = blocked /\ UNCHANGED remain
         ELSE /\ remain' = [remain EXCEPT ![running] = t]
              /\ lists' = AddToDelay(blocked, remain', running)
  /\ event_status' = [event_status EXCEPT
                        ![running] = IF t = 0 THEN "WAIT" ELSE "WAIT_TIMEOUT"]
  /\ Dispatch
  /\ UNCHANGED <<sync_event, prio, prio_base, phase, isr>>

(* Lock_SempPost with a waiter *)
Wake(s) ==
  /\ ~isr /\ lists.head[s] # NULL
  /\ LET e == lists.head[s]
         out == TakeBlockHead(lists, s)
     IN  /\ lists' = EventReady(IF event_status[e] = "WAIT_TIMEOUT" THEN ResumeDelay(out, e) ELSE out,
                                prio, e)
         /\ remain' = [remain EXCEPT ![e] = 0]
         /\ event_status' = [event_status EXCEPT ![e] = "READY"]
  /\ Dispatch
  /\ UNCHANGED <<sync_event, prio, prio_base, phase, isr>>

(* The three statements whose order matters: cut, assign prio, insert. *)
Reprioritise(e, p) ==
  /\ prio' = [prio EXCEPT ![e] = p]
  /\ lists' = EventReady(CutReadyEvent(lists, prio, e), prio', e)

SetEventPrio(e, p) ==
  /\ InThread /\ e # Service
  /\ prio_base' = [prio_base EXCEPT ![e] = p]
  /\ IF p # prio[e] /\ event_status[e] = "READY"
     THEN Reprioritise(e, p)
     ELSE UNCHANGED <<prio, lists>>
  /\ Dispatch
  /\ UNCHANGED <<remain, sync_event, event_status, phase, isr>>

RaiseTempPrio(e) ==
  /\ InThread /\ e # Service
  /\ IF prio[running] < prio[e] /\ event_status[e] = "READY"
     THEN Reprioritise(e, prio[running])
     ELSE UNCHANGED <<prio, lists>>
  /\ Dispatch
  /\ UNCHANGED <<remain, sync_event, prio_base, event_status, phase, isr>>

RestorePrio ==
  /\ InThread
  /\ IF prio[running] # prio_base[running]
     THEN Reprioritise(running, prio_base[running])
     ELSE UNCHANGED <<prio, lists>>
  /\ Dispatch
  /\ UNCHANGED <<remain, sync_event, prio_base, event_status, phase, isr>>
--------------------------------------------------------------------------------
(* Djy_IsrTick: the clock, one iteration of the alarm loop, the rotation. *)
TickBegin ==
  /\ ~isr
  /\ isr' = TRUE
  /\ remain' = [e \in Events |-> IF remain[e] > 0 THEN remain[e] - 1 ELSE 0]
  /\ phase' = IF Slice = 0 THEN 0 ELSE (phase + 1) % Slice
  /\ UNCHANGED <<lists, running, sync_event, prio, prio_base, event_status>>

AlarmDue == lists.delay # NULL /\ remain[lists.delay] = 0

TickWake ==
  /\ isr /\ AlarmDue
  /\ LET e == lists.delay
     IN  /\ lists' = EventReady(PopDelayHead(CutTimedOut(lists, e)), prio, e)
         /\ event_status' = [event_status EXCEPT ![e] = "READY"]
  /\ UNCHANGED <<running, remain, sync_event, prio, prio_base, phase, isr>>

TickEnd ==
  /\ isr /\ ~AlarmDue
  /\ isr' = FALSE
  /\ lists' = IF Slice # 0 /\ HasPeer /\ phase = 0
              THEN RotateRunning(lists, running)
              ELSE lists
  /\ Dispatch
  /\ UNCHANGED <<remain, sync_event, prio, prio_base, event_status, phase>>
--------------------------------------------------------------------------------
(* Int_AsynSignalSync up to the context switch. *)
AsynSignalSync(l) ==
  /\ InThread /\ running # Service /\ sync_event[l] = NULL
  /\ lists' = [CutReadyEvent(lists, prio, running) EXCEPT !.next[running] = NULL,
                                                          !.previous[running] = NULL]
  /\ sync_event' = [sync_event EXCEPT ![l] = running]
  /\ event_status' = [event_status EXCEPT ![running] = "ASYN_SIGNAL"]
  /\ Dispatch
  /\ UNCHANGED <<remain, prio, prio_base, phase, isr>>

(* __Int_EngineAsynSignal *)
EngineAsynSignal(l) ==
  /\ ~isr /\ sync_event[l] # NULL
  /\ lists' = EventReady(lists, prio, sync_event[l])
  /\ sync_event' = [sync_event EXCEPT ![l] = NULL]
  /\ Dispatch
  /\ UNCHANGED <<remain, prio, prio_base, event_status, phase, isr>>

(* Int_AsynSignalSync after the context switch back. *)
AsynSignalReturn ==
  /\ ~isr /\ event_status[running] = "ASYN_SIGNAL"
  /\ event_status' = [event_status EXCEPT ![running] = "READY"]
  /\ UNCHANGED <<lists, running, remain, sync_event, prio, prio_base, phase, isr>>
--------------------------------------------------------------------------------
Next ==
  \/ Yield
  \/ \E t \in 1..MaxTicks : Delay(t)
  \/ \E s \in Syncs, t \in 0..MaxTicks : Block(s, t)
  \/ \E s \in Syncs : Wake(s)
  \/ \E e \in Events, p \in Prios : SetEventPrio(e, p)
  \/ \E e \in Events : RaiseTempPrio(e)
  \/ RestorePrio
  \/ TickBegin \/ TickWake \/ TickEnd
  \/ \E l \in Lines : AsynSignalSync(l)
  \/ \E l \in Lines : EngineAsynSignal(l)
  \/ AsynSignalReturn

Spec == Init /\ [][Next]_vars

TypeOK ==
  /\ lists \in ListsType
  /\ running \in Events
  /\ remain \in [Events -> 0..MaxTicks]
  /\ sync_event \in [Lines -> Pointers]
  /\ prio \in [Events -> Prios \union {ServicePrio}]
  /\ prio_base \in [Events -> Prios \union {ServicePrio}]
--------------------------------------------------------------------------------
(* The circular list that starts at start, as a sequence.  A list that does *)
(* not come back to its start within |Events| steps repeats an event, one   *)
(* that ends in NULL is cut short: neither is a queue of EventSched.        *)
Unroll(nxt, start) ==
  LET n == Cardinality(Events) + 1
      Over(k, y) == y = NULL \/ (k > 1 /\ y = start)
      x[k \in 1..n] == IF k = 1 THEN start
                       ELSE IF Over(k - 1, x[k - 1]) THEN x[k - 1] ELSE nxt[x[k - 1]]
      len == CHOOSE m \in 0..n : /\ \A k \in 1..m : ~Over(k, x[k])
                                 /\ m = n \/ Over(m + 1, x[m + 1])
  IN  [k \in 1..len |-> x[k]]

ReadyQueue == Unroll(lists.next, lists.ready)
AlarmQueue == Unroll(lists.next, lists.delay)
BlockQueue == [s \in Syncs |-> Unroll(lists.multi_next, lists.head[s])]

(* The ring of the first event of each priority, "monotone queue". *)
FirstsRing == Unroll(lists.multi_next, lists.ready)

(* The refinement mapping. *)
Sched == INSTANCE EventSched WITH
           ready <- ReadyQueue, delay <- AlarmQueue, queue <- BlockQueue

(* Every step of the list code is the queue operation EventSched says it is. *)
ImplementsSched == Sched!Spec

InList(seq) == {seq[i] : i \in DOMAIN seq}

(* The links backwards undo the links forwards. *)
DoublyLinked(nxt, prv, seq) == \A e \in InList(seq) : nxt[e] \in InList(seq) /\ prv[nxt[e]] = e

(***************************************************************************)
(* Between any two critical sections all circular lists are intact in both  *)
(* directions, although one pair of pointers serves two lists and stale     *)
(* values stay behind in the pair that is not in use.                       *)
(***************************************************************************)
ListsIntact ==
  /\ DoublyLinked(lists.next, lists.previous, ReadyQueue)
  /\ DoublyLinked(lists.next, lists.previous, AlarmQueue)
  /\ \A s \in Syncs :
       /\ DoublyLinked(lists.multi_next, lists.multi_previous, BlockQueue[s])
       /\ InList(BlockQueue[s]) = {e \in Events : lists.sync_head[e] = s}

(***************************************************************************)
(* The ring through multi_next holds exactly the first event of each ready  *)
(* priority, in priority order, and the other ready events have no link in  *)
(* it: what makes the shortcut of __Djy_EventReady and the pointer          *)
(* dereferences of Djy_IsrTick correct.                                     *)
(***************************************************************************)
MonotoneRing ==
  LET r == ReadyQueue
      ring == FirstsRing
  IN  /\ DoublyLinked(lists.multi_next, lists.multi_previous, ring)
      /\ InList(ring) \subseteq InList(r)
      /\ \A i, j \in DOMAIN ring : i < j => prio[ring[i]] < prio[ring[j]]
      /\ \A i \in DOMAIN r :
           LET first == i = 1 \/ prio[r[i - 1]] # prio[r[i]]
           IN  /\ r[i] \in InList(ring) <=> first
               /\ lists.multi_next[r[i]] # NULL <=> first
================================================================================
