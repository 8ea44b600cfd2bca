------------------------------- MODULE EventSched ------------------------------
(***************************************************************************)
(* What the event scheduler of djyos.c promises, with its queues as        *)
(* sequences.  EcbLists is the same system with the linked lists of the    *)
(* code, and is checked to implement this module.                          *)
(*                                                                         *)
(* One step is one critical section (Int_SaveAsynSignal .. the outermost   *)
(* Int_RestoreAsynSignal, which also runs __Djy_Schedule), or one piece of *)
(* the tick interrupt, which no thread can interleave with.  Every event   *)
(* of the model already has its thread (vm), so selecting the event to run *)
(* is taking the head of the ready queue.                                  *)
(***************************************************************************)
EXTENDS EventQueues, FiniteSets

CONSTANTS
  Events,      \* event control blocks in use, the system service included
  Service,     \* the system service event, always ready
  Syncs,       \* block queues (of semaphores and mutexes)
  Lines,       \* asynchronous interrupt lines
  PrioOrder,   \* the block queues with sync_order = CN_BLOCK_PRIO
  Prios,       \* priorities below CN_PRIO_SYS_SERVICE
  ServicePrio, \* CN_PRIO_SYS_SERVICE
  MaxTicks,    \* bound: longest delay or timeout, in ticks
  Slice,       \* s_u32RRS_Slice in ticks, 0 = no round robin
  NULL

ASSUME SchedAssumption ==
  /\ IsFiniteSet(Events) /\ Service \in Events
  /\ NULL \notin Events
  /\ PrioOrder \subseteq Syncs
  /\ Prios \subseteq Nat \ {0}
  /\ ServicePrio \in Nat
  /\ \A p \in Prios : p < ServicePrio
  /\ MaxTicks \in Nat \ {0}
  /\ Slice \in Nat

VARIABLES
  ready,      \* the ready queue, head first
  running,    \* g_ptEventRunning
  delay,      \* the alarm queue, head first
  remain,     \* delay_end_tick - g_s64OsTicks of the events in the alarm queue
  queue,      \* the block queue of each synchronisation object
  sync_event, \* the event waiting for each interrupt line
  prio, prio_base,
  event_status,
  phase,      \* g_s64OsTicks % s_u32RRS_Slice
  isr         \* TRUE inside Djy_IsrTick

schedVars == <<ready, running, delay, remain, queue, sync_event,
               prio, prio_base, event_status, phase, isr>>

(* event_status; the third is CN_STS_WAIT_x + CN_STS_SYNC_TIMEOUT. *)
Statuses == {"READY", "WAIT", "WAIT_TIMEOUT", "DELAY", "ASYN_SIGNAL"}

TypeOK ==
  /\ ready \in Seq(Events) /\ delay \in Seq(Events)
  /\ running \in Events
  /\ remain \in [Events -> 0..MaxTicks]
  /\ queue \in [Syncs -> Seq(Events)]
  /\ sync_event \in [Lines -> Events \union {NULL}]
  /\ prio \in [Events -> Prios \union {ServicePrio}]
  /\ prio_base \in [Events -> Prios \union {ServicePrio}]
  /\ event_status \in [Events -> Statuses]
  /\ phase \in Nat
  /\ isr \in BOOLEAN

(***************************************************************************)
(* Every event has been popped and none has run yet: __Djy_EventReady has  *)
(* put them in the ready queue in priority order, in any arrival order     *)
(* among equals, behind it the service event of __Djy_InitSys.             *)
(***************************************************************************)
Init ==
  /\ prio \in [Events -> Prios \union {ServicePrio}]
  /\ \A e \in Events : prio[e] = ServicePrio <=> e = Service
  /\ prio_base = prio
  /\ ready \in [1..Cardinality(Events) -> Events]
  /\ NoDuplicates(ready) /\ SortedBy(ready, prio)
  /\ running = Head(ready)
  /\ delay = << >>
  /\ remain = [e \in Events |-> 0]
  /\ queue = [s \in Syncs |-> << >>]
  /\ sync_event = [l \in Lines |-> NULL]
  /\ event_status = [e \in Events |-> "READY"]
  /\ phase = 0
  /\ isr = FALSE

(* A thread executes code only outside the tick interrupt, and after        *)
(* Int_AsynSignalSync has put its status back to READY.                     *)
InThread == ~isr /\ event_status[running] = "READY"

(* Int_RestoreAsynSignal, or the end of an interrupt: the head runs. *)
Dispatch == running' = Head(ready')

(* Whether event e is followed in the ready queue by one of its priority. *)
HasPeer(q, pr, e) ==
  LET i == PosOf(q, e) IN i < Len(q) /\ pr[q[i + 1]] = pr[e]

(* Djy_EventDelay(0): to the tail of the running event's priority. *)
Yield ==
  /\ InThread
  /\ ready' = IF HasPeer(ready, prio, running)
              THEN InsertSorted(CutFrom(ready, running), prio, running)
              ELSE ready
  /\ Dispatch
  /\ UNCHANGED <<delay, remain, queue, sync_event, prio, prio_base, event_status, phase, isr>>

(* Mutant: the conversion from microseconds rounds one tick too far. *)
DelayOneMore(t) ==
  /\ InThread /\ running # Service
  /\ remain' = [remain EXCEPT ![running] = t + 1]
  /\ ready' = CutFrom(ready, running)
  /\ delay' = InsertSorted(delay, remain', running)
  /\ event_status' = [event_status EXCEPT ![running] = "DELAY"]
  /\ Dispatch
  /\ UNCHANGED <<queue, sync_event, prio, prio_base, phase, isr>>

(* Mutant: the alarm queue is not kept sorted. *)
DelayAtTail(t) ==
  /\ InThread /\ running # Service
  /\ remain' = [remain EXCEPT ![running] = t]
  /\ ready' = CutFrom(ready, running)
  /\ delay' = Append(delay, running)
  /\ event_status' = [event_status EXCEPT ![running] = "DELAY"]
  /\ Dispatch
  /\ UNCHANGED <<queue, sync_event, prio, prio_base, phase, isr>>

(* Djy_EventDelay(t), Djy_EventDelayTo: only the alarm wakes the event. *)
Delay(t) ==
  /\ InThread /\ running # Service
  /\ remain' = [remain EXCEPT ![running] = t]
  /\ ready' = CutFrom(ready, running)
  /\ delay' = InsertSorted(delay, remain', running)
  /\ event_status' = [event_status EXCEPT ![running] = "DELAY"]
  /\ Dispatch
  /\ UNCHANGED <<queue, sync_event, prio, prio_base, phase, isr>>

(* The timeout CN_TIMEOUT_FOREVER, which enters no alarm. *)
Forever == 0

(* Mutant: every block queue is FIFO. *)
EnterBlockQueueFifo(s, t) ==
  /\ queue' = [queue EXCEPT ![s] = Append(@, running)]
  /\ IF t = Forever
     THEN UNCHANGED <<delay, remain>>
     ELSE /\ remain' = [remain EXCEPT ![running] = t]
          /\ delay' = InsertSorted(delay, remain', running)
  /\ event_status' = [event_status EXCEPT
                        ![running] = IF t = Forever THEN "WAIT" ELSE "WAIT_TIMEOUT"]

(* __Djy_AddRunningToBlock but for the ready queue: the running event       *)
(* enters the block queue of s and, unless t is Forever, the alarm queue.   *)
EnterBlockQueue(s, t) ==
  /\ queue' = [queue EXCEPT ![s] = IF s \in PrioOrder
                                   THEN InsertSorted(@, prio, running)
                                   ELSE Append(@, running)]
  /\ IF t = Forever
     THEN UNCHANGED <<delay, remain>>
     ELSE /\ remain' = [remain EXCEPT ![running] = t]
          /\ delay' = InsertSorted(delay, remain', running)
  /\ event_status' = [event_status EXCEPT
                        ![running] = IF t = Forever THEN "WAIT" ELSE "WAIT_TIMEOUT"]

(* __Djy_AddRunningToBlock and the switch to the next event. *)
Block(s, t) ==
  /\ InThread /\ running # Service
  /\ EnterBlockQueue(s, t)
  /\ ready' = CutFrom(ready, running)
  /\ Dispatch
  /\ UNCHANGED <<sync_event, prio, prio_base, phase, isr>>

(* Mutant: the post forgets __Djy_ResumeDelay. *)
LeaveBlockQueueOnly(s) ==
  /\ queue' = [queue EXCEPT ![s] = Tail(@)]
  /\ event_status' = [event_status EXCEPT ![Head(queue[s])] = "READY"]
  /\ UNCHANGED <<delay, remain>>

(* The head of the block queue of s leaves it, and the alarm queue. *)
LeaveBlockQueue(s) ==
  LET e == Head(queue[s])
  IN  /\ queue' = [queue EXCEPT ![s] = Tail(@)]
      /\ delay' = IF event_status[e] = "WAIT_TIMEOUT" THEN CutFrom(delay, e) ELSE delay
      /\ remain' = [remain EXCEPT ![e] = 0]
      /\ event_status' = [event_status EXCEPT ![e] = "READY"]

(* Lock_SempPost with a waiter, by a thread or by an ISR. *)
Wake(s) ==
  /\ ~isr /\ queue[s] # << >>
  /\ LeaveBlockQueue(s)
  /\ ready' = InsertSorted(ready, prio, Head(queue[s]))
  /\ Dispatch
  /\ UNCHANGED <<sync_event, prio, prio_base, phase, isr>>

(* Moving a ready event to another priority: cut, change, insert. *)
Reprioritise(e, p) ==
  /\ prio' = [prio EXCEPT ![e] = p]
  /\ ready' = InsertSorted(CutFrom(ready, e), prio', e)

(* Djy_SetEventPrio: the effective priority of an event that is not READY   *)
(* stays as it is, whatever queue the event is in.  Applications do not     *)
(* know the id of the service event, which must stay ready and last.        *)
SetEventPrio(e, p) ==
  /\ InThread /\ e # Service
  /\ prio_base' = [prio_base EXCEPT ![e] = p]
  /\ IF p # prio[e] /\ event_status[e] = "READY"
     THEN Reprioritise(e, p)
     ELSE UNCHANGED <<prio, ready>>
  /\ Dispatch
  /\ UNCHANGED <<delay, remain, queue, sync_event, event_status, phase, isr>>

(* Djy_RaiseTempPrio called by the running event for the owner of a mutex,  *)
(* which the service event never is.                                        *)
RaiseTempPrio(e) ==
  /\ InThread /\ e # Service
  /\ IF prio[running] < prio[e] /\ event_status[e] = "READY"
     THEN Reprioritise(e, prio[running])
     ELSE UNCHANGED <<prio, ready>>
  /\ Dispatch
  /\ UNCHANGED <<delay, remain, queue, sync_event, prio_base, event_status, phase, isr>>

(* Djy_RestorePrio *)
RestorePrio ==
  /\ InThread
  /\ IF prio[running] # prio_base[running]
     THEN Reprioritise(running, prio_base[running])
     ELSE UNCHANGED <<prio, ready>>
  /\ Dispatch
  /\ UNCHANGED <<delay, remain, queue, sync_event, prio_base, event_status, phase, isr>>
--------------------------------------------------------------------------------
(* Djy_IsrTick, one loop iteration at a time; no thread runs in between.    *)
TickBegin ==
  /\ ~isr
  /\ isr' = TRUE
  /\ remain' = [e \in Events |-> IF remain[e] > 0 THEN remain[e] - 1 ELSE 0]
  /\ phase' = IF Slice = 0 THEN 0 ELSE (phase + 1) % Slice
  /\ UNCHANGED <<ready, running, delay, queue, sync_event, prio, prio_base, event_status>>

(* Mutant: the alarm loop overlooks the only node of the queue. *)
AlarmDueUnlessAlone == Len(delay) > 1 /\ remain[Head(delay)] = 0

AlarmDue == delay # << >> /\ remain[Head(delay)] = 0

(* The alarm of the head has come: it leaves both queues it may be in. *)
TickWake ==
  /\ isr /\ AlarmDue
  /\ LET e == Head(delay)
     IN  /\ queue' = [s \in Syncs |-> IF e \in Elements(queue[s])
                                      THEN CutFrom(queue[s], e) ELSE queue[s]]
         /\ ready' = InsertSorted(ready, prio, e)
         /\ event_status' = [event_status EXCEPT ![e] = "READY"]
  /\ delay' = Tail(delay)
  /\ UNCHANGED <<running, remain, sync_event, prio, prio_base, phase, isr>>

(* Mutant: the test for the end of the slice never succeeds. *)
TickEndNoSlice ==
  /\ isr /\ ~AlarmDue
  /\ isr' = FALSE
  /\ ready' = IF Slice # 0 /\ phase = Slice /\ HasPeer(ready, prio, running)
              THEN InsertSorted(CutFrom(ready, running), prio, running)
              ELSE ready
  /\ Dispatch
  /\ UNCHANGED <<delay, remain, queue, sync_event, prio, prio_base, event_status, phase>>

(* Round robin of the interrupted event, then the switch. *)
TickEnd ==
  /\ isr /\ ~AlarmDue
  /\ isr' = FALSE
  /\ ready' = IF Slice # 0 /\ phase = 0 /\ HasPeer(ready, prio, running)
              THEN InsertSorted(CutFrom(ready, running), prio, running)
              ELSE ready
  /\ Dispatch
  /\ UNCHANGED <<delay, remain, queue, sync_event, prio, prio_base, event_status, phase>>
--------------------------------------------------------------------------------
(* Int_AsynSignalSync: one event at most waits for a line. *)
AsynSignalSync(l) ==
  /\ InThread /\ running # Service /\ sync_event[l] = NULL
  /\ ready' = CutFrom(ready, running)
  /\ sync_event' = [sync_event EXCEPT ![l] = running]
  /\ event_status' = [event_status EXCEPT ![running] = "ASYN_SIGNAL"]
  /\ Dispatch
  /\ UNCHANGED <<delay, remain, queue, prio, prio_base, phase, isr>>

(* __Int_EngineAsynSignal: the waiting event is ready, its status is not    *)
(* touched until it runs again.                                             *)
EngineAsynSignal(l) ==
  /\ ~isr /\ sync_event[l] # NULL
  /\ ready' = InsertSorted(ready, prio, sync_event[l])
  /\ sync_event' = [sync_event EXCEPT ![l] = NULL]
  /\ Dispatch
  /\ UNCHANGED <<delay, remain, queue, prio, prio_base, event_status, phase, isr>>

(* The tail of Int_AsynSignalSync, with interrupts open. *)
AsynSignalReturn ==
  /\ ~isr /\ event_status[running] = "ASYN_SIGNAL"
  /\ event_status' = [event_status EXCEPT ![running] = "READY"]
  /\ UNCHANGED <<ready, running, delay, remain, queue, sync_event, prio, prio_base, phase, isr>>
--------------------------------------------------------------------------------
Next ==
  \/ Yield
  \/ \E t \in 1..MaxTicks : Delay(t)
  \/ \E s \in Syncs, t \in {Forever} \union 1..MaxTicks : Block(s, t)
  \/ \E s \in Syncs : Wake(s)
  \/ \E e \in Events, p \in Prios : SetEventPrio(e, p)
  \/ \E e \in Events : RaiseTempPrio(e)
  \/ RestorePrio
  \/ TickBegin \/ TickWake \/ TickEnd
  \/ \E l \in Lines : AsynSignalSync(l)
  \/ \E l \in Lines : EngineAsynSignal(l)
  \/ AsynSignalReturn

Spec == Init /\ [][Next]_schedVars

(* The tick interrupt keeps coming and its handler runs to its end. *)
FairSpec == Spec /\ WF_schedVars(TickBegin) /\ WF_schedVars(TickWake) /\ WF_schedVars(TickEnd)
--------------------------------------------------------------------------------
(***************************************************************************)
(* Every control block is linked exactly where its status says, and once:  *)
(* a timeout that races a post, or a wake-up by an ISR, never leaves an    *)
(* event in two queues or in none (lost for ever).                         *)
(***************************************************************************)
OnePlace ==
  /\ NoDuplicates(ready) /\ NoDuplicates(delay)
  /\ \A s \in Syncs : NoDuplicates(queue[s])
  /\ \A e \in Events :
       LET waits == {s \in Syncs : e \in Elements(queue[s])}
           lines == {l \in Lines : sync_event[l] = e}
       IN  /\ e \in Elements(delay) <=> event_status[e] \in {"DELAY", "WAIT_TIMEOUT"}
           /\ Cardinality(waits) = IF event_status[e] \in {"WAIT", "WAIT_TIMEOUT"} THEN 1 ELSE 0
           /\ e \in Elements(ready)
                <=> \/ event_status[e] = "READY"
                    \/ event_status[e] = "ASYN_SIGNAL" /\ lines = {}
           /\ Cardinality(lines) <= 1
           /\ lines # {} => event_status[e] = "ASYN_SIGNAL"

(***************************************************************************)
(* Priority-driven dispatching: outside interrupts the running event is the *)
(* head of a ready queue sorted by priority, with the service event last.   *)
(* Inside the tick, newly woken events may precede it, but it is still the  *)
(* first of its own priority, which the round-robin code of Djy_IsrTick     *)
(* takes for granted (it dereferences g_ptEventRunning->multi_next).        *)
(***************************************************************************)
RunningIsFirst ==
  /\ SortedBy(ready, prio) /\ ready[Len(ready)] = Service
  /\ ~isr => running = Head(ready)
  /\ running \in Elements(ready)
  /\ \A i \in 1..(PosOf(ready, running) - 1) : prio[ready[i]] < prio[running]

(***************************************************************************)
(* No alarm is overdue: Djy_IsrTick looks only at the head of the alarm     *)
(* queue, so the queue has to be sorted by delay_end_tick at every moment.  *)
(***************************************************************************)
NoMissedAlarm ==
  /\ SortedBy(delay, remain)
  /\ ~isr => \A i \in 1..Len(delay) : remain[delay[i]] > 0

(***************************************************************************)
(* A block queue created with CN_BLOCK_PRIO hands out in priority order.    *)
(***************************************************************************)
BlockQueuesSorted == \A s \in PrioOrder : SortedBy(queue[s], prio)

(***************************************************************************)
(* Djy_SetEventPrio returns "true = set successfully" and announces that it *)
(* re-sorts the queue of an event blocked in priority order: when it        *)
(* returns, such an event has the new priority.                             *)
(***************************************************************************)
SetPrioTakesEffect ==
  [][\A e \in Events, p \in Prios, s \in PrioOrder :
       SetEventPrio(e, p) /\ e \in Elements(queue[s]) => prio'[e] = p]_schedVars

(***************************************************************************)
(* Every timed wait ends: the alarm, or the condition, takes the event out  *)
(* of the alarm queue.                                                      *)
(***************************************************************************)
TimedWaitEnds ==
  \A e \in Events : e \in Elements(delay) ~> e \notin Elements(delay)

(***************************************************************************)
(* Round robin: an event of the running event's priority gets its turn,     *)
(* unless it leaves the ready queue or another priority takes the processor. *)
(***************************************************************************)
RoundRobin ==
  \A e \in Events :
    (e \in Elements(ready) /\ prio[e] = prio[running])
      ~> (running = e \/ e \notin Elements(ready) \/ prio[e] # prio[running])
================================================================================
