------------------------------- MODULE LockProofs ------------------------------
(***************************************************************************)
(* Semaphores and mutexes are correct for any number of events, locks,     *)
(* lamps, nested pends and ticks, on top of the scheduler's invariant.     *)
(***************************************************************************)
EXTENDS Lock, EventSchedProofs

WaitsFor(e, x) == call[e].at = "wait" /\ call[e].lock = x

(***************************************************************************)
(* The inductive invariant.                                                *)
(***************************************************************************)
LockTyped ==
  /\ lamp_counter \in [Semps -> 0..LampsLimit]
  /\ enable \in [Mutexes -> -1..MaxNest]
  /\ owner \in [Mutexes -> Events \union {NULL}]
  /\ wakeup_from \in [Events -> {"NONE", "LOCK", "TIMEOUT", "DELAY"}]
  /\ call \in [Events -> Calls]
  /\ irq \in BOOLEAN
  /\ got \in [Events -> BOOLEAN]
  /\ holds \in [Mutexes -> [Events -> 0..MaxNest]]
  /\ null_owner \in BOOLEAN

(* What an event is inside of agrees with its status: it waits in the queue  *)
(* of the lock it called pend for, and nothing was handed to it yet.         *)
CallsOK ==
  /\ call[Service].at = "run"
  /\ \A e \in Events :
       /\ event_status[e] # "ASYN_SIGNAL"
       /\ event_status[e] = "DELAY" => call[e].at = "run"
       /\ event_status[e] \in Waiting => call[e].at = "wait"
       /\ got[e] => call[e].at = "wait"
       /\ \A x \in Syncs : e \in Elements(queue[x]) => WaitsFor(e, x) /\ ~got[e]

(* A mutex has an owner exactly when it is counted, and the owner knows it   *)
(* as often as it is counted, or is about to learn of it.                    *)
OwnerOK(m) ==
  /\ owner[m] # Service
  /\ owner[m] # NULL <=> enable[m] > 0
  /\ enable[m] = -1 => irq \/ IsrHolds
  /\ \A e \in Events :
       /\ owner[m] # e => holds[m][e] = 0
       /\ owner[m] = e /\ WaitsFor(e, m) => holds[m][e] = 0 /\ enable[m] = 1
       /\ owner[m] = e /\ ~WaitsFor(e, m) => holds[m][e] = enable[m]
       /\ call[e].at = "mutex_pend" /\ call[e].lock = m => owner[m] # e

OwnersOK == \A m \in Mutexes : OwnerOK(m)

(* What a waiter will report. *)
PendsOK ==
  \A e \in Events :
    call[e].at = "wait" =>
      /\ event_status[e] = "READY" => (got[e] <=> wakeup_from[e] # "TIMEOUT")
      /\ call[e].lock \in Mutexes => (got[e] <=> owner[call[e].lock] = e)

(* Nobody waits for a lit lamp, nor, unless ISRs keep mutexes, for a mutex    *)
(* without an owner.                                                         *)
NobodyForgottenOK ==
  /\ \A s \in Semps : Elements(queue[s]) # {} => lamp_counter[s] = 0
  /\ ~IsrHolds => ~null_owner /\ \A m \in Mutexes : Elements(queue[m]) # {} => owner[m] # NULL

LockInv ==
  SchedInv /\ LockTyped /\ CallsOK /\ OwnersOK /\ PendsOK /\ NobodyForgottenOK

(***************************************************************************)
(* For priority inheritance: no event owns two mutexes, an owner is ready, *)
(* and an event about to wait owns nothing.                                *)
(***************************************************************************)
OneMutexEach ==
  \A m, n \in Mutexes : owner[m] = owner[n] /\ owner[m] # NULL => m = n

OwnerRuns ==
  \A m \in Mutexes : owner[m] # NULL => event_status[owner[m]] = "READY"

WaitersOwnNothing ==
  \A e \in Events, m \in Mutexes :
    call[e].at = "mutex_pend" /\ call[e].timeout # NoWait => owner[m] # e

(* OwnerInheritsPriority, over the elements of the queues. *)
OwnersFirst ==
  \A m \in Mutexes :
    owner[m] # NULL => \A e \in Elements(queue[m]) : prio[owner[m]] <= prio[e]

InheritInv == OwnerRuns /\ WaitersOwnNothing /\ OwnersFirst
--------------------------------------------------------------------------------
(* A queue has a head exactly when it has elements. *)
LEMMA EmptyQueue ==
  ASSUME NEW q \in Seq(Events)
  PROVE  q # << >> <=> Elements(q) # {}
<1>1. q # << >> => 1 \in 1..Len(q)
  OBVIOUS
<1>2. q = << >> => Len(q) = 0
  OBVIOUS
<1> QED
  BY <1>1, <1>2 DEF Elements

(* What the record of a call can be. *)
LEMMA CallTyped ==
  ASSUME NEW c \in Calls
  PROVE  /\ c.at \in {"run", "mutex_pend", "wait"}
         /\ c.at = "mutex_pend" => c.lock \in Mutexes /\ c.timeout \in Timeouts
         /\ c.at = "wait" => c.lock \in Syncs
  BY DEF Calls, NoCall

(* A call that waits, and one that has returned, are calls. *)
LEMMA CallValues ==
  /\ NoCall \in Calls
  /\ \A x \in Syncs : [at |-> "wait", lock |-> x, timeout |-> NoWait] \in Calls
  /\ \A m \in Mutexes, t \in Timeouts : [at |-> "mutex_pend", lock |-> m, timeout |-> t] \in Calls
  BY DEF Calls

(* The creation of the locks. *)
LEMMA LockInitInv == LockInit => LockInv
<1> SUFFICES ASSUME LockInit PROVE LockInv
  OBVIOUS
<1>1. SchedInv
  BY SchedInit DEF LockInit
<1>2. /\ wakeup_from = [e \in Events |-> "NONE"] /\ call = [e \in Events |-> NoCall]
      /\ got = [e \in Events |-> FALSE] /\ holds = [m \in Mutexes |-> [e \in Events |-> 0]]
      /\ enable = [m \in Mutexes |-> 0] /\ owner = [m \in Mutexes |-> NULL]
      /\ irq = FALSE /\ null_owner = FALSE /\ lamp_counter \in [Semps -> 0..LampsLimit]
  BY DEF LockInit, SempsCreated, MutexesCreated
<1>3. LockTyped
  <2>1. irq \in BOOLEAN /\ null_owner \in BOOLEAN /\ got \in [Events -> BOOLEAN]
    BY <1>2, Zenon
  <2>2. enable \in [Mutexes -> -1..MaxNest] /\ holds \in [Mutexes -> [Events -> 0..MaxNest]]
    BY <1>2, LockAssumption DEF LockAssumption
  <2>3. call \in [Events -> Calls]
    BY <1>2, CallValues
  <2> QED
    BY <1>2, <2>1, <2>2, <2>3 DEF LockTyped
<1>4. \A x \in Syncs : Elements(queue[x]) = {}
  BY DEF LockInit, Init, Elements
<1>5. \A e \in Events : event_status[e] = "READY" /\ call[e].at = "run" /\ ~got[e]
  BY <1>2 DEF LockInit, Init, NoCall
<1>6. CallsOK
  BY <1>4, <1>5, SchedAssumption DEF CallsOK, Waiting, SchedAssumption
<1>7. OwnersOK
  BY <1>2, <1>5, SchedAssumption DEF OwnersOK, OwnerOK, WaitsFor, SchedAssumption
<1>8. PendsOK
  BY <1>5 DEF PendsOK
<1>9. NobodyForgottenOK
  BY <1>2, <1>4, LockAssumption DEF NobodyForgottenOK, LockAssumption
<1> QED
  BY <1>1, <1>3, <1>6, <1>7, <1>8, <1>9 DEF LockInv
--------------------------------------------------------------------------------
(* A step that touches nothing of the scheduler. *)
LEMMA StayInv == ASSUME SchedInv, StayScheduled PROVE SchedInv'
  BY DEF StayScheduled, schedVars, SchedInv, StatusOK, RunningOK

(* What each part of the invariant depends on. *)
LEMMA CallsSame ==
  ASSUME CallsOK, UNCHANGED <<event_status, queue, call, got>>
  PROVE  CallsOK'
  BY DEF CallsOK, WaitsFor

(* The owners depend on the mutexes and on the pends in progress. *)
LEMMA OwnersSame ==
  ASSUME OwnersOK, UNCHANGED <<enable, owner, irq, holds, call>>
  PROVE  OwnersOK'
  BY DEF OwnersOK, OwnerOK, WaitsFor

(* The reports depend on the wake-ups. *)
LEMMA PendsSame ==
  ASSUME PendsOK, UNCHANGED <<event_status, wakeup_from, owner, call, got>>
  PROVE  PendsOK'
  BY DEF PendsOK

(* The running event is in a pend or not, and never the service event when   *)
(* it is.                                                                    *)
LEMMA RunningCall ==
  ASSUME LockInv, InThread
  PROVE  /\ running \in Events /\ call[running] \in Calls
         /\ call[running].at # "run" => running # Service
         /\ call[running].at # "wait" => ~got[running]
<1>1. running \in Events
  BY RunningFacts DEF LockInv
<1> QED
  BY <1>1 DEF LockInv, LockTyped, CallsOK

(* The running event starts to wait for x, which it does not own. *)
LEMMA WaitOK ==
  ASSUME LockInv, InThread, running # Service, call[running].at # "wait",
         NEW x \in Syncs, NEW t \in {Forever} \union 1..MaxTicks, EnterBlockQueue(x, t),
         Elements(ready') = Elements(ready) \ {running}, sync_event' = sync_event,
         x \in Mutexes => owner[x] # running,
         call' = [call EXCEPT ![running] = [at |-> "wait", lock |-> x, timeout |-> NoWait]],
         UNCHANGED <<enable, owner, wakeup_from, irq, got, holds>>
  PROVE  /\ CallsOK' /\ OwnersOK' /\ PendsOK' /\ call' \in [Events -> Calls]
         /\ \A r \in Syncs \ {x} : queue'[r] = queue[r]
<1>1. running \in Events /\ ~got[running] /\ SchedInv
  BY RunningCall DEF LockInv
<1>2. /\ call' \in [Events -> Calls]
      /\ call'[running].at = "wait" /\ call'[running].lock = x
      /\ \A e \in Events \ {running} : call'[e] = call[e]
  BY <1>1, CallValues DEF LockInv, LockTyped
<1>3. /\ Elements(queue'[x]) = Elements(queue[x]) \union {running}
      /\ \A r \in Syncs \ {x} : queue'[r] = queue[r]
  BY <1>1, EnterBlockOK
<1>4. \A r \in Syncs : running \notin Elements(queue[r])
  BY <1>1, RunningFacts
<1>5. /\ event_status'[running] \in Waiting
      /\ \A e \in Events \ {running} : event_status'[e] = event_status[e]
  BY <1>1 DEF EnterBlockQueue, SchedInv, StatusOK, Waiting
<1>6. UNCHANGED <<enable, owner, wakeup_from, irq, got, holds>>
  OBVIOUS
<1>7. CallsOK'
  <2>1. call'[Service].at = "run"
    BY <1>2, SchedAssumption DEF LockInv, CallsOK, SchedAssumption
  <2>2. ASSUME NEW e \in Events, e # running
        PROVE  /\ event_status'[e] # "ASYN_SIGNAL"
               /\ event_status'[e] = "DELAY" => call'[e].at = "run"
               /\ event_status'[e] \in Waiting => call'[e].at = "wait"
               /\ got'[e] => call'[e].at = "wait"
               /\ \A r \in Syncs : e \in Elements(queue'[r]) => WaitsFor(e, r)' /\ ~got'[e]
    BY <1>2, <1>3, <1>5, <1>6, <2>2 DEF LockInv, CallsOK, WaitsFor
  <2>3. \A r \in Syncs : running \in Elements(queue'[r]) => r = x
    BY <1>3, <1>4
  <2> QED
    BY <1>1, <1>2, <1>5, <1>6, <2>1, <2>2, <2>3 DEF CallsOK, WaitsFor, Waiting
<1>8. OwnersOK'
  BY <1>1, <1>2, <1>6 DEF LockInv, OwnersOK, OwnerOK, WaitsFor
<1>9. PendsOK'
  BY <1>1, <1>2, <1>5, <1>6 DEF LockInv, PendsOK, Waiting
<1> QED
  BY <1>2, <1>3, <1>7, <1>8, <1>9

(* Lock_SempPend. *)
LEMMA SempPendInv ==
  ASSUME LockInv, NEW s \in Semps, NEW t \in Timeouts, SempPend(s, t)
  PROVE  LockInv'
<1>1. /\ InApplication /\ UNCHANGED <<enable, owner, wakeup_from, irq, got, holds, null_owner>>
      /\ InThread /\ running # Service /\ call[running].at = "run"
  BY DEF SempPend, InApplication
<1>2. s \in Syncs /\ s \notin Mutexes
  BY LockAssumption DEF LockAssumption
<1>3. CASE lamp_counter[s] > 0
  <2>1. lamp_counter' = [lamp_counter EXCEPT ![s] = @ - 1] /\ StayScheduled /\ call' = call
    BY <1>3 DEF SempPend
  <2>2. SchedInv' /\ UNCHANGED <<event_status, queue>>
    BY <2>1, StayInv DEF LockInv, StayScheduled, schedVars
  <2>3. lamp_counter' \in [Semps -> 0..LampsLimit]
    BY <1>3, <2>1, LockAssumption DEF LockInv, LockTyped, LockAssumption
  <2>4. LockTyped'
    BY <1>1, <2>1, <2>3 DEF LockInv, LockTyped
  <2>5. CallsOK' /\ OwnersOK' /\ PendsOK'
    BY <1>1, <2>1, <2>2, CallsSame, OwnersSame, PendsSame DEF LockInv
  <2>6. NobodyForgottenOK'
    <3>1. \A r \in Semps \ {s} : lamp_counter'[r] = lamp_counter[r]
      BY <2>1 DEF LockInv, LockTyped
    <3>2. lamp_counter[s] # 0
      BY <1>3
    <3>3. Elements(queue[s]) = {}
      BY <3>2 DEF LockInv, NobodyForgottenOK
    <3> QED
      BY <1>1, <2>2, <3>1, <3>3 DEF LockInv, NobodyForgottenOK
  <2> QED
    BY <2>2, <2>4, <2>5, <2>6 DEF LockInv
<1>4. CASE ~(lamp_counter[s] > 0) /\ t = NoWait
  <2>1. StayScheduled /\ UNCHANGED <<lamp_counter, call>>
    BY <1>4 DEF SempPend
  <2>2. SchedInv' /\ UNCHANGED <<event_status, queue>>
    BY <2>1, StayInv DEF LockInv, StayScheduled, schedVars
  <2> QED
    BY <1>1, <2>1, <2>2, CallsSame, OwnersSame, PendsSame
       DEF LockInv, LockTyped, NobodyForgottenOK
<1>5. CASE ~(lamp_counter[s] > 0) /\ t # NoWait
  <2>1. /\ Block(s, t) /\ lamp_counter' = lamp_counter
        /\ call' = [call EXCEPT ![running] = [at |-> "wait", lock |-> s, timeout |-> NoWait]]
    BY <1>5 DEF SempPend
  <2>2. t \in {Forever} \union 1..MaxTicks
    BY <1>5 DEF Timeouts
  <2>3. SchedInv'
    BY <1>2, <2>1, <2>2, BlockInv DEF LockInv
  <2>4. Elements(ready') = Elements(ready) \ {running} /\ sync_event' = sync_event
        /\ EnterBlockQueue(s, t)
    BY <1>1, <2>1, RunningCut DEF LockInv, Block
  <2>5. /\ CallsOK' /\ OwnersOK' /\ PendsOK' /\ call' \in [Events -> Calls]
        /\ \A r \in Syncs \ {s} : queue'[r] = queue[r]
    BY ONLY LockInv, <1>1, <1>2, <2>1, <2>2, <2>4, WaitOK
  <2>6. LockTyped'
    BY <1>1, <2>1, <2>5 DEF LockInv, LockTyped
  <2>7. NobodyForgottenOK'
    <3>1. lamp_counter[s] = 0
      BY <1>5, LockAssumption DEF LockInv, LockTyped, LockAssumption
    <3> QED
      BY <1>1, <1>2, <2>1, <2>5, <3>1, LockAssumption DEF LockInv, NobodyForgottenOK, LockAssumption
  <2> QED
    BY <2>3, <2>5, <2>6, <2>7 DEF LockInv
<1> QED
  BY <1>3, <1>4, <1>5

(* The first waiter for x is woken and handed what it waits for; a mutex     *)
(* leaves the running event, which is in no pend, for the waiter.            *)
LEMMA WokenOK ==
  ASSUME LockInv, NEW x \in Syncs, queue[x] # << >>, LeaveBlockQueue(x),
         Elements(ready') = Elements(ready) \union {Head(queue[x])}, sync_event' = sync_event,
         call' = call,
         wakeup_from' = [wakeup_from EXCEPT ![Head(queue[x])] = "LOCK"],
         got' = [got EXCEPT ![Head(queue[x])] = TRUE],
         \A m \in Mutexes \ {x} : owner'[m] = owner[m],
         x \in Mutexes => /\ owner[x] = running /\ call[running].at = "run"
                          /\ owner'[x] = Head(queue[x])
  PROVE  /\ CallsOK' /\ PendsOK'
         /\ wakeup_from' \in [Events -> {"NONE", "LOCK", "TIMEOUT", "DELAY"}]
         /\ got' \in [Events -> BOOLEAN]
         /\ \A r \in Syncs : Elements(queue'[r]) \subseteq Elements(queue[r])
<1> DEFINE e == Head(queue[x])
<1>1. e \in Events \ {Service} /\ e \in Elements(queue[x]) /\ event_status[e] \in Waiting
  BY HeadWaits DEF LockInv
<1>2. /\ Elements(queue'[x]) = Elements(queue[x]) \ {e}
      /\ \A r \in Syncs \ {x} : queue'[r] = queue[r]
  BY LeaveBlockOK DEF LockInv
<1>3. \A r \in Syncs \ {x} : e \notin Elements(queue[r])
  BY <1>1 DEF LockInv, SchedInv, QueuesOK
<1>4. WaitsFor(e, x) /\ ~got[e]
  BY <1>1 DEF LockInv, CallsOK
<1>5. /\ wakeup_from' = [wakeup_from EXCEPT ![e] = "LOCK"] /\ got' = [got EXCEPT ![e] = TRUE]
      /\ event_status' = [event_status EXCEPT ![e] = "READY"] /\ call' = call
      /\ x \in Mutexes => owner'[x] = e
  BY DEF LeaveBlockQueue
<1> HIDE DEF e
<1>6. /\ wakeup_from' \in [Events -> {"NONE", "LOCK", "TIMEOUT", "DELAY"}]
      /\ wakeup_from'[e] = "LOCK"
      /\ \A f \in Events \ {e} : wakeup_from'[f] = wakeup_from[f]
  BY <1>1, <1>5 DEF LockInv, LockTyped
<1>7. /\ got' \in [Events -> BOOLEAN] /\ got'[e] = TRUE
      /\ \A f \in Events \ {e} : got'[f] = got[f]
  BY ZenonT(60), <1>1, <1>5 DEF LockInv, LockTyped
<1>8. /\ event_status'[e] = "READY"
      /\ \A f \in Events \ {e} : event_status'[f] = event_status[f]
  BY <1>1, <1>5 DEF LockInv, SchedInv, StatusOK
<1>9. CallsOK'
  BY <1>1, <1>2, <1>3, <1>4, <1>5, <1>7, <1>8 DEF LockInv, CallsOK, WaitsFor, Waiting
<1>10. PendsOK'
  <2>1. call[e].at = "wait" /\ call[e].lock = x
    BY <1>4 DEF WaitsFor
  <2>2. ASSUME NEW f \in Events, f # e, call[f].at = "wait"
        PROVE  /\ event_status'[f] = "READY" => (got'[f] <=> wakeup_from'[f] # "TIMEOUT")
               /\ call[f].lock \in Mutexes => (got'[f] <=> owner'[call[f].lock] = f)
    <3>1. CASE call[f].lock = x /\ x \in Mutexes
      <4>1. owner[x] # f /\ owner'[x] # f
        BY <1>5, <2>2, <3>1
      <4> QED
        BY <1>6, <1>7, <1>8, <2>2, <3>1, <4>1 DEF LockInv, PendsOK
    <3>2. CASE ~(call[f].lock = x /\ x \in Mutexes)
      <4>1. call[f].lock \in Mutexes => owner'[call[f].lock] = owner[call[f].lock]
        BY <3>2
      <4>2. /\ event_status[f] = "READY" => (got[f] <=> wakeup_from[f] # "TIMEOUT")
            /\ call[f].lock \in Mutexes => (got[f] <=> owner[call[f].lock] = f)
        BY <2>2 DEF LockInv, PendsOK
      <4>3. UNCHANGED <<event_status[f], wakeup_from[f], got[f]>>
        BY <1>6, <1>7, <1>8, <2>2
      <4> QED
        BY <4>1, <4>2, <4>3
    <3> QED
      BY <3>1, <3>2
  <2> QED
    BY <1>5, <1>6, <1>7, <1>8, <2>1, <2>2 DEF PendsOK
<1> QED
  BY <1>2, <1>6, <1>7, <1>9, <1>10

(* Lock_SempPost. *)
LEMMA SempPostInv == ASSUME LockInv, NEW s \in Semps, SempPost(s) PROVE LockInv'
<1>1. UNCHANGED <<enable, owner, call, irq, holds, null_owner>>
  BY DEF SempPost
<1>2. s \in Syncs /\ s \notin Mutexes /\ queue[s] \in Seq(Events)
  BY LockAssumption DEF LockAssumption, LockInv, SchedInv, QueuesOK
<1>3. CASE queue[s] = << >>
  <2>1. /\ lamp_counter' = [lamp_counter EXCEPT ![s] = IF @ < LampsLimit THEN @ + 1 ELSE @]
        /\ StayScheduled /\ UNCHANGED <<wakeup_from, got>>
    BY <1>3 DEF SempPost
  <2>2. SchedInv' /\ UNCHANGED <<event_status, queue>>
    BY <2>1, StayInv DEF LockInv, StayScheduled, schedVars
  <2>3. lamp_counter' \in [Semps -> 0..LampsLimit]
    BY <2>1, LockAssumption DEF LockInv, LockTyped, LockAssumption
  <2>4. LockTyped'
    BY <1>1, <2>1, <2>3 DEF LockInv, LockTyped
  <2>5. CallsOK' /\ OwnersOK' /\ PendsOK'
    BY <1>1, <2>1, <2>2, CallsSame, OwnersSame, PendsSame DEF LockInv
  <2>6. NobodyForgottenOK'
    <3>1. \A r \in Semps \ {s} : lamp_counter'[r] = lamp_counter[r]
      BY <2>1 DEF LockInv, LockTyped
    <3>2. Elements(queue[s]) = {}
      BY <1>2, <1>3, EmptyQueue
    <3> QED
      BY <1>1, <2>2, <3>1, <3>2 DEF LockInv, NobodyForgottenOK
  <2> QED
    BY <2>2, <2>4, <2>5, <2>6 DEF LockInv
<1>4. CASE queue[s] # << >>
  <2>1. /\ Wake(s) /\ LeaveBlockQueue(s) /\ lamp_counter' = lamp_counter /\ sync_event' = sync_event
        /\ ready' = InsertSorted(ready, prio, Head(queue[s]))
        /\ wakeup_from' = [wakeup_from EXCEPT ![Head(queue[s])] = "LOCK"]
        /\ got' = [got EXCEPT ![Head(queue[s])] = TRUE]
    BY <1>4 DEF SempPost, Wake
  <2>2. SchedInv'
    BY <1>2, <2>1, WakeInv DEF LockInv
  <2>3. Elements(ready') = Elements(ready) \union {Head(queue[s])}
    BY <1>2, <1>4, <2>1, HeadWaits, ReadyInsert DEF LockInv, SchedInv
  <2>4. /\ CallsOK' /\ PendsOK'
        /\ wakeup_from' \in [Events -> {"NONE", "LOCK", "TIMEOUT", "DELAY"}]
        /\ got' \in [Events -> BOOLEAN]
        /\ \A r \in Syncs : Elements(queue'[r]) \subseteq Elements(queue[r])
    BY ONLY LockInv, <1>1, <1>2, <1>4, <2>1, <2>3, WokenOK
  <2>5. LockTyped'
    BY <1>1, <2>1, <2>4 DEF LockInv, LockTyped
  <2>6. OwnersOK'
    BY <1>1, OwnersSame DEF LockInv
  <2>7. NobodyForgottenOK'
    BY <1>1, <2>1, <2>4, LockAssumption DEF LockInv, NobodyForgottenOK, LockAssumption
  <2> QED
    BY <2>2, <2>4, <2>5, <2>6, <2>7 DEF LockInv
<1> QED
  BY <1>3, <1>4
--------------------------------------------------------------------------------
(* The running event gets another record of what it is inside of. *)
LEMMA CallChanges ==
  ASSUME LockInv, NEW e \in Events, NEW c \in Calls, call' = [call EXCEPT ![e] = c]
  PROVE  call' \in [Events -> Calls] /\ call'[e] = c /\ \A f \in Events \ {e} : call'[f] = call[f]
  BY DEF LockInv, LockTyped

(* How often an event holds a mutex changes. *)
LEMMA HoldsChanges ==
  ASSUME LockInv, NEW m \in Mutexes, NEW e \in Events, NEW n \in 0..MaxNest,
         holds' = [holds EXCEPT ![m][e] = n]
  PROVE  /\ holds' \in [Mutexes -> [Events -> 0..MaxNest]] /\ holds'[m][e] = n
         /\ \A f \in Events \ {e} : holds'[m][f] = holds[m][f]
         /\ \A k \in Mutexes \ {m} : holds'[k] = holds[k]
<1>1. holds \in [Mutexes -> [Events -> 0..MaxNest]]
  BY DEF LockInv, LockTyped
<1> QED
  BY <1>1

(* A running event that is in no block queue may enter or leave a pend.     *)
LEMMA RunningCallsOK ==
  ASSUME LockInv, InThread, running # Service, call' \in [Events -> Calls],
         \A f \in Events \ {running} : call'[f] = call[f],
         got' = [got EXCEPT ![running] = FALSE], UNCHANGED <<event_status, queue>>
  PROVE  CallsOK' /\ got' \in [Events -> BOOLEAN]
<1>1. running \in Events /\ event_status[running] = "READY"
      /\ \A s \in Syncs : running \notin Elements(queue[s])
  BY RunningFacts DEF LockInv
<1>2. /\ got' \in [Events -> BOOLEAN] /\ ~got'[running]
      /\ \A f \in Events \ {running} : got'[f] = got[f]
  BY <1>1 DEF LockInv, LockTyped
<1>3. UNCHANGED <<event_status, queue>>
  OBVIOUS
<1> QED
  BY <1>1, <1>2, <1>3, SchedAssumption DEF LockInv, CallsOK, WaitsFor, Waiting, SchedAssumption

(* What was not handed out stays so. *)
LEMMA GotSame ==
  ASSUME LockInv, NEW e \in Events, ~got[e], got' = got
  PROVE  got' = [got EXCEPT ![e] = FALSE]
  BY DEF LockInv, LockTyped

(* Lock_MutexPend before its critical section. *)
LEMMA MutexPendCallInv ==
  ASSUME LockInv, NEW m \in Mutexes, NEW t \in Timeouts, MutexPendCall(m, t)
  PROVE  LockInv'
<1>1. /\ InThread /\ running # Service /\ call[running].at = "run" /\ StayScheduled
      /\ UNCHANGED <<lamp_counter, owner, wakeup_from, irq, got, null_owner>>
  BY DEF MutexPendCall, InApplication
<1>2. SchedInv' /\ UNCHANGED <<event_status, queue>>
  BY <1>1, StayInv DEF LockInv, StayScheduled, schedVars
<1>3. running \in Events /\ ~got[running]
  BY <1>1, RunningCall
<1>4. NobodyForgottenOK'
  BY <1>1, <1>2 DEF LockInv, NobodyForgottenOK
<1>5. CASE owner[m] = running
  <2>1. /\ enable[m] < MaxNest /\ enable' = [enable EXCEPT ![m] = @ + 1]
        /\ holds' = [holds EXCEPT ![m][running] = @ + 1] /\ call' = call
    BY <1>5 DEF MutexPendCall
  <2>2. enable[m] \in -1..MaxNest /\ holds[m][running] = enable[m] /\ enable[m] > 0
    BY <1>1, <1>3, <1>5, SchedAssumption DEF LockInv, LockTyped, OwnersOK, OwnerOK, WaitsFor, SchedAssumption
  <2>3. holds' = [holds EXCEPT ![m][running] = enable[m] + 1]
    BY <1>3, <2>1, <2>2 DEF LockInv, LockTyped
  <2>4. enable[m] + 1 \in 0..MaxNest
    BY <2>1, <2>2, LockAssumption DEF LockAssumption
  <2>5. /\ holds' \in [Mutexes -> [Events -> 0..MaxNest]] /\ holds'[m][running] = enable[m] + 1
        /\ \A f \in Events \ {running} : holds'[m][f] = holds[m][f]
        /\ \A k \in Mutexes \ {m} : holds'[k] = holds[k]
    BY <1>3, <2>3, <2>4, HoldsChanges
  <2>6. /\ enable' \in [Mutexes -> -1..MaxNest] /\ enable'[m] = enable[m] + 1
        /\ \A k \in Mutexes \ {m} : enable'[k] = enable[k]
    BY <2>1, <2>4 DEF LockInv, LockTyped
  <2>7. CallsOK' /\ PendsOK'
    BY <1>1, <1>2, <2>1, CallsSame, PendsSame DEF LockInv
  <2>8. OwnersOK'
    <3>1. UNCHANGED <<owner, irq, call>>
      BY <1>1, <2>1
    <3>2. ~WaitsFor(running, m)
      BY <1>1 DEF WaitsFor
    <3>3. enable'[m] > 0 /\ enable'[m] # -1 /\ enable'[m] = holds'[m][running]
      BY <2>2, <2>5, <2>6
    <3>4. ASSUME NEW k \in Mutexes, k # m
          PROVE  holds'[k] = holds[k] /\ enable'[k] = enable[k]
      BY <2>5, <2>6, <3>4
    <3> QED
      BY <1>3, <1>5, <2>2, <2>5, <3>1, <3>2, <3>3, <3>4, SchedAssumption
         DEF LockInv, OwnersOK, OwnerOK, WaitsFor, SchedAssumption
  <2>9. LockTyped'
    BY <1>1, <2>1, <2>5, <2>6 DEF LockInv, LockTyped
  <2> QED
    BY <1>2, <1>4, <2>7, <2>8, <2>9 DEF LockInv
<1>6. CASE owner[m] # running
  <2>1. /\ call' = [call EXCEPT ![running] = [at |-> "mutex_pend", lock |-> m, timeout |-> t]]
        /\ UNCHANGED <<enable, holds>>
    BY <1>6 DEF MutexPendCall
  <2>2. /\ call' \in [Events -> Calls] /\ call'[running].at = "mutex_pend" /\ call'[running].lock = m
        /\ \A f \in Events \ {running} : call'[f] = call[f]
    BY <1>3, <2>1, CallValues, CallChanges
  <2>3. CallsOK'
    BY <1>1, <1>2, <1>3, <2>2, GotSame, RunningCallsOK
  <2>4. OwnersOK'
    BY <1>1, <1>3, <1>6, <2>1, <2>2 DEF LockInv, OwnersOK, OwnerOK, WaitsFor
  <2>5. PendsOK'
    BY <1>1, <1>2, <2>2 DEF LockInv, PendsOK
  <2>6. LockTyped'
    BY <1>1, <2>1, <2>2 DEF LockInv, LockTyped
  <2> QED
    BY <1>2, <1>4, <2>3, <2>4, <2>5, <2>6 DEF LockInv
<1> QED
  BY <1>5, <1>6

(* A ready event other than the service event gets priority p. *)
LEMMA PrioChanges ==
  ASSUME PrioOK(prio), NEW e \in Events \ {Service}, NEW p \in Prios,
         prio' = [prio EXCEPT ![e] = p]
  PROVE  PrioOK(prio') /\ prio'[e] = p /\ \A x \in Events \ {e} : prio'[x] = prio[x]
  BY SchedAssumption DEF PrioOK, SchedAssumption

(* __Djy_AddRunningToBlock followed by Djy_RaiseTempPrio: the ready queue    *)
(* loses the running event and keeps the owner, at its new place.            *)
LEMMA BlockAndRaiseInv ==
  ASSUME LockInv, InThread, running # Service, NEW m \in Mutexes,
         NEW t \in {Forever} \union 1..MaxTicks, BlockAndRaise(m, t)
  PROVE  SchedInv' /\ Elements(ready') = Elements(ready) \ {running} /\ m \in Syncs
         /\ EnterBlockQueue(m, t) /\ sync_event' = sync_event
<1> DEFINE o == owner[m]
           others == CutFrom(ready, running)
           Raise == o # NULL /\ prio[running] < prio[o] /\ event_status[o] = "READY"
<1>1. /\ EnterBlockQueue(m, t) /\ running' = Head(ready')
      /\ IF Raise THEN /\ prio' = [prio EXCEPT ![o] = prio[running]]
                       /\ ready' = InsertSorted(CutFrom(others, o), prio', o)
         ELSE prio' = prio /\ ready' = others
      /\ UNCHANGED <<sync_event, prio_base, phase, isr>>
  BY DEF BlockAndRaise, Dispatch
<1>2. m \in Syncs /\ SchedInv /\ PrioOK(prio)
  BY LockAssumption DEF LockAssumption, LockInv, SchedInv
<1>3. ReadyOK(others, prio) /\ Elements(others) = Elements(ready) \ {running}
  BY <1>2, RunningCut
<1>4. running \in Events /\ prio[running] \in Prios /\ \A s \in Syncs : running \notin Elements(queue[s])
  BY <1>2, RunningFacts DEF PrioOK
<1>5. o = owner[m] /\ o \in Events \union {NULL} /\ o # Service
  BY DEF LockInv, LockTyped, OwnersOK, OwnerOK
<1> HIDE DEF others, o
<1>6. CASE Raise
  <2>1. o \in Events \ {Service} /\ event_status[o] = "READY" /\ prio[running] < prio[o]
    BY <1>5, <1>6
  <2>2. o # running /\ o \in Elements(others) /\ \A s \in Syncs : o \notin Elements(queue[s])
    <3>1. o # running
      BY <1>2, <1>4, <2>1 DEF PrioOK
    <3> QED
      BY <1>2, <1>3, <2>1, <3>1 DEF SchedInv, StatusOK, Waiting
  <2>3. PrioOK(prio') /\ \A x \in Events \ {o} : prio'[x] = prio[x]
    BY <1>1, <1>2, <1>4, <1>6, <2>1, PrioChanges
  <2>4. /\ ReadyOK(InsertSorted(CutFrom(others, o), prio', o), prio')
        /\ Elements(InsertSorted(CutFrom(others, o), prio', o)) = Elements(others)
    BY ONLY <1>3, <2>1, <2>2, <2>3, ReadyReprioritise
  <2>5. ReadyOK(ready', prio') /\ Elements(ready') = Elements(ready) \ {running}
    BY <1>1, <1>3, <1>6, <2>4
  <2>6. /\ QueuesOK(queue', prio) /\ DelayOK(delay', remain', isr) /\ StatusOK'
        /\ Elements(queue'[m]) = Elements(queue[m]) \union {running}
        /\ \A r \in Syncs \ {m} : queue'[r] = queue[r]
    BY <1>1, <1>2, <2>5, EnterBlockOK
  <2>7. \A s \in Syncs : o \notin Elements(queue'[s])
    BY <2>2, <2>6
  <2>8. QueuesOK(queue', prio')
    BY <2>3, <2>6, <2>7, QueuesReprioritise
  <2>9. RunningOK'
    BY <1>1, <1>2, <2>5, HeadRuns DEF SchedInv, RunningOK
  <2> QED
    BY <1>1, <1>2, <2>3, <2>5, <2>6, <2>8, <2>9 DEF SchedInv
<1>7. CASE ~Raise
  <2>1. prio' = prio /\ ready' = others
    BY <1>1, <1>7
  <2>2. ReadyOK(ready', prio') /\ Elements(ready') = Elements(ready) \ {running}
    BY <1>3, <2>1
  <2>3. QueuesOK(queue', prio) /\ DelayOK(delay', remain', isr) /\ StatusOK'
    BY <1>1, <1>2, <2>2, EnterBlockOK
  <2>4. RunningOK'
    BY <1>1, <1>2, <2>2, HeadRuns DEF SchedInv, RunningOK
  <2> QED
    BY <1>1, <1>2, <2>1, <2>2, <2>3, <2>4 DEF SchedInv
<1> QED
  BY <1>6, <1>7

(* A mutex changes hands or becomes free. *)
LEMMA MutexChanges ==
  ASSUME LockInv, NEW m \in Mutexes, NEW n \in -1..MaxNest, NEW o \in Events \union {NULL},
         enable' = [enable EXCEPT ![m] = n], owner' = [owner EXCEPT ![m] = o]
  PROVE  /\ enable' \in [Mutexes -> -1..MaxNest] /\ owner' \in [Mutexes -> Events \union {NULL}]
         /\ enable'[m] = n /\ owner'[m] = o
         /\ \A k \in Mutexes \ {m} : enable'[k] = enable[k] /\ owner'[k] = owner[k]
  BY DEF LockInv, LockTyped

(* The critical section of Lock_MutexPend. *)
LEMMA MutexPendLockInv ==
  ASSUME LockInv, NEW m, NEW t, m = call[running].lock, t = call[running].timeout, MutexPendLock
  PROVE  LockInv'
<1>1. /\ InThread /\ ~irq /\ call[running].at = "mutex_pend"
      /\ UNCHANGED <<lamp_counter, wakeup_from, irq, got>>
  BY DEF MutexPendLock
<1>2. /\ running \in Events /\ running # Service /\ ~got[running]
      /\ m \in Mutexes /\ t \in Timeouts
  BY <1>1, RunningCall, CallTyped
<1>3. owner[m] # running /\ holds[m][running] = 0
  BY <1>1, <1>2 DEF LockInv, OwnersOK, OwnerOK
<1>4. \/ /\ enable[m] = 0
         /\ enable' = [enable EXCEPT ![m] = 1] /\ owner' = [owner EXCEPT ![m] = running]
         /\ holds' = [holds EXCEPT ![m][running] = 1]
         /\ call' = [call EXCEPT ![running] = NoCall]
         /\ StayScheduled /\ null_owner' = null_owner
      \/ /\ enable[m] # 0 /\ t = NoWait /\ call' = [call EXCEPT ![running] = NoCall]
         /\ StayScheduled /\ UNCHANGED <<enable, owner, holds, null_owner>>
      \/ /\ enable[m] # 0 /\ t # NoWait /\ BlockAndRaise(m, t)
         /\ null_owner' = (null_owner \/ owner[m] = NULL)
         /\ call' = [call EXCEPT ![running] = [at |-> "wait", lock |-> m, timeout |-> NoWait]]
         /\ UNCHANGED <<enable, owner, holds>>
  BY DEF MutexPendLock
<1>5. CASE call' = [call EXCEPT ![running] = NoCall] /\ StayScheduled /\ null_owner' = null_owner
  <2>1. SchedInv' /\ UNCHANGED <<event_status, queue>>
    BY <1>5, StayInv DEF LockInv, StayScheduled, schedVars
  <2>2. /\ call' \in [Events -> Calls] /\ call'[running].at = "run"
        /\ \A f \in Events \ {running} : call'[f] = call[f]
    BY <1>2, <1>5, CallValues, CallChanges DEF NoCall
  <2>3. CallsOK'
    BY <1>1, <1>2, <2>1, <2>2, GotSame, RunningCallsOK
  <2>4. CASE UNCHANGED <<enable, owner, holds>>
    <3>1. LockTyped'
      BY <1>1, <1>5, <2>2, <2>4 DEF LockInv, LockTyped
    <3>2. OwnersOK'
      BY <1>1, <1>2, <2>2, <2>4 DEF LockInv, OwnersOK, OwnerOK, WaitsFor
    <3>3. PendsOK' /\ NobodyForgottenOK'
      BY <1>1, <1>5, <2>1, <2>2, <2>4 DEF LockInv, PendsOK, NobodyForgottenOK
    <3> QED
      BY <2>1, <2>3, <3>1, <3>2, <3>3 DEF LockInv
  <2>5. CASE /\ enable[m] = 0
             /\ enable' = [enable EXCEPT ![m] = 1] /\ owner' = [owner EXCEPT ![m] = running]
             /\ holds' = [holds EXCEPT ![m][running] = 1]
    <3>1. 1 \in 0..MaxNest /\ 1 \in -1..MaxNest
      BY LockAssumption DEF LockAssumption
    <3>2. /\ enable' \in [Mutexes -> -1..MaxNest] /\ owner' \in [Mutexes -> Events \union {NULL}]
          /\ enable'[m] = 1 /\ owner'[m] = running
          /\ \A k \in Mutexes \ {m} : enable'[k] = enable[k] /\ owner'[k] = owner[k]
      BY ZenonT(60), <1>2, <2>5, <3>1, MutexChanges
    <3>3. /\ holds' \in [Mutexes -> [Events -> 0..MaxNest]] /\ holds'[m][running] = 1
          /\ \A f \in Events \ {running} : holds'[m][f] = holds[m][f]
          /\ \A k \in Mutexes \ {m} : holds'[k] = holds[k]
      BY ZenonT(60), <1>2, <2>5, <3>1, HoldsChanges
    <3>4. owner[m] = NULL /\ \A e \in Events : holds[m][e] = 0
      BY <1>2, <2>5, SchedAssumption DEF LockInv, OwnersOK, OwnerOK, SchedAssumption
    <3>5. LockTyped'
      BY <1>1, <1>5, <2>2, <3>2, <3>3 DEF LockInv, LockTyped
    <3>6. OwnersOK'
      <4>1. ASSUME NEW k \in Mutexes, k # m
            PROVE  enable'[k] = enable[k] /\ owner'[k] = owner[k] /\ holds'[k] = holds[k]
        BY <3>2, <3>3, <4>1
      <4>2. irq' = irq /\ running # NULL
        BY <1>1, <1>2, SchedAssumption DEF SchedAssumption
      <4>3. OwnerOK(m)'
        BY <1>2, <2>2, <3>2, <3>3, <3>4, <4>2 DEF OwnerOK, WaitsFor
      <4>4. ASSUME NEW k \in Mutexes, k # m PROVE OwnerOK(k)'
        BY <1>1, <1>2, <2>2, <4>1, <4>2, <4>4 DEF LockInv, OwnersOK, OwnerOK, WaitsFor
      <4> QED
        BY <4>3, <4>4 DEF OwnersOK
    <3>7. PendsOK'
      <4>1. ASSUME NEW f \in Events, call'[f].at = "wait"
            PROVE  /\ event_status'[f] = "READY" => (got'[f] <=> wakeup_from'[f] # "TIMEOUT")
                   /\ call'[f].lock \in Mutexes => (got'[f] <=> owner'[call'[f].lock] = f)
        <5>1. f # running /\ call'[f] = call[f]
          BY <2>2, <4>1
        <5>2. /\ event_status[f] = "READY" => (got[f] <=> wakeup_from[f] # "TIMEOUT")
              /\ call[f].lock \in Mutexes => (got[f] <=> owner[call[f].lock] = f)
          BY <4>1, <5>1 DEF LockInv, PendsOK
        <5>3. call[f].lock \in Mutexes => (owner'[call[f].lock] = f <=> owner[call[f].lock] = f)
          BY <1>2, <3>2, <3>4, <5>1, SchedAssumption DEF SchedAssumption
        <5>4. UNCHANGED <<event_status, wakeup_from, got>>
          BY <1>1, <2>1
        <5> QED
          BY <5>1, <5>2, <5>3, <5>4
      <4> QED
        BY <4>1 DEF PendsOK
    <3>8. NobodyForgottenOK'
      <4>1. \A k \in Mutexes : owner[k] # NULL => owner'[k] # NULL
        BY <1>2, <3>2, SchedAssumption DEF SchedAssumption
      <4> QED
        BY <1>1, <1>5, <2>1, <4>1 DEF LockInv, NobodyForgottenOK
    <3> QED
      BY <2>1, <2>3, <3>5, <3>6, <3>7, <3>8 DEF LockInv
  <2> QED
    BY <1>4, <1>5, <2>4, <2>5 DEF NoCall
<1>6. CASE /\ enable[m] # 0 /\ t # NoWait /\ BlockAndRaise(m, t)
           /\ null_owner' = (null_owner \/ owner[m] = NULL)
           /\ call' = [call EXCEPT ![running] = [at |-> "wait", lock |-> m, timeout |-> NoWait]]
           /\ UNCHANGED <<enable, owner, holds>>
  <2>1. t \in {Forever} \union 1..MaxTicks
    BY <1>2, <1>6 DEF Timeouts
  <2>2. SchedInv' /\ Elements(ready') = Elements(ready) \ {running} /\ m \in Syncs
        /\ EnterBlockQueue(m, t) /\ sync_event' = sync_event
    BY <1>1, <1>2, <1>6, <2>1, BlockAndRaiseInv
  <2>3. /\ CallsOK' /\ OwnersOK' /\ PendsOK' /\ call' \in [Events -> Calls]
        /\ \A r \in Syncs \ {m} : queue'[r] = queue[r]
    BY ONLY LockInv, <1>1, <1>2, <1>3, <1>6, <2>1, <2>2, WaitOK
  <2>4. null_owner' \in BOOLEAN
    BY <1>6, Zenon
  <2>5. LockTyped'
    BY <1>1, <1>6, <2>3, <2>4 DEF LockInv, LockTyped
  <2>6. ~IsrHolds => owner[m] # NULL
    <3>1. enable[m] \in -1..MaxNest /\ enable[m] # 0
      BY <1>2, <1>6 DEF LockInv, LockTyped
    <3>2. ~IsrHolds => enable[m] # -1
      BY <1>1, <1>2 DEF LockInv, OwnersOK, OwnerOK
    <3>3. ~IsrHolds => enable[m] > 0
      BY <3>1, <3>2
    <3> QED
      BY <1>2, <3>3 DEF LockInv, OwnersOK, OwnerOK
  <2>7. NobodyForgottenOK'
    <3>1. \A s \in Semps : s \in Syncs \ {m}
      BY <1>2, LockAssumption DEF LockAssumption
    <3>2. \A k \in Mutexes \ {m} : queue'[k] = queue[k]
      BY <2>3, LockAssumption DEF LockAssumption
    <3> QED
      BY <1>1, <1>2, <1>6, <2>3, <2>6, <3>1, <3>2 DEF LockInv, NobodyForgottenOK
  <2> QED
    BY <2>2, <2>3, <2>5, <2>7 DEF LockInv
<1> QED
  BY <1>4, <1>5, <1>6

(* Djy_RestorePrio by the running event, then __Djy_EventReady of the first  *)
(* waiter.                                                                   *)
LEMMA HandOverSched ==
  ASSUME LockInv, InThread, running # Service, NEW m \in Mutexes, queue[m] # << >>,
         MutexHandOver(m)
  PROVE  SchedInv' /\ Elements(ready') = Elements(ready) \union {Head(queue[m])}
<1> DEFINE e == Head(queue[m])
           back == IF prio[running] = prio_base[running] THEN ready
                   ELSE InsertSorted(CutFrom(ready, running), prio', running)
<1>1. /\ LeaveBlockQueue(m) /\ prio' = [prio EXCEPT ![running] = prio_base[running]]
      /\ ready' = InsertSorted(back, prio', e) /\ running' = Head(ready')
      /\ UNCHANGED <<sync_event, prio_base, phase, isr>>
  BY DEF MutexHandOver, Dispatch
<1>2. m \in Syncs /\ SchedInv /\ PrioOK(prio) /\ PrioOK(prio_base) /\ ReadyOK(ready, prio)
  BY LockAssumption DEF LockAssumption, LockInv, SchedInv
<1>3. /\ running \in Events \ {Service} /\ prio_base[running] \in Prios
      /\ running \in Elements(ready) /\ \A s \in Syncs : running \notin Elements(queue[s])
  BY <1>2, RunningFacts DEF PrioOK
<1>4. e \in Events \ {Service} /\ e \notin Elements(ready)
  BY <1>2, HeadWaits
<1>5. PrioOK(prio') /\ prio'[running] = prio_base[running]
      /\ \A x \in Events \ {running} : prio'[x] = prio[x]
  BY <1>1, <1>2, <1>3, PrioChanges
<1> HIDE DEF e
<1>6. ReadyOK(back, prio') /\ Elements(back) = Elements(ready)
  <2>1. CASE prio[running] = prio_base[running]
    <3>1. \A x \in Elements(ready) : prio'[x] = prio[x]
      BY <1>2, <1>5, <2>1 DEF ReadyOK, Elements
    <3>2. SortedBy(ready, prio')
      BY <1>2, <3>1, SameKeys DEF ReadyOK
    <3>3. back = ready
      BY <2>1
    <3> QED
      BY <1>2, <3>2, <3>3 DEF ReadyOK
  <2>2. CASE prio[running] # prio_base[running]
    <3>1. back = InsertSorted(CutFrom(ready, running), prio', running)
      BY <2>2
    <3>2. /\ ReadyOK(InsertSorted(CutFrom(ready, running), prio', running), prio')
          /\ Elements(InsertSorted(CutFrom(ready, running), prio', running)) = Elements(ready)
      BY ONLY <1>2, <1>3, <1>5, ReadyReprioritise
    <3> QED
      BY <3>1, <3>2
  <2> QED
    BY <2>1, <2>2
<1> HIDE DEF back
<1>7. ReadyOK(ready', prio') /\ Elements(ready') = Elements(ready) \union {e}
  <2>1. e \notin Elements(back)
    BY <1>4, <1>6
  <2>2. /\ ReadyOK(InsertSorted(back, prio', e), prio')
        /\ Elements(InsertSorted(back, prio', e)) = Elements(back) \union {e}
    BY ONLY <1>4, <1>5, <1>6, <2>1, ReadyInsert
  <2> QED
    BY <1>1, <1>6, <2>2
<1>8. /\ QueuesOK(queue', prio) /\ DelayOK(delay', remain', isr) /\ StatusOK'
      /\ Elements(queue'[m]) = Elements(queue[m]) \ {e}
      /\ \A r \in Syncs \ {m} : queue'[r] = queue[r]
  BY <1>1, <1>2, <1>7, LeaveBlockOK DEF e
<1>9. QueuesOK(queue', prio')
  <2>1. \A s \in Syncs : running \notin Elements(queue'[s])
    BY <1>3, <1>8
  <2> QED
    BY SMTT(60), <1>5, <1>8, <2>1, QueuesReprioritise
<1>10. RunningOK'
  BY <1>1, <1>2, <1>7, HeadRuns DEF SchedInv, RunningOK
<1> QED
  BY <1>1, <1>2, <1>5, <1>7, <1>8, <1>9, <1>10 DEF SchedInv, e

(* Lock_MutexPost. *)
LEMMA MutexPostInv == ASSUME LockInv, NEW m \in Mutexes, MutexPost(m) PROVE LockInv'
<1>1. /\ InThread /\ running # Service /\ call[running].at = "run" /\ owner[m] = running
      /\ holds' = [holds EXCEPT ![m][running] = @ - 1]
      /\ UNCHANGED <<lamp_counter, call, irq, null_owner>>
  BY DEF MutexPost, InApplication
<1>2. running \in Events /\ ~got[running] /\ running # NULL
  BY <1>1, RunningCall, SchedAssumption DEF SchedAssumption
<1>3. enable[m] \in -1..MaxNest /\ holds[m][running] = enable[m] /\ enable[m] > 0
  BY <1>1, <1>2 DEF LockInv, LockTyped, OwnersOK, OwnerOK, WaitsFor
<1>4. /\ holds' \in [Mutexes -> [Events -> 0..MaxNest]] /\ holds'[m][running] = enable[m] - 1
      /\ \A f \in Events \ {running} : holds'[m][f] = holds[m][f]
      /\ \A k \in Mutexes \ {m} : holds'[k] = holds[k]
  <2>1. holds' = [holds EXCEPT ![m][running] = enable[m] - 1]
    BY <1>1, <1>2, <1>3 DEF LockInv, LockTyped
  <2>2. enable[m] - 1 \in 0..MaxNest
    BY <1>3, LockAssumption DEF LockAssumption
  <2> QED
    BY <1>2, <2>1, <2>2, HoldsChanges
<1>5. \A f \in Events \ {running} : holds[m][f] = 0
  BY <1>1 DEF LockInv, OwnersOK, OwnerOK
<1>6. m \in Syncs /\ queue[m] \in Seq(Events)
  BY LockAssumption DEF LockInv, SchedInv, QueuesOK, LockAssumption
<1>7. ASSUME NEW k \in Mutexes, k # m, enable'[k] = enable[k], owner'[k] = owner[k]
      PROVE  OwnerOK(k)'
  <2>1. UNCHANGED <<irq, call>> /\ holds'[k] = holds[k]
    BY <1>1, <1>4, <1>7
  <2> QED
    BY <1>7, <2>1 DEF LockInv, OwnersOK, OwnerOK, WaitsFor
<1>8. CASE StillNested(m)
  <2>1. /\ enable' = [enable EXCEPT ![m] = @ - 1] /\ StayScheduled
        /\ UNCHANGED <<owner, wakeup_from, got>>
    BY <1>8 DEF MutexPost
  <2>2. SchedInv' /\ UNCHANGED <<event_status, queue>>
    BY <2>1, StayInv DEF LockInv, StayScheduled, schedVars
  <2>3. /\ enable' \in [Mutexes -> -1..MaxNest] /\ enable'[m] = enable[m] - 1
        /\ \A k \in Mutexes \ {m} : enable'[k] = enable[k]
    <3>1. enable[m] - 1 \in -1..MaxNest
      BY <1>3, LockAssumption DEF LockAssumption
    <3>2. enable \in [Mutexes -> -1..MaxNest] /\ enable' = [enable EXCEPT ![m] = enable[m] - 1]
      BY <2>1 DEF LockInv, LockTyped
    <3> QED
      BY <3>1, <3>2
  <2>4. LockTyped'
    BY <1>1, <1>4, <2>1, <2>3 DEF LockInv, LockTyped
  <2>5. CallsOK' /\ PendsOK' /\ NobodyForgottenOK'
    BY <1>1, <2>1, <2>2, CallsSame, PendsSame DEF LockInv, NobodyForgottenOK
  <2>6. OwnerOK(m)'
    <3>1. enable'[m] > 0 /\ enable'[m] # -1 /\ holds'[m][running] = enable'[m]
      BY <1>3, <1>4, <1>8, <2>3 DEF StillNested
    <3>2. UNCHANGED <<owner, call>>
      BY <1>1, <2>1
    <3> QED
      BY <1>1, <1>2, <1>4, <1>5, <3>1, <3>2 DEF OwnerOK, WaitsFor
  <2>7. OwnersOK'
    BY <1>7, <2>1, <2>3, <2>6 DEF OwnersOK
  <2> QED
    BY <2>2, <2>4, <2>5, <2>7 DEF LockInv
<1>9. CASE ~StillNested(m)
  <2>1. holds'[m][running] = 0 /\ \A f \in Events : holds'[m][f] = 0
    BY <1>3, <1>4, <1>5, <1>9 DEF StillNested
  <2>2. CASE queue[m] = << >>
    <3>1. /\ enable' = [enable EXCEPT ![m] = 0] /\ owner' = [owner EXCEPT ![m] = NULL]
          /\ StayScheduled /\ UNCHANGED <<wakeup_from, got>>
      BY <1>9, <2>2 DEF MutexPost, MutexRelease
    <3>2. SchedInv' /\ UNCHANGED <<event_status, queue>>
      BY <3>1, StayInv DEF LockInv, StayScheduled, schedVars
    <3>3. /\ enable' \in [Mutexes -> -1..MaxNest] /\ owner' \in [Mutexes -> Events \union {NULL}]
          /\ enable'[m] = 0 /\ owner'[m] = NULL
          /\ \A k \in Mutexes \ {m} : enable'[k] = enable[k] /\ owner'[k] = owner[k]
      <4>1. 0 \in -1..MaxNest
        BY LockAssumption DEF LockAssumption
      <4> QED
        BY <3>1, <4>1, MutexChanges
    <3>4. LockTyped'
      BY <1>1, <1>4, <3>1, <3>3 DEF LockInv, LockTyped
    <3>5. CallsOK'
      BY <1>1, <3>1, <3>2, CallsSame DEF LockInv
    <3>6. OwnerOK(m)'
      <4>1. NULL \notin Events /\ NULL # Service
        BY SchedAssumption DEF SchedAssumption
      <4> QED
        BY <2>1, <3>3, <4>1 DEF OwnerOK
    <3>7. OwnersOK'
      BY <1>7, <3>3, <3>6 DEF OwnersOK
    <3>8. PendsOK'
      <4>1. ASSUME NEW f \in Events, call[f].at = "wait", call[f].lock \in Mutexes
            PROVE  owner'[call[f].lock] = f <=> owner[call[f].lock] = f
        BY <1>1, <3>3, <4>1, SchedAssumption DEF SchedAssumption
      <4>2. UNCHANGED <<event_status, wakeup_from, got, call>>
        BY <1>1, <3>1, <3>2
      <4> QED
        BY <4>1, <4>2 DEF LockInv, PendsOK
    <3>9. NobodyForgottenOK'
      <4>1. Elements(queue[m]) = {}
        BY <1>6, <2>2, EmptyQueue
      <4> QED
        BY <1>1, <3>2, <3>3, <4>1 DEF LockInv, NobodyForgottenOK
    <3> QED
      BY <3>2, <3>4, <3>5, <3>7, <3>8, <3>9 DEF LockInv
  <2>3. CASE queue[m] # << >>
    <3>1. MutexHandOver(m)
      BY <1>9, <2>3 DEF MutexPost
    <3>2. /\ enable' = [enable EXCEPT ![m] = 1] /\ owner' = [owner EXCEPT ![m] = Head(queue[m])]
          /\ wakeup_from' = [wakeup_from EXCEPT ![Head(queue[m])] = "LOCK"]
          /\ got' = [got EXCEPT ![Head(queue[m])] = TRUE]
          /\ LeaveBlockQueue(m) /\ sync_event' = sync_event
      BY <3>1 DEF MutexHandOver
    <3>3. SchedInv' /\ Elements(ready') = Elements(ready) \union {Head(queue[m])}
      BY <1>1, <2>3, <3>1, HandOverSched
    <3>4. /\ Head(queue[m]) \in Events \ {Service} /\ Head(queue[m]) \in Elements(queue[m])
          /\ Head(queue[m]) # NULL
      BY <1>6, <2>3, HeadWaits, SchedAssumption DEF LockInv, SchedAssumption
    <3>5. /\ enable' \in [Mutexes -> -1..MaxNest] /\ owner' \in [Mutexes -> Events \union {NULL}]
          /\ enable'[m] = 1 /\ owner'[m] = Head(queue[m])
          /\ \A k \in Mutexes \ {m} : enable'[k] = enable[k] /\ owner'[k] = owner[k]
      <4>1. 1 \in -1..MaxNest
        BY LockAssumption DEF LockAssumption
      <4> QED
        BY <3>2, <3>4, <4>1, MutexChanges
    <3>6. /\ CallsOK' /\ PendsOK'
          /\ wakeup_from' \in [Events -> {"NONE", "LOCK", "TIMEOUT", "DELAY"}]
          /\ got' \in [Events -> BOOLEAN]
          /\ \A r \in Syncs : Elements(queue'[r]) \subseteq Elements(queue[r])
      BY ONLY LockInv, <1>1, <1>6, <2>3, <3>2, <3>3, <3>5, WokenOK
    <3>7. LockTyped'
      BY <1>1, <1>4, <3>5, <3>6 DEF LockInv, LockTyped
    <3>8. WaitsFor(Head(queue[m]), m)
      BY <1>6, <3>4 DEF LockInv, CallsOK
    <3>9. OwnerOK(m)'
      <4> DEFINE e == Head(queue[m])
      <4>1. /\ e \in Events \ {Service} /\ e # NULL /\ owner'[m] = e /\ enable'[m] = 1
            /\ call[e].at = "wait" /\ call[e].lock = m /\ call' = call
        BY <1>1, <3>4, <3>5, <3>8 DEF WaitsFor
      <4> HIDE DEF e
      <4> QED
        BY <2>1, <4>1 DEF OwnerOK, WaitsFor
    <3>10. OwnersOK'
      BY <1>7, <3>5, <3>9 DEF OwnersOK
    <3>11. NobodyForgottenOK'
      <4>1. \A k \in Mutexes : owner[k] # NULL => owner'[k] # NULL
        BY <3>4, <3>5
      <4>2. \A r \in Syncs : Elements(queue'[r]) # {} => Elements(queue[r]) # {}
        BY <3>6
      <4> QED
        BY <1>1, <4>1, <4>2, LockAssumption DEF LockInv, NobodyForgottenOK, LockAssumption
    <3> QED
      BY <3>3, <3>6, <3>7, <3>10, <3>11 DEF LockInv
  <2> QED
    BY <2>2, <2>3
<1> QED
  BY <1>8, <1>9

(* The tail of a pend. *)
LEMMA PendReturnInv ==
  ASSUME LockInv, NEW x, x = call[running].lock, PendReturn
  PROVE  LockInv'
<1>1. /\ InThread /\ ~irq /\ call[running].at = "wait" /\ StayScheduled
      /\ call' = [call EXCEPT ![running] = NoCall]
      /\ holds' = IF x \in Mutexes /\ wakeup_from[running] # "TIMEOUT"
                  THEN [holds EXCEPT ![x][running] = 1] ELSE holds
      /\ got' = [got EXCEPT ![running] = FALSE]
      /\ UNCHANGED <<lamp_counter, enable, owner, wakeup_from, irq, null_owner>>
  BY DEF PendReturn
<1>2. running \in Events /\ running # Service /\ event_status[running] = "READY" /\ x \in Syncs
  BY <1>1, RunningCall, CallTyped DEF InThread
<1>3. SchedInv' /\ UNCHANGED <<event_status, queue>>
  BY <1>1, StayInv DEF LockInv, StayScheduled, schedVars
<1>4. /\ call' \in [Events -> Calls] /\ call'[running].at = "run"
      /\ \A f \in Events \ {running} : call'[f] = call[f]
  BY <1>1, <1>2, CallValues, CallChanges DEF NoCall
<1>5. CallsOK' /\ got' \in [Events -> BOOLEAN]
  BY <1>1, <1>2, <1>3, <1>4, RunningCallsOK
<1>6. got[running] <=> wakeup_from[running] # "TIMEOUT"
  BY <1>1, <1>2 DEF LockInv, PendsOK
<1>7. x \in Mutexes => (got[running] <=> owner[x] = running)
  BY <1>1, <1>2 DEF LockInv, PendsOK
<1>8. /\ holds' \in [Mutexes -> [Events -> 0..MaxNest]]
      /\ \A k \in Mutexes : \A f \in Events :
           holds'[k][f] = IF k = x /\ f = running /\ owner[k] = running THEN 1 ELSE holds[k][f]
  <2>1. CASE x \in Mutexes /\ wakeup_from[running] # "TIMEOUT"
    <3>1. holds' = [holds EXCEPT ![x][running] = 1] /\ owner[x] = running
      BY <1>1, <1>6, <1>7, <2>1
    <3>2. 1 \in 0..MaxNest
      BY SMTT(60), LockAssumption DEF LockAssumption
    <3>3. /\ holds' \in [Mutexes -> [Events -> 0..MaxNest]] /\ holds'[x][running] = 1
          /\ \A f \in Events \ {running} : holds'[x][f] = holds[x][f]
          /\ \A k \in Mutexes \ {x} : holds'[k] = holds[k]
      BY <1>2, <2>1, <3>1, <3>2, HoldsChanges
    <3> QED
      BY <3>1, <3>3
  <2>2. CASE ~(x \in Mutexes /\ wakeup_from[running] # "TIMEOUT")
    <3>1. holds' = holds /\ (x \in Mutexes => owner[x] # running)
      BY <1>1, <1>6, <1>7, <2>2
    <3> QED
      BY <3>1 DEF LockInv, LockTyped
  <2> QED
    BY <2>1, <2>2
<1>9. LockTyped'
  BY <1>1, <1>4, <1>5, <1>8 DEF LockInv, LockTyped
<1>10. OwnersOK'
  <2> SUFFICES ASSUME NEW k \in Mutexes PROVE OwnerOK(k)'
    BY DEF OwnersOK
  <2>1. UNCHANGED <<enable, owner, irq>> /\ OwnerOK(k)
    BY <1>1 DEF LockInv, OwnersOK
  <2>2. ASSUME NEW e \in Events
        PROVE  /\ owner[k] # e => holds'[k][e] = 0
               /\ owner[k] = e /\ WaitsFor(e, k)' => holds'[k][e] = 0 /\ enable[k] = 1
               /\ owner[k] = e /\ ~WaitsFor(e, k)' => holds'[k][e] = enable[k]
               /\ call'[e].at = "mutex_pend" /\ call'[e].lock = k => owner[k] # e
    <3>1. CASE e # running
      BY <1>4, <1>8, <2>1, <3>1 DEF OwnerOK, WaitsFor
    <3>2. CASE e = running
      BY <1>1, <1>4, <1>8, <2>1, <3>2 DEF OwnerOK, WaitsFor
    <3> QED
      BY <3>1, <3>2
  <2> QED
    BY <2>1, <2>2 DEF OwnerOK
<1>11. PendsOK'
  <2>1. \A f \in Events \ {running} : got'[f] = got[f]
    BY <1>1, <1>2 DEF LockInv, LockTyped
  <2> QED
    BY <1>1, <1>3, <1>4, <2>1 DEF LockInv, PendsOK
<1>12. NobodyForgottenOK'
  BY SMTT(60), <1>1, <1>3 DEF LockInv, NobodyForgottenOK
<1> QED
  BY <1>3, <1>5, <1>9, <1>10, <1>11, <1>12 DEF LockInv
--------------------------------------------------------------------------------
(* An interrupt service routine takes or returns a mutex nobody owns.       *)
LEMMA IsrStepInv ==
  ASSUME LockInv, StayScheduled, irq' \in BOOLEAN, enable' \in [Mutexes -> -1..MaxNest],
         UNCHANGED <<lamp_counter, owner, wakeup_from, call, got, holds, null_owner>>,
         \A m \in Mutexes : \/ enable'[m] = enable[m]
                            \/ {enable[m], enable'[m]} \subseteq {0, -1},
         \A m \in Mutexes : enable'[m] = -1 => irq' \/ IsrHolds
  PROVE  LockInv'
<1>1. SchedInv' /\ UNCHANGED <<event_status, queue>>
  BY StayInv DEF LockInv, StayScheduled, schedVars
<1>2. UNCHANGED <<lamp_counter, owner, wakeup_from, call, got, holds, null_owner>>
  OBVIOUS
<1>3. LockTyped'
  BY <1>2 DEF LockInv, LockTyped
<1>4. CallsOK' /\ PendsOK' /\ NobodyForgottenOK'
  BY <1>1, <1>2, CallsSame, PendsSame DEF LockInv, NobodyForgottenOK
<1>5. ASSUME NEW m \in Mutexes PROVE OwnerOK(m)'
  <2>1. OwnerOK(m) /\ (enable'[m] = -1 => irq' \/ IsrHolds)
    BY DEF LockInv, OwnersOK
  <2>2. CASE enable'[m] = enable[m]
    BY <1>2, <2>1, <2>2 DEF OwnerOK, WaitsFor
  <2>3. CASE {enable[m], enable'[m]} \subseteq {0, -1}
    <3>1. ~(enable[m] > 0) /\ ~(enable'[m] > 0)
      BY <2>3
    <3>2. owner[m] = NULL /\ NULL \notin Events
      BY <2>1, <3>1, SchedAssumption DEF OwnerOK, SchedAssumption
    <3> QED
      BY <1>2, <2>1, <3>1, <3>2 DEF OwnerOK, WaitsFor
  <2> QED
    BY <2>2, <2>3
<1> QED
  BY <1>1, <1>3, <1>4, <1>5 DEF LockInv, OwnersOK

(* Lock_MutexPend in an interrupt. *)
LEMMA IsrMutexPendInv == ASSUME LockInv, NEW m \in Mutexes, IsrMutexPend(m) PROVE LockInv'
<1>1. /\ irq' = TRUE /\ StayScheduled
      /\ enable' = [enable EXCEPT ![m] = IF @ = 0 THEN -1 ELSE @]
      /\ UNCHANGED <<lamp_counter, owner, wakeup_from, call, got, holds, null_owner>>
  BY DEF IsrMutexPend
<1>2. enable \in [Mutexes -> -1..MaxNest] /\ -1 \in -1..MaxNest
  BY LockAssumption DEF LockInv, LockTyped, LockAssumption
<1>3. enable' \in [Mutexes -> -1..MaxNest]
  BY <1>1, <1>2
<1>4. \A k \in Mutexes : enable'[k] = enable[k] \/ {enable[k], enable'[k]} \subseteq {0, -1}
  BY <1>1, <1>2
<1>5. irq' \in BOOLEAN /\ irq'
  BY <1>1, Zenon
<1> QED
  BY ONLY LockInv, <1>1, <1>3, <1>4, <1>5, IsrStepInv

(* Lock_MutexPost in an interrupt. *)
LEMMA IsrMutexPostInv == ASSUME LockInv, NEW m \in Mutexes, IsrMutexPost(m) PROVE LockInv'
<1>1. /\ enable[m] = -1 /\ StayScheduled /\ enable' = [enable EXCEPT ![m] = 0]
      /\ UNCHANGED <<lamp_counter, owner, wakeup_from, call, irq, got, holds, null_owner>>
  BY DEF IsrMutexPost
<1>2. enable \in [Mutexes -> -1..MaxNest] /\ 0 \in -1..MaxNest /\ irq \in BOOLEAN
  BY LockAssumption DEF LockInv, LockTyped, LockAssumption
<1>3. enable' \in [Mutexes -> -1..MaxNest]
  BY <1>1, <1>2
<1>4. \A k \in Mutexes : enable'[k] = enable[k] \/ {enable[k], enable'[k]} \subseteq {0, -1}
  BY <1>1, <1>2
<1>5. \A k \in Mutexes : enable'[k] = -1 => irq' \/ IsrHolds
  BY <1>1, <1>2 DEF LockInv, OwnersOK, OwnerOK
<1>6. irq' \in BOOLEAN
  BY <1>1, <1>2
<1> QED
  BY ONLY LockInv, <1>1, <1>3, <1>4, <1>5, <1>6, IsrStepInv

(* The interrupt returns. *)
LEMMA IsrReturnInv == ASSUME LockInv, IsrReturn PROVE LockInv'
<1>1. /\ IsrHolds \/ \A m \in Mutexes : enable[m] # -1
      /\ irq' = FALSE /\ StayScheduled
      /\ UNCHANGED <<lamp_counter, enable, owner, wakeup_from, call, got, holds, null_owner>>
  BY DEF IsrReturn
<1>2. enable' \in [Mutexes -> -1..MaxNest]
  BY <1>1 DEF LockInv, LockTyped
<1>3. irq' \in BOOLEAN
  BY <1>1, Zenon
<1>4. \A m \in Mutexes : enable'[m] = -1 => irq' \/ IsrHolds
  BY <1>1
<1> QED
  BY ONLY LockInv, <1>1, <1>2, <1>3, <1>4, IsrStepInv

(* Djy_EventDelay of an event outside any pend. *)
LEMMA LockDelayInv == ASSUME LockInv, NEW t \in 1..MaxTicks, LockDelay(t) PROVE LockInv'
<1>1. /\ Delay(t) /\ InThread /\ call[running].at = "run" /\ running # Service
      /\ UNCHANGED <<lamp_counter, enable, owner, wakeup_from, call, irq, got, holds, null_owner>>
      /\ event_status' = [event_status EXCEPT ![running] = "DELAY"] /\ queue' = queue
  BY DEF LockDelay, InApplication, lockVars, Delay
<1>2. SchedInv'
  BY <1>1, DelayInv DEF LockInv
<1>3. running \in Events
  BY RunningFacts DEF LockInv
<1>4. /\ event_status'[running] = "DELAY"
      /\ \A e \in Events \ {running} : event_status'[e] = event_status[e]
  BY <1>1, <1>3 DEF LockInv, SchedInv, StatusOK
<1>5. CallsOK'
  BY <1>1, <1>3, <1>4 DEF LockInv, CallsOK, WaitsFor, Waiting
<1>6. PendsOK'
  BY <1>1, <1>3, <1>4 DEF LockInv, PendsOK
<1>7. LockTyped' /\ OwnersOK' /\ NobodyForgottenOK'
  BY <1>1, OwnersSame DEF LockInv, LockTyped, NobodyForgottenOK
<1> QED
  BY <1>2, <1>5, <1>6, <1>7 DEF LockInv

(* The tick begins and ends without a wake-up. *)
LEMMA LockTickInv == ASSUME LockInv, LockTick \/ LockTickEnd PROVE LockInv'
<1>1. /\ UNCHANGED <<lamp_counter, enable, owner, wakeup_from, call, irq, got, holds, null_owner>>
      /\ UNCHANGED <<event_status, queue>>
  BY DEF LockTick, LockTickEnd, TickBegin, TickEnd, lockVars
<1>2. SchedInv'
  BY TickBeginInv, TickEndInv DEF LockInv, LockTick, LockTickEnd
<1> QED
  BY <1>1, <1>2, CallsSame, OwnersSame, PendsSame DEF LockInv, LockTyped, NobodyForgottenOK

(* The alarm wakes an event: it leaves its delay, or its pend without the    *)
(* lock.                                                                     *)
LEMMA LockTickWakeInv == ASSUME LockInv, LockTickWake PROVE LockInv'
<1> DEFINE e == Head(delay)
           n == [s \in Syncs |-> IF e \in Elements(queue[s]) THEN CutFrom(queue[s], e) ELSE queue[s]]
           w == IF event_status[e] = "DELAY" THEN "DELAY" ELSE "TIMEOUT"
<1>1. /\ TickWake /\ delay # << >> /\ queue' = n
      /\ event_status' = [event_status EXCEPT ![e] = "READY"]
      /\ wakeup_from' = [wakeup_from EXCEPT ![e] = w]
      /\ UNCHANGED <<lamp_counter, enable, owner, call, irq, got, holds, null_owner>>
  BY DEF LockTickWake, TickWake, AlarmDue
<1>2. SchedInv'
  BY <1>1, TickWakeInv DEF LockInv
<1>3. e \in Elements(delay) /\ e \in Events
  BY <1>1, TailIsCut DEF LockInv, SchedInv, DelayOK
<1> HIDE DEF e, n
<1>4. \A s \in Syncs : Elements(n[s]) = Elements(queue[s]) \ {e}
  <2>1. QueuesOK(queue, prio)
    BY DEF LockInv, SchedInv
  <2>2. n = [s \in Syncs |-> IF e \in Elements(queue[s]) THEN CutFrom(queue[s], e) ELSE queue[s]]
    BY DEF n
  <2> QED
    BY ONLY <2>1, <2>2, QueueCut
<1>5. event_status[e] \in Timed
  BY <1>3 DEF LockInv, SchedInv, StatusOK
<1>6. \A s \in Syncs : Elements(queue'[s]) = Elements(queue[s]) \ {e}
  BY <1>1, <1>4
<1>7. /\ event_status'[e] = "READY" /\ wakeup_from'[e] = w
      /\ wakeup_from' \in [Events -> {"NONE", "LOCK", "TIMEOUT", "DELAY"}]
      /\ \A f \in Events \ {e} : event_status'[f] = event_status[f]
                                 /\ wakeup_from'[f] = wakeup_from[f]
  BY <1>1, <1>3 DEF LockInv, LockTyped, SchedInv, StatusOK
<1>8. LockTyped'
  BY <1>1, <1>7 DEF LockInv, LockTyped
<1>9. CallsOK'
  BY SMTT(60), <1>1, <1>3, <1>6, <1>7 DEF LockInv, CallsOK, WaitsFor, Waiting
<1>10. OwnersOK'
  BY <1>1, OwnersSame DEF LockInv
<1>11. PendsOK'
  <2>1. UNCHANGED <<call, got, owner>>
    BY <1>1
  <2>2. CASE event_status[e] = "DELAY"
    <3>1. call[e].at = "run"
      BY <1>3, <2>2 DEF LockInv, CallsOK
    <3> QED
      BY <1>7, <2>1, <3>1 DEF LockInv, PendsOK
  <2>3. CASE event_status[e] = "WAIT_TIMEOUT"
    <3>1. \E s \in Syncs : e \in Elements(queue[s])
      BY <1>3, <2>3 DEF LockInv, SchedInv, StatusOK, Waiting
    <3>2. ~got[e] /\ wakeup_from'[e] = "TIMEOUT"
      BY <1>3, <1>7, <2>3, <3>1 DEF LockInv, CallsOK
    <3> QED
      BY <1>3, <1>7, <2>1, <3>2 DEF LockInv, PendsOK
  <2> QED
    BY <1>5, <2>2, <2>3 DEF Timed
<1>12. NobodyForgottenOK'
  <2>1. \A r \in Syncs : Elements(queue'[r]) # {} => Elements(queue[r]) # {}
    BY <1>6
  <2> QED
    BY <1>1, <2>1, LockAssumption DEF LockInv, NobodyForgottenOK, LockAssumption
<1> QED
  BY <1>2, <1>8, <1>9, <1>10, <1>11, <1>12 DEF LockInv
--------------------------------------------------------------------------------
(* Every step keeps the inductive invariant. *)
LEMMA LockStep == LockInv /\ [LockNext]_vars => LockInv'
<1> SUFFICES ASSUME LockInv, [LockNext]_vars PROVE LockInv'
  OBVIOUS
<1>1. ASSUME NEW s \in Semps, NEW t \in Timeouts, SempPend(s, t) PROVE LockInv'
  BY <1>1, SempPendInv
<1>2. ASSUME NEW s \in Semps, SempPost(s) PROVE LockInv'
  BY <1>2, SempPostInv
<1>3. ASSUME NEW m \in Mutexes, NEW t \in Timeouts, MutexPendCall(m, t) PROVE LockInv'
  BY <1>3, MutexPendCallInv
<1>4. CASE MutexPendLock
  BY <1>4, MutexPendLockInv
<1>5. ASSUME NEW m \in Mutexes, MutexPost(m) PROVE LockInv'
  BY <1>5, MutexPostInv
<1>6. CASE PendReturn
  BY <1>6, PendReturnInv
<1>7. ASSUME NEW m \in Mutexes, IsrMutexPend(m) PROVE LockInv'
  BY <1>7, IsrMutexPendInv
<1>8. ASSUME NEW m \in Mutexes, IsrMutexPost(m) PROVE LockInv'
  BY <1>8, IsrMutexPostInv
<1>9. CASE IsrReturn
  BY <1>9, IsrReturnInv
<1>10. ASSUME NEW t \in 1..MaxTicks, LockDelay(t) PROVE LockInv'
  BY <1>10, LockDelayInv
<1>11. CASE LockTick \/ LockTickEnd
  BY <1>11, LockTickInv
<1>12. CASE LockTickWake
  BY <1>12, LockTickWakeInv
<1>13. CASE UNCHANGED vars
  <2>1. StayScheduled /\ UNCHANGED <<event_status, queue>>
        /\ UNCHANGED <<lamp_counter, enable, owner, wakeup_from, call, irq, got, holds, null_owner>>
    BY <1>13 DEF vars, StayScheduled, schedVars, lockVars
  <2> QED
    BY <2>1, StayInv, CallsSame, OwnersSame, PendsSame DEF LockInv, LockTyped, NobodyForgottenOK
<1> QED
  BY <1>1, <1>2, <1>3, <1>4, <1>5, <1>6, <1>7, <1>8, <1>9, <1>10, <1>11, <1>12, <1>13
     DEF LockNext

(* The inductive invariant holds of every behaviour. *)
THEOREM LockInvariance == LockSpec => []LockInv
  BY LockInitInv, LockStep, PTL DEF LockSpec

(* Type correctness: lamp_counter never exceeds lamps_limit, enable counts   *)
(* no further than the pends of the owner, and every pend is for a lock.     *)
THEOREM LockTypeCorrect == LockSpec => []LockTypeOK
<1>1. LockInv => LockTypeOK
  BY SchedInvTyped DEF LockInv, LockTyped, LockTypeOK
<1> QED
  BY <1>1, LockInvariance, PTL

(* Mutual exclusion of Lock_MutexPend, by what it returned to its callers:   *)
(* across hand-overs, timeouts, nested pends and interrupt handlers at most  *)
(* one event believes to hold a mutex, and enable counts its pends.          *)
THEOREM MutexesExclude == LockSpec => []MutualExclusion
<1>1. LockInv => MutualExclusion
  BY DEF LockInv, LockTyped, OwnersOK, OwnerOK, MutualExclusion
<1> QED
  BY <1>1, LockInvariance, PTL

(* Lock_SempPend and Lock_MutexPend report a timeout exactly when the lamp   *)
(* or the mutex was not handed to them, although the report is read from     *)
(* wakeup_from long after the wake-up.                                       *)
THEOREM PendsTellTheTruth == LockSpec => []PendTellsTheTruth
<1>1. LockInv => PendTellsTheTruth
  BY DEF LockInv, PendsOK, PendTellsTheTruth
<1> QED
  BY <1>1, LockInvariance, PTL

(* Without an interrupt handler that returns holding a mutex nobody waits    *)
(* for a lit lamp or for a mutex without an owner: no post is lost.          *)
THEOREM NoPostIsLost == ASSUME ~IsrHolds PROVE LockSpec => []NobodyWaitsForAFreeLock
<1>1. LockInv => NobodyWaitsForAFreeLock
  <2> SUFFICES ASSUME LockInv PROVE NobodyWaitsForAFreeLock
    OBVIOUS
  <2>1. \A x \in Semps \union Mutexes : queue[x] \in Seq(Events)
    BY LockAssumption DEF LockInv, SchedInv, QueuesOK, LockAssumption
  <2> QED
    BY <2>1, EmptyQueue DEF LockInv, NobodyForgottenOK, OwnersOK, OwnerOK, NobodyWaitsForAFreeLock
<1> QED
  BY <1>1, LockInvariance, PTL

(* Nor does Lock_MutexPend then raise the priority of an owner that is NULL. *)
THEOREM OwnersAreKnown == ASSUME ~IsrHolds PROVE LockSpec => []OwnerIsKnown
<1>1. LockInv => OwnerIsKnown
  BY DEF LockInv, NobodyForgottenOK, OwnerIsKnown
<1> QED
  BY <1>1, LockInvariance, PTL
--------------------------------------------------------------------------------
(* Priority inheritance.  Steps that change neither owners nor priorities:   *)
(* owners stay ready, waiters may only leave, and whoever starts a pend that *)
(* may wait owns nothing.                                                    *)
LEMMA InheritSame ==
  ASSUME LockInv, InheritInv, UNCHANGED <<owner, prio>>,
         \A m \in Mutexes : owner[m] # NULL => event_status'[owner[m]] = "READY",
         \A e \in Events : \/ call'[e] = call[e]
                           \/ call'[e].at # "mutex_pend" \/ call'[e].timeout = NoWait
                           \/ \A m \in Mutexes : owner[m] # e,
         \A m \in Mutexes : Elements(queue'[m]) \subseteq Elements(queue[m])
  PROVE  InheritInv'
<1>1. OwnerRuns' /\ OwnersFirst'
  BY DEF InheritInv, OwnerRuns, OwnersFirst
<1>2. WaitersOwnNothing'
  BY DEF InheritInv, WaitersOwnNothing
<1> QED
  BY <1>1, <1>2 DEF InheritInv

(* A step in which the scheduler does nothing. *)
LEMMA InheritStay ==
  ASSUME LockInv, InheritInv, StayScheduled, owner' = owner,
         \A e \in Events : \/ call'[e] = call[e]
                           \/ call'[e].at # "mutex_pend" \/ call'[e].timeout = NoWait
                           \/ \A m \in Mutexes : owner[m] # e
  PROVE  InheritInv'
<1>1. UNCHANGED <<prio, event_status, queue>>
  BY DEF StayScheduled, schedVars
<1> QED
  BY <1>1, InheritSame DEF InheritInv, OwnerRuns

(* An event that owns nothing stops being ready, or one becomes ready. *)
LEMMA InheritOther ==
  ASSUME LockInv, InheritInv, UNCHANGED <<owner, prio>>, NEW e \in Events, NEW w,
         event_status' = [event_status EXCEPT ![e] = w],
         w = "READY" \/ \A m \in Mutexes : owner[m] # e,
         \A f \in Events : call'[f] = call[f] \/ call'[f].at # "mutex_pend",
         \A m \in Mutexes : Elements(queue'[m]) \subseteq Elements(queue[m])
  PROVE  InheritInv'
<1>1. \A m \in Mutexes : owner[m] # NULL => event_status'[owner[m]] = "READY"
  BY DEF LockInv, LockTyped, SchedInv, StatusOK, InheritInv, OwnerRuns
<1> QED
  BY <1>1, InheritSame

(* The semaphores: whoever waits owns no mutex. *)
LEMMA InheritSemp ==
  ASSUME LockInv, InheritInv, ~HoldAndBlock, NEW s \in Semps,
         \/ \E t \in Timeouts : SempPend(s, t)
         \/ SempPost(s)
  PROVE  InheritInv'
<1>1. /\ s \in Syncs /\ \A m \in Mutexes : m \in Syncs \ {s}
      /\ running \in Events /\ SchedInv
  BY LockAssumption, RunningFacts DEF LockInv, LockAssumption
<1>2. ASSUME NEW t \in Timeouts, SempPend(s, t) PROVE InheritInv'
  <2>1. InThread /\ call[running].at = "run" /\ MayWait(t) /\ owner' = owner /\ running # Service
    BY <1>2 DEF SempPend, InApplication
  <2>2. CASE StayScheduled /\ call' = call
    BY <2>1, <2>2, InheritStay
  <2>3. CASE /\ t # NoWait /\ Block(s, t)
             /\ call' = [call EXCEPT ![running] = [at |-> "wait", lock |-> s, timeout |-> NoWait]]
    <3>1. t \in {Forever} \union 1..MaxTicks
      BY <2>3 DEF Timeouts
    <3>2. \A m \in Mutexes : owner[m] # running
      BY <2>1, <2>3 DEF MayWait
    <3>3. prio' = prio /\ EnterBlockQueue(s, t) /\ sync_event' = sync_event
          /\ Elements(ready') = Elements(ready) \ {running}
      BY <1>1, <2>1, <2>3, RunningCut DEF Block
    <3>4. \A r \in Syncs \ {s} : queue'[r] = queue[r]
      BY <1>1, <2>1, <3>1, <3>3, EnterBlockOK
    <3>5. event_status' = [event_status EXCEPT ![running] = IF t = Forever THEN "WAIT" ELSE "WAIT_TIMEOUT"]
      BY <3>3 DEF EnterBlockQueue
    <3>6. \A f \in Events : call'[f] = call[f] \/ call'[f].at # "mutex_pend"
      BY <1>1, <2>3 DEF LockInv, LockTyped
    <3> QED
      BY <1>1, <2>1, <3>2, <3>3, <3>4, <3>5, <3>6, InheritOther
  <2> QED
    BY <1>2, <2>2, <2>3 DEF SempPend
<1>3. CASE SempPost(s)
  <2>1. UNCHANGED <<owner, call>>
    BY <1>3 DEF SempPost
  <2>2. CASE queue[s] = << >>
    <3>1. StayScheduled
      BY <1>3, <2>2 DEF SempPost
    <3> QED
      BY <2>1, <3>1, InheritStay
  <2>3. CASE queue[s] # << >>
    <3>1. /\ LeaveBlockQueue(s) /\ UNCHANGED <<prio, sync_event>>
          /\ event_status' = [event_status EXCEPT ![Head(queue[s])] = "READY"]
          /\ ready' = InsertSorted(ready, prio, Head(queue[s]))
      BY <1>3, <2>3 DEF SempPost, Wake, LeaveBlockQueue
    <3>2. Elements(ready') = Elements(ready) \union {Head(queue[s])} /\ Head(queue[s]) \in Events
      BY <1>1, <2>3, <3>1, HeadWaits, ReadyInsert DEF SchedInv
    <3>3. \A r \in Syncs \ {s} : queue'[r] = queue[r]
      BY <1>1, <2>3, <3>1, <3>2, LeaveBlockOK
    <3> QED
      BY <1>1, <2>1, <3>1, <3>2, <3>3, InheritOther
  <2> QED
    BY <2>2, <2>3
<1> QED
  BY <1>2, <1>3

(* Lock_MutexPend before its critical section. *)
LEMMA InheritPendCall ==
  ASSUME LockInv, InheritInv, ~HoldAndBlock, NEW m \in Mutexes, NEW t \in Timeouts,
         MutexPendCall(m, t)
  PROVE  InheritInv'
<1>1. /\ MayWait(t) /\ StayScheduled /\ owner' = owner
      /\ \/ call' = call
         \/ call' = [call EXCEPT ![running] = [at |-> "mutex_pend", lock |-> m, timeout |-> t]]
  BY DEF MutexPendCall
<1>2. running \in Events /\ call \in [Events -> Calls]
  BY RunningFacts DEF LockInv, LockTyped
<1>3. \A e \in Events : \/ call'[e] = call[e]
                        \/ call'[e].timeout = NoWait \/ \A k \in Mutexes : owner[k] # e
  BY <1>1, <1>2 DEF MayWait
<1> QED
  BY <1>1, <1>3, InheritStay

(* The critical section of Lock_MutexPend: the owner gets the priority of    *)
(* the first waiter that is above it.                                        *)
LEMMA InheritPendLock ==
  ASSUME LockInv, LockInv', InheritInv, ~IsrHolds, NEW m, NEW t,
         m = call[running].lock, t = call[running].timeout, MutexPendLock
  PROVE  InheritInv'
<1>1. InThread /\ ~irq /\ call[running].at = "mutex_pend"
  BY DEF MutexPendLock
<1>2. /\ running \in Events /\ running # Service /\ m \in Mutexes /\ t \in Timeouts
      /\ event_status[running] = "READY" /\ call \in [Events -> Calls] /\ m \in Syncs
  BY <1>1, RunningCall, CallTyped, LockAssumption DEF InThread, LockInv, LockTyped, LockAssumption
<1>3. owner \in [Mutexes -> Events \union {NULL}] /\ NULL \notin Events
  BY SchedAssumption DEF LockInv, LockTyped, SchedAssumption
<1>4. CASE call' = [call EXCEPT ![running] = NoCall] /\ StayScheduled
  <2>1. \A e \in Events : call'[e] = call[e] \/ call'[e].at # "mutex_pend"
    BY <1>2, <1>4 DEF NoCall
  <2>2. CASE owner' = owner
    BY <1>4, <2>1, <2>2, InheritStay
  <2>3. CASE enable[m] = 0 /\ owner' = [owner EXCEPT ![m] = running]
    <3>1. UNCHANGED <<prio, event_status, queue>>
      BY <1>4 DEF StayScheduled, schedVars
    <3>2. owner'[m] = running /\ \A k \in Mutexes \ {m} : owner'[k] = owner[k]
      BY <1>2, <1>3, <2>3
    <3>3. Elements(queue[m]) = {}
      <4>1. owner[m] = NULL
        BY <1>2, <2>3 DEF LockInv, OwnersOK, OwnerOK
      <4> QED
        BY <1>2, <4>1 DEF LockInv, NobodyForgottenOK
    <3>4. OwnerRuns'
      BY <1>2, <3>1, <3>2 DEF InheritInv, OwnerRuns
    <3>5. WaitersOwnNothing'
      <4>1. call'[running].at # "mutex_pend" /\ \A e \in Events \ {running} : call'[e] = call[e]
        BY <1>2, <1>4 DEF NoCall
      <4> QED
        BY <1>2, <3>2, <4>1 DEF InheritInv, WaitersOwnNothing
    <3>6. OwnersFirst'
      BY <3>1, <3>2, <3>3 DEF InheritInv, OwnersFirst
    <3> QED
      BY <3>4, <3>5, <3>6 DEF InheritInv
  <2> QED
    <3>1. ~(t # NoWait /\ enable[m] # 0)
      <4>1. call'[running].at = "run"
        BY <1>2, <1>4 DEF NoCall
      <4>2. t # NoWait /\ enable[m] # 0 => call'[running].at = "wait"
        BY <1>2 DEF MutexPendLock
      <4> QED
        BY <4>1, <4>2
    <3> QED
      BY <2>2, <2>3, <3>1 DEF MutexPendLock
<1>5. CASE /\ enable[m] # 0 /\ t # NoWait /\ BlockAndRaise(m, t) /\ owner' = owner
           /\ call' = [call EXCEPT ![running] = [at |-> "wait", lock |-> m, timeout |-> NoWait]]
  <2> DEFINE o == owner[m]
  <2>1. /\ EnterBlockQueue(m, t)
        /\ IF o # NULL /\ prio[running] < prio[o] /\ event_status[o] = "READY"
           THEN prio' = [prio EXCEPT ![o] = prio[running]] ELSE prio' = prio
    BY <1>5 DEF BlockAndRaise
  <2>2. \A k \in Mutexes : owner[k] # running
    BY <1>1, <1>2, <1>5 DEF InheritInv, WaitersOwnNothing
  <2>3. o \in Events /\ event_status[o] = "READY" /\ o # running /\ o # NULL
    <3>1. o # NULL
      <4>1. ~(enable[m] = -1) /\ enable[m] \in -1..MaxNest
        BY <1>1, <1>2 DEF LockInv, LockTyped, OwnersOK, OwnerOK
      <4>2. enable[m] > 0
        BY <1>5, <4>1
      <4> QED
        BY <1>2, <4>2 DEF LockInv, OwnersOK, OwnerOK
    <3> QED
      BY <1>2, <1>3, <2>2, <3>1 DEF InheritInv, OwnerRuns
  <2>4. t \in {Forever} \union 1..MaxTicks
    BY <1>2, <1>5 DEF Timeouts
  <2>5. Elements(ready') = Elements(ready) \ {running} /\ sync_event' = sync_event
    BY <1>1, <1>2, <1>5, <2>4, BlockAndRaiseInv
  <2>6. /\ Elements(queue'[m]) = Elements(queue[m]) \union {running}
        /\ \A r \in Syncs \ {m} : queue'[r] = queue[r]
    BY SMTT(60), <1>1, <1>2, <2>1, <2>4, <2>5, EnterBlockOK DEF LockInv
  <2>7. \A f \in Events \ {running} : event_status'[f] = event_status[f]
    BY <1>2, <2>1 DEF EnterBlockQueue, LockInv, SchedInv, StatusOK
  <2>8. \A e \in Events : prio[e] \in Nat
    BY DEF LockInv, SchedInv, PrioOK
  <2>9. /\ prio'[o] <= prio[o] /\ prio'[o] <= prio[running]
        /\ \A e \in Events \ {o} : prio'[e] = prio[e]
    <3>1. prio \in [Events -> Nat]
      BY DEF LockInv, SchedInv, PrioOK
    <3>2. CASE prio[running] < prio[o]
      <4>1. prio' = [prio EXCEPT ![o] = prio[running]]
        BY <2>1, <2>3, <3>2
      <4> QED
        BY <1>2, <2>3, <2>8, <3>1, <3>2, <4>1
    <3>3. CASE ~(prio[running] < prio[o])
      <4>1. prio' = prio
        BY <2>1, <3>3
      <4> QED
        BY <1>2, <2>3, <2>8, <3>3, <4>1
    <3> QED
      BY <3>2, <3>3
  <2>10. OwnerRuns'
    BY <1>3, <1>5, <2>2, <2>7 DEF InheritInv, OwnerRuns
  <2>11. WaitersOwnNothing'
    BY <1>2, <1>5 DEF InheritInv, WaitersOwnNothing
  <2>12. OwnersFirst'
    <3> SUFFICES ASSUME NEW k \in Mutexes, owner[k] # NULL, NEW e \in Elements(queue'[k])
                 PROVE  prio'[owner[k]] <= prio'[e]
      BY <1>5 DEF OwnersFirst
    <3>1. k \in Syncs /\ Elements(queue[k]) \subseteq Events
      BY LockAssumption DEF LockAssumption, LockInv, SchedInv, QueuesOK, Elements
    <3>2. owner[k] \in Events /\ prio'[owner[k]] <= prio[owner[k]]
      <4>1. owner[k] \in Events
        BY <1>3
      <4>2. CASE owner[k] = o
        BY <2>9, <4>1, <4>2
      <4>3. CASE owner[k] # o
        BY <2>8, <2>9, <4>1, <4>3
      <4> QED
        BY <4>1, <4>2, <4>3
    <3>3. prio'[owner[k]] \in Nat
      BY <3>2 DEF LockInv, SchedInv, PrioOK
    <3>4. o \notin Elements(queue[k])
      BY <2>3, <3>1 DEF LockInv, SchedInv, StatusOK, Waiting
    <3>5. CASE e \in Elements(queue[k])
      <4>1. e # o /\ prio'[e] = prio[e] /\ e \in Events
        BY <2>9, <3>1, <3>4, <3>5
      <4>2. prio[owner[k]] <= prio[e]
        BY <3>5 DEF InheritInv, OwnersFirst
      <4> QED
        BY <2>8, <3>2, <3>3, <4>1, <4>2
    <3>6. CASE e \notin Elements(queue[k])
      <4>1. k = m /\ e = running
        BY <2>6, <3>1, <3>6
      <4> QED
        BY <1>2, <2>3, <2>9, <4>1
    <3> QED
      BY <3>5, <3>6
  <2> QED
    BY <2>10, <2>11, <2>12 DEF InheritInv
<1> QED
  BY <1>4, <1>5 DEF MutexPendLock

(* Lock_MutexPost: the new owner is the first of a queue sorted by priority, *)
(* and the old one, back at its own priority, owns nothing else.             *)
LEMMA InheritPost ==
  ASSUME LockInv, LockInv', InheritInv, OneMutexEach, NEW m \in Mutexes, MutexPost(m)
  PROVE  InheritInv'
<1>1. InThread /\ running # Service /\ owner[m] = running /\ call' = call
  BY DEF MutexPost, InApplication
<1>2. /\ running \in Events /\ SchedInv /\ m \in Syncs /\ m \in PrioOrder
      /\ owner \in [Mutexes -> Events \union {NULL}] /\ NULL \notin Events
      /\ \A s \in Syncs : running \notin Elements(queue[s])
  BY <1>1, RunningFacts, LockAssumption, SchedAssumption
     DEF LockInv, LockTyped, LockAssumption, SchedAssumption
<1>3. CASE StillNested(m)
  <2>1. StayScheduled /\ owner' = owner
    BY <1>3 DEF MutexPost
  <2> QED
    BY <1>1, <2>1, InheritStay
<1>4. CASE ~StillNested(m) /\ queue[m] = << >>
  <2>1. owner' = [owner EXCEPT ![m] = NULL] /\ StayScheduled
    BY <1>4 DEF MutexPost, MutexRelease
  <2>2. UNCHANGED <<prio, event_status, queue>>
    BY <2>1 DEF StayScheduled, schedVars
  <2>3. owner'[m] = NULL /\ \A k \in Mutexes \ {m} : owner'[k] = owner[k]
    BY <1>2, <2>1
  <2>4. OwnerRuns' /\ OwnersFirst'
    BY <2>2, <2>3 DEF InheritInv, OwnerRuns, OwnersFirst
  <2>5. WaitersOwnNothing'
    BY <1>1, <1>2, <2>3 DEF InheritInv, WaitersOwnNothing
  <2> QED
    BY <2>4, <2>5 DEF InheritInv
<1>5. CASE ~StillNested(m) /\ queue[m] # << >>
  <2> DEFINE e == Head(queue[m])
  <2>1. MutexHandOver(m)
    BY <1>5 DEF MutexPost
  <2>2. /\ owner' = [owner EXCEPT ![m] = e] /\ LeaveBlockQueue(m) /\ sync_event' = sync_event
        /\ prio' = [prio EXCEPT ![running] = prio_base[running]]
        /\ event_status' = [event_status EXCEPT ![e] = "READY"]
    BY <2>1 DEF MutexHandOver, LeaveBlockQueue
  <2>3. /\ e \in Events \ {Service} /\ e \in Elements(queue[m]) /\ event_status[e] \in Waiting
        /\ queue[m] \in Seq(Events) /\ SortedBy(queue[m], prio)
    BY <1>2, <1>5, HeadWaits DEF SchedInv, QueuesOK
  <2>4. Elements(ready') = Elements(ready) \union {e}
    BY <1>1, <1>5, <2>1, HandOverSched
  <2>5. /\ Elements(queue'[m]) = Elements(queue[m]) \ {e}
        /\ \A r \in Syncs \ {m} : queue'[r] = queue[r]
    BY <1>2, <1>5, <2>2, <2>4, LeaveBlockOK
  <2>6. \A f \in Elements(queue[m]) : prio[e] <= prio[f]
    <3>1. 1 \in 1..Len(queue[m]) /\ e = queue[m][1]
      BY <1>5, <2>3
    <3>2. prio[e] \in Nat
      BY <2>3 DEF LockInv, SchedInv, PrioOK
    <3> QED
      BY SMTT(60), <3>1, <3>2, <2>3 DEF SortedBy, Elements
  <2> HIDE DEF e
  <2>7. owner'[m] = e /\ \A k \in Mutexes \ {m} : owner'[k] = owner[k]
    BY <1>2, <2>2
  <2>8. \A f \in Events \ {running} : prio'[f] = prio[f]
    BY <2>2 DEF LockInv, SchedInv, PrioOK
  <2>9. /\ event_status'[e] = "READY"
        /\ \A f \in Events \ {e} : event_status'[f] = event_status[f]
    BY <2>2, <2>3 DEF LockInv, SchedInv, StatusOK
  <2>10. \A k \in Mutexes \ {m} : owner[k] # running
    BY <1>1, <1>2 DEF OneMutexEach
  <2>11. OwnerRuns'
    BY <1>2, <2>7, <2>9 DEF InheritInv, OwnerRuns
  <2>12. WaitersOwnNothing'
    <3>1. call[e].at = "wait"
      BY <1>2, <2>3 DEF LockInv, CallsOK
    <3> QED
      BY <1>1, <2>7, <3>1 DEF InheritInv, WaitersOwnNothing
  <2>13. OwnersFirst'
    <3> SUFFICES ASSUME NEW k \in Mutexes, owner'[k] # NULL, NEW f \in Elements(queue'[k])
                 PROVE  prio'[owner'[k]] <= prio'[f]
      BY DEF OwnersFirst
    <3>1. k \in Syncs /\ f \in Elements(queue[k]) /\ Elements(queue[k]) \subseteq Events
      <4>1. k \in Syncs
        BY LockAssumption DEF LockAssumption
      <4>2. Elements(queue[k]) \subseteq Events
        BY <4>1 DEF LockInv, SchedInv, QueuesOK, Elements
      <4>3. f \in Elements(queue[k])
        BY <2>5, <4>1
      <4> QED
        BY <4>1, <4>2, <4>3
    <3>2. f \in Events /\ f # running /\ prio'[f] = prio[f]
      BY <1>2, <2>8, <3>1
    <3>3. CASE k = m
      <4>1. e # running /\ prio'[e] = prio[e]
        BY <1>2, <2>3, <2>8
      <4> QED
        BY <2>6, <2>7, <3>1, <3>2, <3>3, <4>1
    <3>4. CASE k # m
      <4>1. owner'[k] = owner[k] /\ owner[k] # running /\ owner[k] \in Events
        BY <1>2, <2>7, <2>10, <3>4
      <4>2. prio[owner[k]] <= prio[f]
        BY <3>1, <4>1, <1>2 DEF InheritInv, OwnersFirst
      <4> QED
        BY <2>8, <3>2, <4>1, <4>2
    <3> QED
      BY <3>3, <3>4
  <2> QED
    BY <2>11, <2>12, <2>13 DEF InheritInv
<1> QED
  BY <1>3, <1>4, <1>5

(* The other steps. *)
LEMMA InheritRest ==
  ASSUME LockInv, InheritInv, ~HoldAndBlock,
         \/ PendReturn \/ IsrReturn \/ LockTick \/ LockTickEnd \/ UNCHANGED vars \/ LockTickWake
         \/ \E m \in Mutexes : IsrMutexPend(m) \/ IsrMutexPost(m)
         \/ \E t \in 1..MaxTicks : LockDelay(t)
  PROVE  InheritInv'
<1>1. running \in Events /\ call \in [Events -> Calls]
  BY RunningFacts DEF LockInv, LockTyped
<1>2. CASE PendReturn
  <2>1. StayScheduled /\ owner' = owner /\ call' = [call EXCEPT ![running] = NoCall]
    BY <1>2 DEF PendReturn
  <2>2. \A e \in Events : call'[e] = call[e] \/ call'[e].at # "mutex_pend"
    BY <1>1, <2>1 DEF NoCall
  <2> QED
    BY <2>1, <2>2, InheritStay
<1>3. CASE IsrReturn \/ UNCHANGED vars \/ \E m \in Mutexes : IsrMutexPend(m) \/ IsrMutexPost(m)
  <2>1. StayScheduled /\ UNCHANGED <<owner, call>>
    BY <1>3 DEF IsrReturn, vars, IsrMutexPend, IsrMutexPost, StayScheduled, lockVars
  <2> QED
    BY <2>1, InheritStay
<1>4. CASE LockTick \/ LockTickEnd
  <2>1. UNCHANGED <<owner, call, prio, event_status, queue>>
    BY <1>4 DEF LockTick, LockTickEnd, TickBegin, TickEnd, lockVars
  <2> QED
    BY <2>1, InheritSame DEF InheritInv, OwnerRuns
<1>5. CASE LockTickWake
  <2> DEFINE e == Head(delay)
             n == [s \in Syncs |-> IF e \in Elements(queue[s]) THEN CutFrom(queue[s], e) ELSE queue[s]]
  <2>1. /\ delay # << >> /\ queue' = n /\ event_status' = [event_status EXCEPT ![e] = "READY"]
        /\ UNCHANGED <<owner, call, prio>>
    BY <1>5 DEF LockTickWake, TickWake, AlarmDue
  <2>2. e \in Events
    BY <2>1 DEF LockInv, SchedInv, DelayOK
  <2> HIDE DEF e, n
  <2>3. QueuesOK(queue, prio)
    BY DEF LockInv, SchedInv
  <2>4. n = [s \in Syncs |-> IF e \in Elements(queue[s]) THEN CutFrom(queue[s], e) ELSE queue[s]]
    BY DEF n
  <2>5. \A s \in Syncs : Elements(n[s]) = Elements(queue[s]) \ {e}
    BY ONLY <2>3, <2>4, QueueCut
  <2>6. \A m \in Mutexes : Elements(queue'[m]) \subseteq Elements(queue[m])
    BY <2>1, <2>5, LockAssumption DEF LockAssumption
  <2> QED
    BY ONLY LockInv, InheritInv, <2>1, <2>2, <2>6, InheritOther
<1>6. ASSUME NEW t \in 1..MaxTicks, LockDelay(t) PROVE InheritInv'
  <2>1. /\ MayWait(t) /\ UNCHANGED <<owner, call, prio, queue>>
        /\ event_status' = [event_status EXCEPT ![running] = "DELAY"]
    BY <1>6 DEF LockDelay, Delay, lockVars
  <2>2. \A m \in Mutexes : owner[m] # running
    BY <2>1, SchedAssumption DEF MayWait, NoWait, SchedAssumption
  <2> QED
    BY <1>1, <2>1, <2>2, InheritOther
<1> QED
  BY <1>2, <1>3, <1>4, <1>5, <1>6

(* Every step keeps the inheritance. *)
LEMMA InheritStep ==
  ASSUME ~HoldAndBlock, ~IsrHolds, LockInv, LockInv', InheritInv, OneMutexEach, [LockNext]_vars
  PROVE  InheritInv'
<1>1. CASE \E s \in Semps : SempPost(s) \/ \E t \in Timeouts : SempPend(s, t)
  BY <1>1, InheritSemp
<1>2. CASE \E m \in Mutexes, t \in Timeouts : MutexPendCall(m, t)
  BY <1>2, InheritPendCall
<1>3. CASE MutexPendLock
  BY <1>3, InheritPendLock
<1>4. CASE \E m \in Mutexes : MutexPost(m)
  BY <1>4, InheritPost
<1>5. CASE \/ PendReturn \/ IsrReturn \/ LockTick \/ LockTickEnd \/ UNCHANGED vars \/ LockTickWake
           \/ \E m \in Mutexes : IsrMutexPend(m) \/ IsrMutexPost(m)
           \/ \E t \in 1..MaxTicks : LockDelay(t)
  BY <1>5, InheritRest
<1> QED
  BY <1>1, <1>2, <1>3, <1>4, <1>5 DEF LockNext

(* Priority inheritance is complete for threads that hold one mutex at a     *)
(* time and do not wait while they hold it: no waiter for a mutex is ever    *)
(* above its owner, although Djy_RaiseTempPrio acts on ready events only,    *)
(* and although Djy_RestorePrio forgets every raise at the first hand-over.  *)
THEOREM OwnersInherit ==
  ASSUME ~HoldAndBlock, ~IsrHolds
  PROVE  LockSpec /\ []OneMutexEach => []OwnerInheritsPriority
<1>1. LockInit => InheritInv
  <2> SUFFICES ASSUME LockInit PROVE InheritInv
    OBVIOUS
  <2>1. /\ \A m \in Mutexes : owner[m] = NULL
        /\ \A e \in Events : call[e].at = "run"
    BY DEF LockInit, MutexesCreated, NoCall
  <2> QED
    BY <2>1 DEF InheritInv, OwnerRuns, WaitersOwnNothing, OwnersFirst
<1>2. LockInv /\ LockInv' /\ InheritInv /\ OneMutexEach /\ [LockNext]_vars => InheritInv'
  BY InheritStep
<1>3. InheritInv => OwnerInheritsPriority
  BY DEF InheritInv, OwnersFirst, OwnerInheritsPriority, Elements
<1> QED
  BY <1>1, <1>2, <1>3, LockInvariance, PTL DEF LockSpec
================================================================================
