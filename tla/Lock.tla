---------------------------------- MODULE Lock ---------------------------------
(***************************************************************************)
(* Semaphores and mutexes (lock.c) on top of the scheduler of EventSched:  *)
(* blocking with timeouts, direct hand-over by the poster, priority        *)
(* inheritance by the owner of a mutex, and what interrupt service         *)
(* routines may do with them.  The block queue of lock x is queue[x]       *)
(* (semp_sync, mutex_sync).                                                *)
(*                                                                         *)
(* Only the running event executes, one critical section per step; it can  *)
(* be preempted between two of its steps by whatever an interrupt readied. *)
(***************************************************************************)
EXTENDS EventSched, Integers

CONSTANTS
  Semps, Mutexes,   \* the locks
  LampsLimit,       \* lamps_limit of every semaphore (none is unlimited)
  MaxNest,          \* bound: nested pends of one mutex by its owner
  HoldAndBlock,     \* whether a thread may wait while it holds a mutex
  IsrHolds          \* whether an ISR may return while it holds a mutex

ASSUME LockAssumption ==
  /\ Syncs = Semps \union Mutexes
  /\ Semps \intersect Mutexes = {}
  /\ Mutexes \subseteq PrioOrder    \* mutexes always queue by priority
  /\ LampsLimit \in Nat \ {0}
  /\ MaxNest \in Nat \ {0}
  /\ HoldAndBlock \in BOOLEAN /\ IsrHolds \in BOOLEAN

VARIABLES
  lamp_counter,  \* of every semaphore
  enable,        \* of every mutex: 0 free, -1 held by an ISR, n held n times
  owner,
  wakeup_from,   \* why the event became ready last
  call,          \* the pend each event is inside of
  irq,           \* TRUE inside an interrupt service routine that uses mutexes
  got,           \* ghost: the lamp or mutex handed to a waiter by a post
  holds,         \* ghost: how often an event holds a mutex, by the results it got
  null_owner     \* ghost: a NULL owner has been dereferenced

lockVars == <<lamp_counter, enable, owner, wakeup_from, call, irq, got, holds, null_owner>>
vars == <<schedVars, lockVars>>

(* timeout = 0, and also scheduling disabled when pend is called: no waiting *)
NoWait == MaxTicks + 1
Timeouts == {Forever, NoWait} \union 1..MaxTicks

NoCall == [at |-> "run", lock |-> NULL, timeout |-> NoWait]
Calls == {NoCall} \union
         [at : {"mutex_pend"}, lock : Mutexes, timeout : Timeouts] \union
         [at : {"wait"}, lock : Syncs, timeout : {NoWait}]

LockTypeOK ==
  /\ TypeOK
  /\ lamp_counter \in [Semps -> 0..LampsLimit]
  /\ enable \in [Mutexes -> -1..MaxNest]
  /\ owner \in [Mutexes -> Events \union {NULL}]
  /\ wakeup_from \in [Events -> {"NONE", "LOCK", "TIMEOUT", "DELAY"}]
  /\ call \in [Events -> Calls]
  /\ irq \in BOOLEAN
  /\ got \in [Events -> BOOLEAN]
  /\ holds \in [Mutexes -> [Events -> 0..MaxNest]]
  /\ null_owner \in BOOLEAN

(* Lock_SempCreate: the caller chooses how many lamps are lit. *)
SempsCreated == lamp_counter \in [Semps -> 0..LampsLimit]

(* Lock_MutexCreate: free. *)
MutexesCreated ==
  /\ enable = [m \in Mutexes |-> 0]
  /\ owner = [m \in Mutexes |-> NULL]

LockInit ==
  /\ Init
  /\ SempsCreated /\ MutexesCreated
  /\ wakeup_from = [e \in Events |-> "NONE"]
  /\ call = [e \in Events |-> NoCall]
  /\ irq = FALSE
  /\ got = [e \in Events |-> FALSE]
  /\ holds = [m \in Mutexes |-> [e \in Events |-> 0]]
  /\ null_owner = FALSE

(* The running event executes application code, outside any pend. *)
InApplication == InThread /\ ~irq /\ call[running].at = "run" /\ running # Service

(* What the application under study is allowed to do. *)
MayWait(t) == t = NoWait \/ HoldAndBlock \/ \A m \in Mutexes : owner[m] # running

StayScheduled == UNCHANGED schedVars
--------------------------------------------------------------------------------
(* Lock_SempPend *)
SempPend(s, t) ==
  /\ InApplication /\ MayWait(t)
  /\ IF lamp_counter[s] > 0
     THEN /\ lamp_counter' = [lamp_counter EXCEPT ![s] = @ - 1]
          /\ StayScheduled
          /\ UNCHANGED call
     ELSE IF t = NoWait
     THEN StayScheduled /\ UNCHANGED <<lamp_counter, call>>
     ELSE /\ Block(s, t)
          /\ call' = [call EXCEPT ![running] = [at |-> "wait", lock |-> s, timeout |-> NoWait]]
          /\ UNCHANGED lamp_counter
  /\ UNCHANGED <<enable, owner, wakeup_from, irq, got, holds, null_owner>>

(* Mutant: the counter does not saturate. *)
SempPostUnlimited(s) ==
  /\ ~isr /\ ~irq
  /\ IF queue[s] = << >>
     THEN /\ lamp_counter' = [lamp_counter EXCEPT ![s] = @ + 1]
          /\ StayScheduled
          /\ UNCHANGED <<wakeup_from, got>>
     ELSE /\ Wake(s)
          /\ wakeup_from' = [wakeup_from EXCEPT ![Head(queue[s])] = "LOCK"]
          /\ got' = [got EXCEPT ![Head(queue[s])] = TRUE]
          /\ UNCHANGED lamp_counter
  /\ UNCHANGED <<enable, owner, call, irq, holds, null_owner>>

(* Mutant: a lamp is lit although a waiter gets it. *)
SempPostTwice(s) ==
  /\ ~isr /\ ~irq
  /\ lamp_counter' = [lamp_counter EXCEPT ![s] = IF @ < LampsLimit THEN @ + 1 ELSE @]
  /\ IF queue[s] = << >>
     THEN StayScheduled /\ UNCHANGED <<wakeup_from, got>>
     ELSE /\ Wake(s)
          /\ wakeup_from' = [wakeup_from EXCEPT ![Head(queue[s])] = "LOCK"]
          /\ got' = [got EXCEPT ![Head(queue[s])] = TRUE]
  /\ UNCHANGED <<enable, owner, call, irq, holds, null_owner>>

(* Mutant: wakeup_from keeps the reason of an earlier wake-up. *)
SempPostStaleReason(s) ==
  /\ ~isr /\ ~irq
  /\ IF queue[s] = << >>
     THEN /\ lamp_counter' = [lamp_counter EXCEPT ![s] = IF @ < LampsLimit THEN @ + 1 ELSE @]
          /\ StayScheduled
          /\ UNCHANGED got
     ELSE /\ Wake(s)
          /\ got' = [got EXCEPT ![Head(queue[s])] = TRUE]
          /\ UNCHANGED lamp_counter
  /\ UNCHANGED <<enable, owner, wakeup_from, call, irq, holds, null_owner>>

(* Lock_SempPost, by a thread or by an ISR: the lamp goes to the first      *)
(* waiter, and only without a waiter to the counter, which saturates.       *)
SempPost(s) ==
  /\ ~isr /\ ~irq
  /\ IF queue[s] = << >>
     THEN /\ lamp_counter' = [lamp_counter EXCEPT ![s] = IF @ < LampsLimit THEN @ + 1 ELSE @]
          /\ StayScheduled
          /\ UNCHANGED <<wakeup_from, got>>
     ELSE /\ Wake(s)
          /\ wakeup_from' = [wakeup_from EXCEPT ![Head(queue[s])] = "LOCK"]
          /\ got' = [got EXCEPT ![Head(queue[s])] = TRUE]
          /\ UNCHANGED lamp_counter
  /\ UNCHANGED <<enable, owner, call, irq, holds, null_owner>>
--------------------------------------------------------------------------------
(* Lock_MutexPend up to its critical section, by a thread: the tests of     *)
(* enable and owner are made with interrupts open.                          *)
MutexPendCall(m, t) ==
  /\ InApplication /\ MayWait(t)
  /\ enable[m] # -1                    \* else it returns false at once
  /\ IF owner[m] = running
     THEN /\ enable[m] < MaxNest       \* bound
          /\ enable' = [enable EXCEPT ![m] = @ + 1]
          /\ holds' = [holds EXCEPT ![m][running] = @ + 1]
          /\ UNCHANGED call
     ELSE /\ call' = [call EXCEPT ![running] = [at |-> "mutex_pend", lock |-> m, timeout |-> t]]
          /\ UNCHANGED <<enable, holds>>
  /\ StayScheduled
  /\ UNCHANGED <<lamp_counter, owner, wakeup_from, irq, got, null_owner>>

(* Mutant: the owner does not inherit. *)
BlockWithoutRaise(m, t) ==
  /\ EnterBlockQueue(m, t)
  /\ ready' = CutFrom(ready, running)
  /\ Dispatch
  /\ UNCHANGED <<sync_event, prio, prio_base, phase, isr>>

(* __Djy_AddRunningToBlock, then Djy_RaiseTempPrio(owner) by the event that *)
(* has just left the ready queue.                                           *)
BlockAndRaise(m, t) ==
  LET o == owner[m]
      others == CutFrom(ready, running)
  IN  /\ EnterBlockQueue(m, t)
      /\ IF o # NULL /\ prio[running] < prio[o] /\ event_status[o] = "READY"
         THEN /\ prio' = [prio EXCEPT ![o] = prio[running]]
              /\ ready' = InsertSorted(CutFrom(others, o), prio', o)
         ELSE UNCHANGED prio /\ ready' = others
      /\ Dispatch
      /\ UNCHANGED <<sync_event, prio_base, phase, isr>>

(* The critical section of Lock_MutexPend. *)
MutexPendLock ==
  LET m == call[running].lock
      t == call[running].timeout
  IN  /\ InThread /\ ~irq /\ call[running].at = "mutex_pend"
      /\ IF enable[m] = 0
         THEN /\ enable' = [enable EXCEPT ![m] = 1]
              /\ owner' = [owner EXCEPT ![m] = running]
              /\ holds' = [holds EXCEPT ![m][running] = 1]
              /\ call' = [call EXCEPT ![running] = NoCall]
              /\ StayScheduled /\ UNCHANGED null_owner
         ELSE IF t = NoWait
         THEN /\ call' = [call EXCEPT ![running] = NoCall]
              /\ StayScheduled /\ UNCHANGED <<enable, owner, holds, null_owner>>
         ELSE /\ BlockAndRaise(m, t)
              /\ null_owner' = (null_owner \/ owner[m] = NULL)
              /\ call' = [call EXCEPT ![running] = [at |-> "wait", lock |-> m, timeout |-> NoWait]]
              /\ UNCHANGED <<enable, owner, holds>>
      /\ UNCHANGED <<lamp_counter, wakeup_from, irq, got>>

(* Mutant: the second of two nested pends is not counted. *)
StillNestedOffByOne(m) == enable[m] > 2

(* Lock_MutexPost only undoes a nested pend. *)
StillNested(m) == enable[m] > 1

(* Mutant: the mutex loses its owner but not its count. *)
MutexReleaseKeepsCount(m) ==
  /\ owner' = [owner EXCEPT ![m] = NULL]
  /\ StayScheduled /\ UNCHANGED <<enable, wakeup_from, got>>

(* Nobody waits for the mutex: it becomes free. *)
MutexRelease(m) ==
  /\ enable' = [enable EXCEPT ![m] = 0]
  /\ owner' = [owner EXCEPT ![m] = NULL]
  /\ StayScheduled /\ UNCHANGED <<wakeup_from, got>>

(* The first waiter becomes the owner.  Djy_RestorePrio puts the running    *)
(* event back to its own priority, then the new owner becomes ready.        *)
MutexHandOver(m) ==
  LET e == Head(queue[m])
  IN  /\ enable' = [enable EXCEPT ![m] = 1]
      /\ owner' = [owner EXCEPT ![m] = e]
      /\ wakeup_from' = [wakeup_from EXCEPT ![e] = "LOCK"]
      /\ got' = [got EXCEPT ![e] = TRUE]
      /\ LeaveBlockQueue(m)
      /\ prio' = [prio EXCEPT ![running] = prio_base[running]]
      /\ LET back == IF prio[running] = prio_base[running] THEN ready
                     ELSE InsertSorted(CutFrom(ready, running), prio', running)
         IN  ready' = InsertSorted(back, prio', e)
      /\ Dispatch
      /\ UNCHANGED <<sync_event, prio_base, phase, isr>>

(* Lock_MutexPost by the owner. *)
MutexPost(m) ==
  /\ InApplication /\ owner[m] = running
  /\ holds' = [holds EXCEPT ![m][running] = @ - 1]
  /\ IF StillNested(m)
     THEN /\ enable' = [enable EXCEPT ![m] = @ - 1]
          /\ StayScheduled /\ UNCHANGED <<owner, wakeup_from, got>>
     ELSE IF queue[m] = << >> THEN MutexRelease(m) ELSE MutexHandOver(m)
  /\ UNCHANGED <<lamp_counter, call, irq, null_owner>>

(* The tail of both pends, run by the waiter when it runs again: whether    *)
(* the lock was obtained is read from wakeup_from.                          *)
PendReturn ==
  LET x == call[running].lock
  IN  /\ InThread /\ ~irq /\ call[running].at = "wait"
      /\ call' = [call EXCEPT ![running] = NoCall]
      /\ holds' = IF x \in Mutexes /\ wakeup_from[running] # "TIMEOUT"
                  THEN [holds EXCEPT ![x][running] = 1] ELSE holds
      /\ got' = [got EXCEPT ![running] = FALSE]
      /\ StayScheduled
      /\ UNCHANGED <<lamp_counter, enable, owner, wakeup_from, irq, null_owner>>
--------------------------------------------------------------------------------
(* Lock_MutexPend and Lock_MutexPost called with Int_GetRunLevel() > 0.     *)
IsrMutexPend(m) ==
  /\ ~isr /\ ~irq
  /\ irq' = TRUE
  /\ enable' = [enable EXCEPT ![m] = IF @ = 0 THEN -1 ELSE @]
  /\ StayScheduled
  /\ UNCHANGED <<lamp_counter, owner, wakeup_from, call, got, holds, null_owner>>

IsrMutexPost(m) ==
  /\ ~isr /\ (irq \/ IsrHolds) /\ enable[m] = -1
  /\ enable' = [enable EXCEPT ![m] = 0]
  /\ StayScheduled
  /\ UNCHANGED <<lamp_counter, owner, wakeup_from, call, irq, got, holds, null_owner>>

IsrReturn ==
  /\ irq
  /\ IsrHolds \/ \A m \in Mutexes : enable[m] # -1
  /\ irq' = FALSE
  /\ StayScheduled
  /\ UNCHANGED <<lamp_counter, enable, owner, wakeup_from, call, got, holds, null_owner>>
--------------------------------------------------------------------------------
(* Djy_EventDelay by a thread. *)
LockDelay(t) ==
  /\ InApplication /\ MayWait(t)
  /\ Delay(t)
  /\ UNCHANGED lockVars

(* Djy_IsrTick: the alarm records the status it interrupts in wakeup_from. *)
LockTickWake ==
  /\ TickWake
  /\ wakeup_from' = [wakeup_from EXCEPT
       ![Head(delay)] = IF event_status[Head(delay)] = "DELAY" THEN "DELAY" ELSE "TIMEOUT"]
  /\ UNCHANGED <<lamp_counter, enable, owner, call, irq, got, holds, null_owner>>

LockTick == ~irq /\ TickBegin /\ UNCHANGED lockVars

LockTickEnd == TickEnd /\ UNCHANGED lockVars

LockNext ==
  \/ \E s \in Semps, t \in Timeouts : SempPend(s, t)
  \/ \E s \in Semps : SempPost(s)
  \/ \E m \in Mutexes, t \in Timeouts : MutexPendCall(m, t)
  \/ MutexPendLock
  \/ \E m \in Mutexes : MutexPost(m)
  \/ PendReturn
  \/ \E m \in Mutexes : IsrMutexPend(m)
  \/ \E m \in Mutexes : IsrMutexPost(m)
  \/ IsrReturn
  \/ \E t \in 1..MaxTicks : LockDelay(t)
  \/ LockTick \/ LockTickWake \/ LockTickEnd

LockSpec == LockInit /\ [][LockNext]_vars
--------------------------------------------------------------------------------
(***************************************************************************)
(* No lamp and no mutex is lost in the race between a post, a timeout and   *)
(* a pend: nobody waits for a semaphore with a lit lamp, and whoever waits  *)
(* for a mutex waits for an event that owns it.                             *)
(***************************************************************************)
NobodyWaitsForAFreeLock ==
  /\ \A s \in Semps : queue[s] # << >> => lamp_counter[s] = 0
  /\ \A m \in Mutexes : queue[m] # << >> => enable[m] > 0 /\ owner[m] # NULL

(***************************************************************************)
(* Mutual exclusion, by the results the pends returned: whoever believes    *)
(* to hold a mutex is its owner, as many times as enable says, and an ISR   *)
(* holds it only when no thread does.                                       *)
(***************************************************************************)
MutualExclusion ==
  \A m \in Mutexes :
    /\ \A e \in Events : holds[m][e] > 0 => owner[m] = e /\ enable[m] = holds[m][e]
    /\ owner[m] # NULL <=> enable[m] > 0

(***************************************************************************)
(* A pend that waited tells the truth: it returns false exactly when the    *)
(* alarm came before the post.  A lamp or mutex handed over is never        *)
(* reported as a timeout (it would be lost), a timeout never as a lamp.     *)
(***************************************************************************)
PendTellsTheTruth ==
  \A e \in Events :
    call[e].at = "wait" /\ event_status[e] = "READY"
      => /\ got[e] <=> wakeup_from[e] # "TIMEOUT"
         /\ call[e].lock \in Mutexes => (got[e] <=> owner[call[e].lock] = e)

(***************************************************************************)
(* Priority inheritance: no waiter for a mutex has a higher priority than   *)
(* the event that owns it.                                                  *)
(***************************************************************************)
OwnerInheritsPriority ==
  \A m \in Mutexes : \A i \in 1..Len(queue[m]) :
    owner[m] # NULL => prio[owner[m]] <= prio[queue[m][i]]

(***************************************************************************)
(* Inheritance is temporary: an event that owns no mutex has its own        *)
(* priority.                                                                *)
(***************************************************************************)
PriorityIsReturned ==
  \A e \in Events : (\A m \in Mutexes : owner[m] # e) => prio[e] = prio_base[e]

(***************************************************************************)
(* Lock_MutexPend never looks for the owner of a mutex that has none.       *)
(***************************************************************************)
OwnerIsKnown == ~null_owner
================================================================================
