# A TLA+ development of the DJYOS kernel

DJYOS is a real-time operating system for microcontrollers. An application does
not create threads; it *pops events*, and the kernel gives each event a thread
(a `vm`) and runs the ready event of the highest priority. This directory models
the part of the kernel on which everything else rests: the event lists and the
scheduler, event types and the threads that serve them, the semaphores and
mutexes, the message queues and the fixed-block memory pools; and two clients in
which threads and interrupts or threads and time meet: serial ports with their
ring buffers, and software timers. All paths below are relative to `src/djysdk/djysrc/`.

## 1. Inventory

| Part | Source | State | Operations |
|---|---|---|---|
| Event scheduler | `djyos/core/djyos.c`, `djyos/int/int.c`, the interrupt engine `int_hard.c` of the core | ready queue `g_ptEventReady`, ring of the first event of each priority, alarm queue `g_ptEventDelay`, `g_ptEventRunning`, priority and status of each event, tick counter | ready, cut, delay, block, change priority, tick, wait for an interrupt line, switch |
| Semaphores, mutexes | `djyos/lock/lock.c` | lamp counter, block queue; nesting count, owner, block queue | pend with timeout, post, create, delete; mutexes also from ISRs |
| Message queues | `djyos/msgqueue/msgqueue.c` | circular buffer, number of messages, read position, two semaphores | send (normal, urgent), receive, create, delete |
| Memory pools | `djyos/pool/pool.c` | free list, unused part of the newest region, chain of regions, semaphore | allocate (may grow), free, create, delete |
| Event types, event synchronisation | `djyos/core/djyos.c` | type table, events and threads per type, queues of events that wait for a pop or a completion | register, unregister, pop, complete, exit, wait |
| Interrupt nesting | `djyos/int/int.c`, `djyos/int/atomic.c` | nesting counters, whether switching is allowed | save, restore, low-level atomic sections |
| Heap, object tree | `djyos/heap`, `djyos/object` | pages and ladders; tree of named resources | allocate, free; add, delete, search |
| Ring buffers, serial ports | `component/buffer/ring.c`, `component/driver/uart/uart.c`, the interrupt service routine in `bsp/cpudrv/stm32f7/src/cpu_peri_uart.c` | bytes, two positions and `len`; trigger levels, three semaphores, status bits, whether the transmit interrupt is enabled | write and read by threads, `UART_PortWrite` and `UART_PortRead` by interrupts |
| Software timers | `component/timer/timer.c` | queue of timers by deadline, message queue of requests, the timer thread | create, delete, start, pause, set period, set reload |
| Multiplex, watchdogs, line buffers, pipes | `component/` | selection sets, lists | select, feed; the pipes are compiled out |
| Drivers, buses, file systems, TCP/IP, GUI, USB, shell | `component/` | device and protocol state | not kernel logic, not modelled |

**How the parts interact.** Every part calls the scheduler through the same two
list operations: *enter a block queue* (`__Djy_AddRunningToBlock`, which cuts
the running event from the ready queue and also enters the alarm queue when
there is a timeout) and *become ready* (`__Djy_EventReady`). Interrupts call in
through `Djy_IsrTick` and `__Int_EngineAsynSignal`. `Int_SaveAsynSignal` ..
`Int_RestoreAsynSignal` bracket a critical section on the only processor; the
outermost restore switches to the head of the ready queue. Message queues and
pools are clients of the semaphores, semaphores are clients of the scheduler.
A serial port has a thread on one side of each ring buffer and an interrupt on
the other; the timer thread is driven by a message queue and by its own timeouts;
an event that gets no thread waits in a queue that the heap serves.

**What is hard.** A timeout racing a post for the same event; four kinds of list
threaded through two pairs of pointers; preemption between a successful pend and
the use of what it promised; priority inheritance combined with timeouts and
blocking; interrupts between an unlocked test and the critical section.
`PROJECT.json` lists the hazards line by line, each with the properties that
would catch it, or with the reason why none does yet.

**What makes the parts correct.**
* Scheduler: an event is in exactly the queues its status says; the running event
  is the first of the highest priority; no alarm is missed; equal priorities take
  turns.
* Locks: nobody waits for a free lock, a mutex has one owner, the result of a pend
  agrees with what happened, inheritance is in force while it is needed and only
  then.
* Message queues: every place is accounted for, nothing is overwritten or read
  twice, nobody sleeps beside a message.
* Event types: the counters that decide whether a thread is kept or destroyed are
  right, whoever waits is in the one queue that will wake it.
* Serial ports: bytes come out as they went in, nobody sleeps for a level that has
  been passed, a blocking write returns when its bytes are gone.
* Timers: the queue is ordered, a timer is late by less than a tick more than its
  thread was busy, removal happens.
* Pools: a lamp stands for a block, no block is handed out twice.

## 2. Modules

| Module | Models | Role |
|---|---|---|
| `EventQueues` | sorted insertion, cutting | pure operators on queues as sequences |
| `EventSched` | the scheduler, queues as sequences | abstract specification of the scheduler, extended by `Lock` |
| `EcbLists` | the same actions, with `next`, `previous`, `multi_next`, `multi_previous` and the list heads | detailed specification; `ImplementsSched` is `EventSched!Spec` under the mapping that unrolls each circular list |
| `Lock` | `lock.c` composed with `EventSched` | semaphores, mutexes, ISRs |
| `MsgDeque` | what a message queue promises | abstract specification |
| `MsgQueue` | `msgqueue.c` | detailed specification; `ImplementsDeque` maps the occupied part of the buffer to the abstract queue |
| `MemPool` | `pool.c` | allocator |
| `EventTypes` | event types, pops, waits, completion, threads, the heap's queue of events | the life of events and of the threads that serve them |
| `RingBuf` | `ring.c` | operators and state of a ring buffer, for its clients |
| `UartTx`, `UartRx` | the sending and the receiving half of `uart.c` | a thread against an interrupt through a ring buffer |
| `ByteFifo` | what a ring buffer promises | abstract specification |
| `Uart` | both halves | composition; `ImplementsFifo` maps the occupied part of the ring to the abstract queue |
| `Timer` | `timer.c`, without a hardware timer | applications, the timer thread and time |
| `MC*` | | constants of the runs |
| `EventSchedProofs`, `EcbListsProofs`, `LockProofs`, `MsgQueueProofs`, `MemPoolProofs`, `EventTypesProofs`, `UartProofs`, `TimerProofs` | | theorems, see section 4 |

**Correspondence.** A step of `EventSched`, `EcbLists` and `Lock` is one critical
section together with the switch that ends it. `Djy_IsrTick` is split into
`TickBegin` (clock), `TickWake` (one iteration of the alarm loop) and `TickEnd`
(rotation and switch); `isr` keeps threads out in between, as the interrupt does.
Times are kept relative to the clock: `remain[e]` is
`delay_end_tick - g_s64OsTicks` and `phase` is `g_s64OsTicks % s_u32RRS_Slice`,
which makes the state space finite without a bound on the clock. The ticks
increase by one per interrupt. Delays in microseconds appear as ticks.

`EcbLists` keeps the assignments of the source: `CutReadyEvent`, `EventReady`,
`AddToDelay`, `ResumeDelay`, `AddToBlock`, `TakeBlockHead`, `CutTimedOut`,
`PopDelayHead` and `RotateRunning` are the list surgery of the functions named in
their comments, with a NULL pointer where the code stores NULL and stale pointers
where it does not. `AsynSignalSync` leaves out the early return when the
interrupt has already happened (no state of the model changes).

In `Lock` a pend is up to three steps: the tests that `Lock_MutexPend` makes with
interrupts open (`MutexPendCall`), the critical section (`MutexPendLock`,
`SempPend`), and the tail that reads `wakeup_from` (`PendReturn`). The ghosts
`got` and `holds` record what was handed over and what callers were told;
`null_owner` records that `mutex->owner` was dereferenced while NULL. A
semaphore has a finite `lamps_limit`; the unlimited kind has no waiters.

In `MsgQueue` and `MemPool` the scheduler is abstracted to "any thread that is
not blocked may step", and a post may choose any waiter. This covers every
assignment of priorities and both queueing orders; `Lock` is where the semaphore
itself is checked.

In `EventTypes` every function is one critical section and so one step. The
functions are composed of pieces that map a state to the next (`PopSync`,
`NewEvent`, `DoneSync`, `Retired`, `Selected`, `Kept`, `Destroyed`, `GiveBack`),
in the order of the code: `Djy_EventComplete` selects the next event, and perhaps
creates its thread, *before* it disposes of its own. Priorities are left out:
any ready event may be the head of the ready queue. An event is in one `place`:
free, ready, one of the queues, or in none. `dead` records that the code has
entered a loop that does not end with signals off, or switches to an event that
has no thread; nothing happens after that, and the properties speak about states
in which it has not happened. It happens when
* a waiter for pops of its own type stands in `pop_sync` when the head is woken
  (`djyos.c:1956`),
* a completion finds a waiter for the last event of a type with several threads
  (`djyos.c:2677` tests `vpus`, not `events`),
* memory released by `Djy_EventComplete` readies an event of higher priority,
  which has no thread yet when it is switched to (`djyos.c:2789`), or
* a correlative event that waited for memory is unlinked from the mark queue,
  which it is not in (`djyos.c:2316`).

In `UartTx` and `UartRx` the interrupt is one step and the thread takes a step per
critical section; `Ring_Write` and `Ring_Read` are two steps, the copy and the
change of `len`. What the driver does with the interrupt enable bit is taken from
one driver (STM32F7, without DMA): the interrupt stays enabled until it finds the
buffer empty. `WriteMutex` and `ReadMutex` serialise callers, so there is one
writer and one reader. The halves of a port share no data but the bits of
`MplUartStatus`; `Uart` therefore checks a behaviour of either half (`half`), with
one set of ring variables. That word is read and written back with interrupts
open (`uart.c:164`, `243`), so that a bit set by an interrupt in between, of
either half, can be lost. The model keeps the read bit and the overrun bit and
leaves out that loss; no property is about the bits, and nothing waits for them.

In `Timer` time passes in units of the system clock (microseconds in the code,
which `DjyGetSysTime` is taken to give exactly) and deadlines are kept relative to
now, so time needs no bound. A tick is `Precision` units, as `s_u32TimerPrecision`
is `CN_CFG_TICK_US`; `phase` is the time since the last tick interrupt. The thread
computes its waiting time in units, but `MsgQ_Receive` counts ticks: `Ticks` rounds
up as `__Djy_AddToDelay` does (`djyos.c:1170-1171`), and the wait loses a tick at each
tick interrupt (`Tick`), the first of which may come at once. `delayed` counts the
time since the end of the last scan in which the thread was not asleep: it was in
a hook, or did not have the processor. `spent` counts the same since its last step;
only that one is bounded (`MaxStep`), so a scan, which takes as many steps as it
finds timers due, may go on for ever. `delayed` is measured up to `MaxDelay`.

## 3. Runs

| Run | Question | Bounds |
|---|---|---|
| `event_sched` | `OnePlace`, `RunningIsFirst`, `NoMissedAlarm`, `BlockQueuesSorted`; liveness `TimedWaitEnds`, `RoundRobin` | 3 events and the service event, 2 priorities, one priority-ordered block queue, one interrupt line, delays up to 2 ticks, a slice of 2 ticks |
| `ecb_lists` | `ListsIntact`, `MonotoneRing`, and the refinement `ImplementsSched` | the same with a FIFO queue as well |
| `lock` | `NobodyWaitsForAFreeLock`, `MutualExclusion`, `PendTellsTheTruth`, `OwnerInheritsPriority`, `OwnerIsKnown` | 3 events and the service event, a binary semaphore, a mutex nested twice, a timeout of 1 tick |
| `msg_queue` | `Conservation`, `NoOverrun`, `NobodyForgotten`, `ImplementsDeque`, liveness `MessageIsNoticed` | 3 threads, 2 messages, 2 places |
| `mem_pool` | `LampHasBlock`, `NoBlockTwice`, `HeapReturned` | 3 threads, 2 cells, up to two more regions of 2 or 3 cells |
| `event_sched_set_prio` | expected violation, see below | 2 events and the service event |
| `lock_timeout_prio` | expected violation | 2 events and the service event |
| `mem_pool_race` | expected violation | the same with one more region |
| `uart` | `WriterIsRemembered`, `BlockingMeansSent`, `ReaderIsRemembered`, the refinement `ImplementsFifo`, liveness `WriteEnds` | buffers of 3 bytes, 2 values, messages of 1 to 4 bytes, up to 2 bytes per interrupt, trigger level 1 |
| `timer` | `QueueInOrder`, `NeverLate`, liveness `RemovalHappens` | 2 timers, periods of 4 and 5, ticks of 2, 1 request in flight, steps of up to 1; no delay reaches `MaxDelay` |
| `event_types` | `ThreadsAccounted`, `NobodyWaitsBesideAnIdleThread`, `WaitersHaveTargets`, `CorrelativeIsSingle` | 2 types of 4 kinds, 4 events, memory for 2 threads, counts up to 2 |
| `event_memory` | expected violation | as `event_types` |

*Why the bounds are enough to be interesting.* Three events and two priorities
give queues with a head, a middle and a tail, two events of one priority beside
one of another, two waiters for one lock beside an owner, and alarms that fall on
the same and on different ticks. Two priorities and the service event make rings
of one to three priorities. A buffer of two places wraps at both ends. Two cells
and three threads exhaust a pool while one thread is between pend and take.
Messages of four bytes do not fit a ring of three, so that writers wait, and
their remainder wraps. The periods of the timers are whole ticks and not, so that
waits are rounded; the shorter is the shortest that leaves room for two hooks. One
request in flight, beside the one that the thread handles, is enough to fill the
queue; `QueueInOrder` and `NeverLate` also pass with two, without the liveness. Four
events and memory for two threads make events of both types wait for memory
beside events that have threads; the run also passes with memory for three, in
five minutes.
Symmetry is used only in runs without liveness properties, over events (other
than the service event) or threads.

*Assumptions about the application.* Most are constants with a name.
`HoldAndBlock = FALSE` (run `lock`): threads do not wait while they hold a mutex;
with `TRUE`, `OwnerInheritsPriority` fails: an owner that is delayed or blocked when
a waiter of higher priority arrives inherits nothing, because
`Djy_RaiseTempPrio` tests the status bit of finding 1. `IsrHolds = FALSE`:
an ISR releases a mutex before it returns, otherwise the owner of a waited-for
mutex may be NULL. `Serialised = TRUE` (run `mem_pool`): calls on a pool *that may
grow* do not overlap; pools that cannot grow are checked with every interleaving.
A pool is deleted only when nobody uses it. `mem_pool` ends in that state, so it
does not check for deadlock; `event_types` does not either, since it ends where
`dead` is set. `TxAssumption`: the sender's trigger level is less than half of its
buffer, as `UART_InstallPort` sets it; with half or more a writer can wait for a
crossing that has happened. `ReuseAtOnce = FALSE` (run `timer`): a timer's cell is not
allocated again before the timer thread has unlinked it. `Timer_Delete` frees it as
soon as its request is in the message queue (`timer.c:521`), so a caller of a higher
priority than the thread's can obtain it again before; with `TRUE` and two requests
in flight, `QueueInOrder` fails: the cell is initialised while it is linked, and an
old START that is still in flight lets the new timer count before anybody has
started it.
`RoomForHooks`, a hypothesis of `RemovalHappens`: every period is at least a tick
and a hook of each timer. Without it the scan need not end: `__Timer_DealTimeout`
starts again at the head after every hook, a timer is due when less than a tick is
left, and a period of one tick is due again as soon as its own hook has taken any
time. Then no request is served any more. Nothing in the code refuses such periods.

The others are guards of actions, where the code would go on into states that the
model has no counterpart for:
* `EvttUnregist`: a type is unregistered once, and only when no event waits for it.
  `Djy_EvttUnregist` notes that a type is not registered and goes on
  (`djyos.c:882-885`), which would release its idle threads again; with waiters for
  its pops it does not leave its loop (`djyos.c:921`).
* `EventPop`: the id of an event that is passed is not that of a free event, whose
  `evtt_id` would index the table of types (`djyos.c:1890`).
* `SetEventPrio` and `RaiseTempPrio`: not for the service event, which applications
  have no id of and which holds no mutex; raised above others, it would starve them.

*Fairness.* `EventSched!FairSpec` assumes that the tick interrupt keeps coming and
that its handler runs to its end: the timer is hardware and the handler a bounded
loop with interrupts off. Nothing is assumed about threads or about posts.
`MsgQueue!FairSpec` assumes that a thread inside `MsgQ_Send` or `MsgQ_Receive`
that is not blocked eventually takes its next step, which holds when higher
priorities leave it processor time; it assumes nothing about timeouts or about
calls being made.

`Uart!Spec` (`TxFairness`) assumes that a writer that is not blocked is given the
processor and that the transmit interrupt keeps coming while it is enabled: the
hardware raises it whenever its register is empty. `Timer!Spec` assumes that the
timer thread, whose priority is above round-robin threads, gets the processor
whenever it is ready, within `MaxStep`, and that time goes on.

*Disagreements between code and comments found by the runs* (quoted in
`PROJECT.json`):
1. `Djy_SetEventPrio` on an event blocked in a priority-ordered queue does not
   change its priority and does not move it, yet returns success: the status bit
   that would trigger it is overwritten when the event blocks.
2. If the waiter whose priority a mutex owner inherited times out, the owner
   keeps that priority after releasing the mutex.
3. A pool that grows while another thread is between its pend and its take
   abandons the blocks left in the old region; a holder of a lamp then finds no
   block.
4. The last event that waits for the memory of a thread is unlinked when memory is
   released but not put into the ready queue: it is in no queue any more.

*Seen while modelling, not stated as a run:* a waiter for n > 1 completions is woken
by the first one, and all waiters for pops are woken when the first of them is due
(`djyos.c:1956`, `2668-2707`), against the descriptions of `Djy_WaitEvttCompleted`
and `Djy_EventPop`; a pop is refused when `vpus > vpus_limit`, so that a type can
have one thread more than its limit; `inuse` of an independent type can stay set
when its last event is complete, so that a type marked for deletion stays.

Each property of a passing run has a mutant: an operator next to the definition
it replaces, changed as a plausible slip in the code would, under which TLC finds
the property violated.

## 4. Proofs

`MsgQueueProofs` proves, for every finite set of threads, every set of messages
and every capacity greater than 0 (`MsgQAssumption`):

* `TypeCorrect`: `Spec => []TypeOK`
* `Accounting`: `Spec => []Conservation`
* `NoLostWakeUp`: `Spec => []NobodyForgotten`
* `BufferSafe`: `Spec => []NoOverrun`

The inductive invariant is

    IInv == TypeOK /\ Conservation /\ NobodyForgotten /\ SenderHasMessage

`NoOverrun` is not inductive: that a sender about to copy finds room follows from
counting it among the places that are neither free lamps nor messages, which is
`Conservation`. `Conservation` needs `NobodyForgotten`, because a post that found
both a waiter and lit lamps could push a counter beyond the capacity where it
saturates, and the types need `Conservation`. The argument is a counting one: one
thread moves from one place to another, so two cardinalities change by one. The
lemmas `Move` and `HandOver` state that once, and each action cites one of them.
`SenderHasMessage` (whoever is about to copy has something to copy) is needed by
the refinement.

The second part of `MsgQueueProofs` proves `Refinement`: `Spec => ImplementsDeque`. The occupied part
of the buffer is a window of the circular buffer; lemmas state what writing at the
tail, writing in front of the head and dropping the head do to the window,
including the wrap-around at both ends.

`EventSchedProofs` proves, for every finite set of events, every set of block
queues, interrupt lines and priorities, every largest delay and every slice
(`SchedAssumption`; the events are finitely many because the control blocks are a
table of fixed size):

* `SchedTypeCorrect`: `Spec => []TypeOK`
* `EveryEventHasOnePlace`: `Spec => []OnePlace`
* `DispatchIsByPriority`: `Spec => []RunningIsFirst`
* `AlarmsAreOnTime`: `Spec => []NoMissedAlarm`
* `PriorityQueuesSorted`: `Spec => []BlockQueuesSorted`

The inductive invariant `SchedInv` takes the queues one by one (`ReadyOK`,
`DelayOK`, `QueuesOK`) and ties them to the status of each event (`StatusOK`) and
to the running event (`RunningOK`). None of the properties is inductive by itself.
That the running event is the head depends on the service event being the tail
of the ready queue, ready for ever and below every other priority, or the queue
could run empty and an insertion could fall behind it. That a sorted block queue
stays sorted depends on the status: only events outside of block queues change
their priority. That no alarm is missed depends on the order of the alarm queue
and on an event that is woken being taken out of it. The lemmas about the
operators of `EventQueues` (`InsertSorted`, `CutFrom`, `PosOf`) say that inserting
and cutting keep a queue sorted and without duplicates, and what they do to its
elements. Where the code searches for the first place with some property, the
lemma `Least` (a set of numbers has a least element) stands in for the loop.

`EcbListsProofs` proves, for every finite set of events and everything else that
`EventSchedProofs` leaves open (`EcbAssumption`), that the pointers do what the
sequences say:

* `ListInvariance`: `Spec => []ListInv`
* `EcbTypeCorrect`: `Spec => []TypeOK`
* `ListsStayIntact`: `Spec => []ListsIntact`
* `RingIsMonotone`: `Spec => []MonotoneRing`
* `ListsImplementQueues`: `Spec => ImplementsSched`

The inductive invariant is `ListInv == Abs!SchedInv /\ ListsRep`, where `Abs` is
`EventSchedProofs` with the queues that walking along the pointers yields. `Rep`,
from which `ListsRep` is made, says that the pointers L represent a ready queue r
with its ring f, an alarm queue d and block queues qs: each is a ring in both
directions (`IsRing`) that starts at its head; f holds the first event of each
priority of r in order (`FirstsOf`), and the other ready events have NULL in
`multi_next`; and the queues that share a pair of pointers have no event in
common (`Apart`). The argument has four layers:
1. what linking, unlinking and replacing do to a ring (`LinkRing`, `UnlinkRing`,
   `ReplaceRing`), for any place in it, and that a ring unrolls to its sequence
   (`UnrollIs`);
2. what inserting and cutting do to the firsts of the ready queue (the `Firsts...`
   lemmas), and that the search of `__Djy_EventReady` along the ring, priority by
   priority, ends where `InsertSorted` inserts (`SearchFound`, `ReadySearch`);
3. one lemma per list function (`EventReadyRep`, `CutReadyRep`, `RotateRep`,
   `AddToBlockRep`, `CutTimedOutRep`, ...): it turns representations into
   representations of the changed queue, and leaves the others alone although
   they use the same pointers. Here the order of the statements matters: an event
   that moves from the ready queue to a block queue gives up its place in the ring
   before the same pair of pointers enters the block queue;
4. one lemma per action (`YieldStep`, `BlockStep`, ...): the step on the lists is
   the step of `EventSched` on the queues, so that `SchedInv` is preserved by the
   theorem of `EventSchedProofs` and is not proved again.
Loops of the code are functions over a number of iterations; what they compute
is shown by giving the function in closed form, and for `__Djy_InitSys`, which
inserts the events one after the other, by `UpTo`: a set of numbers that holds 0
and with each number the next one holds all of them.

`LockProofs` proves, on top of `SchedInv` and `LockAssumption`:

* `LockTypeCorrect`: `LockSpec => []LockTypeOK`
* `MutexesExclude`: `LockSpec => []MutualExclusion`
* `PendsTellTheTruth`: `LockSpec => []PendTellsTheTruth`
* `NoPostIsLost`, `OwnersAreKnown`: `LockSpec => []NobodyWaitsForAFreeLock` and
  `LockSpec => []OwnerIsKnown`, if ISRs release the mutexes they take (`~IsrHolds`)
* `OwnersInherit`: `LockSpec /\ []OneMutexEach => []OwnerInheritsPriority`, if also
  threads do not wait while they hold a mutex (`~HoldAndBlock`)

`LockInv` adds to `SchedInv` where each event is in its call and which queue it
therefore stands in (`CallsOK`), that `owner`, `enable` and what callers were told
agree (`OwnersOK`), that `wakeup_from` tells a hand-over from a timeout as long as
somebody is going to read it (`PendsOK`), and that nobody waits beside a lamp
(`NobodyForgottenOK`). The hypotheses are the constants of the runs, and one more:
`OneMutexEach`. `Djy_RestorePrio` returns to `prio_base` at the first release even
if the event still owns another mutex with waiters above it (`djyos.c:1400`), so
with two mutexes in one hand inheritance fails; the run `lock`, which has one mutex,
could not show this, the attempt at the proof did. The state in which
`OneMutexEach` fails is one the kernel lets threads reach, so it is an assumption
about the application, stated as a hypothesis of the theorem.

`MemPoolProofs` proves, for every finite set of threads and every size and growth
(`PoolAssumption`), for pools that cannot grow or whose callers are serialised
(`SafeUse`):

* `PoolTypeCorrect`: `Spec /\ SafeUse => []TypeOK`
* `LampsCountBlocks`: `Spec /\ SafeUse => []LampHasBlock`
* `PreemptionIsHarmless`: `Spec /\ SafeUse => []LampFindsBlock`
* `BlocksAreExclusive`: `Spec /\ SafeUse => []NoBlockTwice`

and without that condition

* `RegionsAreReturned`: `Spec => []HeapReturned`

`SafeUse` is there because the first four are false without it: run `mem_pool_race`
shows the counterexample to `LampFindsBlock` (finding 3). `PreemptionIsHarmless`
is thus the part of the comment in `Mb_Malloc` that is true. `PoolInv` counts twice:
the free blocks against the lamps (`LampHasBlock`), and all blocks, free and handed
out, against `lamps_limit` (`Capacity`). The second count is what makes the first
inductive, since a post of `Mb_Free` that met a full semaphore would lose a lamp.

`EventTypesProofs` proves, for every set of types, every finite set of events, every
set of kinds and every amount of memory (`EvttAssumption`):

* `TypesInvariance`: `Spec => []TypesInv`
* `ThreadsAreAccounted`: `Spec => []ThreadsAccounted`
* `NobodyWaitsIdly`: `Spec => []NobodyWaitsBesideAnIdleThread`
* `WaitersAreHeld`: `Spec => []WaitersHaveTargets`
* `CorrelativeStaysSingle`: `Spec => []CorrelativeIsSingle`

The inductive invariant is `TypesInv == Core(Now, NoEvtt) /\ Waits(Now)`. `Core` has
the types of the fields, what a control block is in the free list and outside of it
(`Live`), the counters (`Counted`), no idle thread beside an event without one
(`NoIdle`), what it means that a type is in use (`Uses`), and the mark queues
(`Marks`: that of an independent type holds exactly its events without a thread,
each once). `Waits` says of each of the three families of waiting queues that they
are disjoint and hold the events of one place (`Hold`), of the heap's queue the
same, and that nobody waits for a type that is gone or going. The four properties need each other: a thread that is
kept goes to the first of the mark queue, so `NobodyWaitsBesideAnIdleThread` rests on
`Marks`; whether the type is then used rests on the counters; and the counters rest
on `Uses`, since a type that was taken for unused while it had an event would be
erased with its counters.

Because the kernel's functions are modelled as pieces that map states to states, and
`Djy_EventComplete` composes up to five of them, the invariant is stated of a state
and proved piece by piece (`PopSyncSafe`, `NewEventSafe`, `RetiredSafe`,
`SelectedSafe`, `GiveBackSafe`, `KeptSafe`, `DestroyedSafe`, ...). In the middle of
`Djy_EventComplete` it does not hold: the control block is free and its thread
belongs to nobody, while `__Djy_SelectEventToRun` already looks for threads. `Core(s, h)`
is the invariant of such a state, with one thread of type h left out of the count;
`RetiredSafe` leads into it, `KeptSafe`, `DestroyedSafe` and `UnregisterSafe` out of
it. `dead` plays no part in the proof: the invariant holds in the states in which
the kernel would loop for ever, too. Removing events from a queue is given in closed form (`Without`, by
rank) instead of by `SelectSeq`, which would need induction over the queue; run
`event_types` compares the two (`WithoutSelects` in `MCEventTypes`).

`UartProofs` proves, for every capacity greater than 0 (`MaxLenAssumption`),
every trigger level less than half of it, every set of messages and every number
of bytes per interrupt (`TxAssumption`, `RxAssumption`), first about each half:

* `TxTypeCorrect`: `TxSpec => []TxTypeOK`
* `WritersAreRemembered`: `TxSpec => []WriterIsRemembered`
* `BlockingWritesAreSent`: `TxSpec => []BlockingMeansSent`
* `RxTypeCorrect`: `RxSpec => []RxTypeOK`
* `ReadersAreRemembered`: `RxSpec => []ReaderIsRemembered`

The inductive invariant `TxInv` follows the writer from the short write to its
sleep: `ShortWrite` (the bytes that did not all fit take the buffer beyond the
trigger level, or the crossing has been posted), `SomeoneWillPost` (once the
transmission is started the interrupt is enabled), and then
`WriterIsRemembered`. Only `RingWriteInv` uses that the level is less than half of
the buffer: of `len` and `written`, which add up to the capacity, one is above the
level. `LampMeansEmpty` carries the argument for `BlockingMeansSent`. `RxInv` says
that the reader's level is the one in force from its test to its sleep, and that a
byte that reached the level since the test has left a lamp.

Then, about the composition:

* `PortTypeCorrect`: `Spec => []TypeOK`
* `NobodyIsForgotten`: the three invariants of the halves, for `Spec`
* `PortImplementsFifo`: `Spec => ImplementsFifo`, the refinement of `ByteFifo`

The refinement needs what the invariants above do not: where the bytes are.
`TxAligned` says that the write position is as far ahead of the read position,
modulo the capacity, as there are bytes counted in `len` or about to be, and that
what `Ring_Write` has copied and not yet counted lies right behind the counted
bytes; `RxAligned` says the same of what `Ring_Read` has copied and not yet
discounted. An interrupt that comes between the copy and the change of `len`
moves one end of the window only, and leaves the other part of it alone.
The first part of `UartProofs` holds the modular arithmetic of `RingBuf` (positions
equal up to whole turns of the buffer, `SamePlace`) and the lemmas about windows of the buffer: splitting,
joining, and copying in two pieces behind the end (`CopyBehind`) and from the front
(`ReadBack`).

`TimerProofs` proves, for every set of timers, all periods, every length of a tick
and of the queue of requests, and whatever time the thread spends in hooks or
waiting for the processor (`TimerAssumption`), if cells are not reused at once
(`~ ReuseAtOnce`):

* `TimersInOrder`: `Spec => []QueueInOrder`
* `TimersAreOnTime`: `Spec => []NeverLate`

`TimerInv` adds what the requests in flight may be (`RequestsInOrder`: nothing
about a timer follows its REMOVE, nothing precedes its ADD, and a timer whose ADD
has not arrived does not count), without which a request could unlink a timer that
is not linked, or link it twice. `NeverLate` says that a timer is late by less than
a tick more than the thread was delayed; a whole tick of rounding cannot be
excluded (with a tick of 1000 and a period of 1500, a wait that starts at a tick
interrupt ends at 2000). It needs `WaitIsEnough`, also when requests arrive between
the scan and the wait: before the thread sleeps, the wait is no more than the first
deadline, but for the delay (`Expects`); while it sleeps, the ticks that are left
end less than a tick after the first deadline (`Rounded`: `wait * Precision - phase`
is the time until the last of them).

Before they were proved, the inductive invariants of `EventSched`, `Lock`,
`MemPool`, `EventTypes` (but for the set of all records, which TLC cannot
enumerate), `Uart` and `Timer`, and `ListsIntact` and `MonotoneRing`, were checked
with TLC on the instances of the runs.

*Only model-checked:* liveness (`TimedWaitEnds`, `RoundRobin`, `MessageIsNoticed`,
`WriteEnds`, `RemovalHappens`), which is outside the reach of the provers used.
Every invariant of a passing run is stated by a theorem, under the hypotheses
named above, and so are the refinements of the scheduler, the message queue and
the serial port.

## 5. Not modelled

Deletion of locks and queues; `Djy_EventExit`, static stacks, parameters and
results of events, memory owned by events, and threads that wait in `malloc`; the
nesting counters of the interrupt module; the page and ladder bookkeeping of the
heap (an allocation succeeds or fails); `UART_Ctrl`, DMA and error events of serial
ports; timers driven by a hardware timer, and hooks that call the timer functions
(a hook that sends a request to a full queue would wait for its own thread); error
numbers, hooks and statistics; everything else in `component/` and `bsp/`. Most of
the repository is vendored code, device headers, board support, protocol stacks
and graphics, which this development leaves aside. `PROJECT.json` gives the
reason for each part.

The modules do not share one composed state: `Lock` extends the scheduler, and the
others take from the semaphores what `Lock` shows of them (a waiter goes on or a
lamp is lit). A composition of `MsgQueue` or `Uart` with `Lock` would multiply state
spaces that are already near the limit of what can be explored.

## 6. Plan

Done: `EventSched`, `EcbLists`, `Lock`, `MsgQueue`, `MemPool`, `EventTypes`, `RingBuf`
with `Uart`, `Timer`; the proofs of the safety properties of all of them.

Left, in this order:
1. `IntNest`: nesting of `Int_SaveAsynSignal`, atomic sections and
   `__Djy_SelectEventToRun` with failing thread creation. Questions: are
   interrupts open again after the outermost restore; is a switch ever lost.
2. `Lock` with two mutexes (order of releases and inherited priorities, see
   `OneMutexEach`) and deletion.
