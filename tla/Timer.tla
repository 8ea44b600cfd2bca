------------------------------- MODULE Timer --------------------------------
(* The software timers of component/timer/timer.c in the mode that needs no *)
(* hardware timer: Timer_Create, Timer_Delete and Timer_Ctrl send messages, *)
(* and the thread Timer_VMTask keeps the queue of timers, ordered by        *)
(* deadline, runs the hooks of those that are due and waits for a message   *)
(* until the first deadline.  Time passes between any two steps, in units   *)
(* of the system clock; deadlines are counted from now.  A wait is counted  *)
(* in ticks, of Precision units each.                                       *)
EXTENDS Integers, FiniteSets, Sequences, SequencesExt

CONSTANTS Timers,      \* the cells of ptTimerMemPool
          Cycles,      \* the periods applications ask for
          Precision,   \* s_u32TimerPrecision, which is CN_CFG_TICK_US
          Never,       \* CN_TIMER_ALARMNEVER
          Forever,     \* CN_TIMEOUT_FOREVER
          MaxMsgs,     \* CN_TIMERSOFT_MSGLEN
          MaxStep,     \* bound: the time from one step of the thread that
                       \*   can run to the next, a hook or a preemption
          MaxDelay,    \* bound: delays are measured up to this one
          ReuseAtOnce  \* whether a cell can be allocated again before the
                       \*   thread has unlinked the timer deleted last

ASSUME TimerAssumption == /\ Precision \in Nat \ {0}
                          /\ Cycles \subseteq Nat
                          /\ Never \notin Int
                          /\ Forever \notin Int
                          /\ MaxMsgs \in Nat \ {0}
                          /\ MaxStep \in Nat
                          /\ MaxDelay \in Nat
                          /\ ReuseAtOnce \in BOOLEAN

VARIABLES queue,      \* the list from ptTimerHead to ptTimerTail
          encount,    \* CN_TIMER_ENCOUNT of stat
          reload,     \* CN_TIMER_RELOAD of stat
          cycle,
          deadline,   \* time left until the deadline, or Never
          owner,      \* what the application knows of a cell
          msgs,       \* ptTimerMsgQ
          pc,         \* where Timer_VMTask is
          wait,       \* waittime, and while it waits the ticks that are left
          phase,      \* time since the last tick interrupt
          spent,      \* time since the thread's last step, while it could run
          delayed     \* the same since the end of its last scan, or MaxDelay
                      \*   if that is more

timerVars == <<encount, reload, cycle, deadline>>
clockVars == <<phase, spent, delayed>>
vars == <<queue, timerVars, owner, msgs, pc, wait, clockVars>>

Requests == [timer : Timers, type : {"START", "PAUSE", "ADD", "REMOVE"}]
            \cup [timer : Timers, type : {"SETCYCLE"}, para : Cycles]
            \cup [timer : Timers, type : {"SETRELOAD"}, para : BOOLEAN]

Init == /\ queue = << >>
        /\ encount = [t \in Timers |-> FALSE]
        /\ reload = [t \in Timers |-> FALSE]
        /\ cycle \in [Timers -> Cycles]
        /\ deadline = [t \in Timers |-> Never]
        /\ owner = [t \in Timers |-> "free"]
        /\ msgs = << >>
        /\ pc = "scan"
        /\ wait = 0
        /\ phase = 0
        /\ spent = 0
        /\ delayed = 0
-----------------------------------------------------------------------------
Earlier(d, e) == IF d = Never THEN FALSE ELSE IF e = Never THEN TRUE ELSE d < e

\* __Timer_Remove
Without(q, t) == RemoveFirst(q, t)

\* (Mutant: only finite deadlines are compared.)
AddBeforeNever(q, t, dl) ==
    InsertAt(q, Len(SelectSeq(q, LAMBDA u : dl[u] # Never)) + 1, t)

\* __Timer_Add: in front of the first timer that is not earlier.
Add(q, t, dl) ==
    LET Later == {i \in 1 .. Len(q) : ~ Earlier(dl[q[i]], dl[t])}
        n == IF Later = {} THEN Len(q) + 1
             ELSE CHOOSE i \in Later : \A j \in Later : i <= j
    IN  InsertAt(q, n, t)

\* (Mutant: due already when the precision is all that is left.)
ChkTimeoutOrEqual(t) == deadline[t] # Never /\ deadline[t] - Precision <= 0

\* __Timer_ChkTimeout
ChkTimeout(t) == deadline[t] # Never /\ deadline[t] - Precision < 0

\* (Mutant: another tick, for the part of the current one that is over.)
TicksAndOne(w) == (w + Precision - 1) \div Precision + 1

\* __Djy_AddToDelay: a timeout is rounded up to whole ticks, and the first of
\* them is over at the next tick interrupt.
Ticks(w) == (w + Precision - 1) \div Precision

\* There is a first timer, and it is enabled.
HeadCounts == queue # << >> /\ encount[Head(queue)]
-----------------------------------------------------------------------------
\* MsgQ_Send with CN_TIMEOUT_FOREVER: the caller waits while the queue is full.
Send(m) == Len(msgs) < MaxMsgs /\ msgs' = Append(msgs, m)

\* Mb_Malloc obtains the cell.  Timer_Delete has freed it as soon as its request
\* is in the message queue, when the thread may not have unlinked it yet.
Allocatable(t) == \/ owner[t] = "free"
                  \/ ReuseAtOnce /\ owner[t] = "deleted"

\* Timer_Create, Timer_Create_s
Create(t, c) ==
    /\ Allocatable(t)
    /\ owner' = [owner EXCEPT ![t] = "live"]
    /\ cycle' = [cycle EXCEPT ![t] = c]
    /\ deadline' = [deadline EXCEPT ![t] = Never]
    /\ encount' = [encount EXCEPT ![t] = FALSE]
    /\ reload' = [reload EXCEPT ![t] = TRUE]
    /\ Send([timer |-> t, type |-> "ADD"])
    /\ UNCHANGED <<queue, pc, wait, clockVars>>

\* Timer_Delete, Timer_Delete_s
Delete(t) ==
    /\ owner[t] = "live"
    /\ owner' = [owner EXCEPT ![t] = "deleted"]
    /\ Send([timer |-> t, type |-> "REMOVE"])
    /\ UNCHANGED <<queue, timerVars, pc, wait, clockVars>>

\* Timer_Ctrl
Ctrl(m) ==
    /\ owner[m.timer] = "live"
    /\ m.type \notin {"ADD", "REMOVE"}
    /\ Send(m)
    /\ UNCHANGED <<queue, timerVars, owner, pc, wait, clockVars>>
-----------------------------------------------------------------------------
\* The timer thread has come to its next step.
Steps == spent' = 0 /\ UNCHANGED phase

\* One turn of the loop of __Timer_DealTimeout that finds a timer due, and
\* runs its hook.
Fire ==
    /\ pc = "scan"
    /\ HeadCounts
    /\ LET t == Head(queue)
           rest == Without(queue, t)
       IN  /\ ChkTimeout(t)
           /\ deadline' = [deadline EXCEPT ![t] = IF reload[t] THEN cycle[t]
                                                               ELSE Never]
           /\ queue' = IF reload[t] THEN Add(rest, t, deadline')
                                    ELSE Append(rest, t)
    /\ Steps
    /\ UNCHANGED <<encount, reload, cycle, owner, msgs, pc, wait, delayed>>

\* The end of the loop: how long to wait.  For a head that is enabled and
\* never due the result is the low half of a 64-bit difference, which can be
\* anything: the extremes stand for it.
ScanEnd ==
    /\ pc = "scan"
    /\ pc' = "call"
    /\ delayed' = 0
    /\ \/ /\ ~ HeadCounts
          /\ wait' = Forever
       \/ /\ HeadCounts
          /\ deadline[Head(queue)] = Never
          /\ wait' \in {0, Forever}
       \/ /\ HeadCounts
          /\ deadline[Head(queue)] # Never
          /\ ~ ChkTimeout(Head(queue))
          /\ wait' = deadline[Head(queue)]
    /\ Steps
    /\ UNCHANGED <<queue, timerVars, owner, msgs>>

\* The thread calls MsgQ_Receive, which returns at once if there is a message
\* or the timeout is 0, and starts a wait otherwise.
Receive ==
    /\ pc = "call"
    /\ pc' = IF msgs = << >> /\ wait = 0 THEN "scan" ELSE "recv"
    /\ wait' = IF wait = Forever THEN Forever ELSE Ticks(wait)
    /\ Steps
    /\ UNCHANGED <<queue, timerVars, owner, msgs, delayed>>

\* EN_TIMER_SOFT_START and, for an enabled timer, EN_TIMER_SOFT_SETCYCLE: the
\* timer runs for a period c from now on.
Restart(t, c) ==
    /\ deadline' = [deadline EXCEPT ![t] = c]
    /\ queue' = Add(Without(queue, t), t, deadline')

\* What Timer_VMTask does with a message.
Handle(t, type, m) ==
    CASE type = "START" /\ ~ encount[t] ->
            /\ encount' = [encount EXCEPT ![t] = TRUE]
            /\ Restart(t, cycle[t])
            /\ UNCHANGED <<reload, cycle, owner>>
      [] type = "PAUSE" /\ encount[t] ->
            /\ encount' = [encount EXCEPT ![t] = FALSE]
            /\ deadline' = [deadline EXCEPT ![t] = Never]
            /\ queue' = Append(Without(queue, t), t)
            /\ UNCHANGED <<reload, cycle, owner>>
      [] type = "SETCYCLE" ->
            /\ cycle' = [cycle EXCEPT ![t] = m.para]
            /\ IF encount[t] THEN Restart(t, m.para)
                             ELSE UNCHANGED <<queue, deadline>>
            /\ UNCHANGED <<encount, reload, owner>>
      [] type = "SETRELOAD" ->
            /\ reload' = [reload EXCEPT ![t] = m.para]
            /\ UNCHANGED <<queue, encount, cycle, deadline, owner>>
      [] type = "ADD" ->
            /\ queue' = Add(queue, t, deadline)
            /\ UNCHANGED <<timerVars, owner>>
      [] type = "REMOVE" ->
            /\ queue' = Without(queue, t)
            /\ owner' = [owner EXCEPT ![t] = IF @ = "deleted" THEN "free" ELSE @]
            /\ UNCHANGED timerVars
      [] OTHER -> UNCHANGED <<queue, timerVars, owner>>

\* MsgQ_Receive returns a message, and the thread handles it.
HandleMsg ==
    /\ pc = "recv"
    /\ msgs # << >>
    /\ Handle(Head(msgs).timer, Head(msgs).type, Head(msgs))
    /\ msgs' = Tail(msgs)
    /\ pc' = "scan"
    /\ wait' = 0
    /\ Steps
    /\ UNCHANGED delayed

\* MsgQ_Receive has timed out, and says so even if a message has come since.
RecvTimeout ==
    /\ pc = "timedout"
    /\ pc' = "scan"
    /\ Steps
    /\ UNCHANGED <<queue, timerVars, owner, msgs, wait, delayed>>

Queued == {queue[i] : i \in 1 .. Len(queue)}

\* The thread is blocked in MsgQ_Receive; a message makes it ready.
Sleeps == pc = "recv" /\ msgs = << >>

Less(d) == IF d = Never THEN d ELSE d - 1

\* A unit of time passes; nothing looks at the deadline of a cell that is not
\* linked.  When a tick is complete, Djy_IsrTick counts it and ends a wait that
\* is over.  A thread that does not sleep is in a hook, or is preempted.
Tick ==
    /\ Sleeps \/ spent < MaxStep
    /\ spent' = IF Sleeps THEN spent ELSE spent + 1
    /\ delayed' = IF Sleeps \/ delayed = MaxDelay THEN delayed ELSE delayed + 1
    /\ deadline' = [t \in Timers |-> IF t \in Queued THEN Less(deadline[t])
                                                     ELSE deadline[t]]
    /\ phase' = (phase + 1) % Precision
    /\ IF Sleeps /\ wait # Forever /\ phase' = 0
       THEN /\ wait' = wait - 1
            /\ pc' = IF wait' = 0 THEN "timedout" ELSE pc
       ELSE UNCHANGED <<wait, pc>>
    /\ UNCHANGED <<queue, encount, reload, cycle, owner, msgs>>
-----------------------------------------------------------------------------
VMTask == Fire \/ ScanEnd \/ Receive \/ HandleMsg \/ RecvTimeout

Next == \/ \E t \in Timers, c \in Cycles : Create(t, c)
        \/ \E t \in Timers : Delete(t)
        \/ \E m \in Requests : Ctrl(m)
        \/ VMTask
        \/ Tick

(* The timer thread gets the processor, and time goes on.                   *)
Spec == Init /\ [][Next]_vars /\ WF_vars(VMTask) /\ WF_vars(Tick)
-----------------------------------------------------------------------------
Asked(type) == {msgs[i].timer : i \in {j \in 1 .. Len(msgs) :
                                           msgs[j].type = type}}

(* The queue is what __Timer_DealTimeout takes it for: every timer that was *)
(* added and not removed is in it once, in the order of the deadlines, and  *)
(* a timer that is not counting has no deadline, so a head that is disabled *)
(* means that nothing is due.                                               *)
QueueInOrder ==
    /\ \A i, j \in 1 .. Len(queue) :
           i < j => /\ queue[i] # queue[j]
                    /\ ~ Earlier(deadline[queue[j]], deadline[queue[i]])
    /\ Queued = {t \in Timers : owner[t] # "free"} \ Asked("ADD")
    /\ \A t \in Timers : encount[t] \/ deadline[t] = Never

(* No timer is a whole tick later than the time that the thread has spent   *)
(* awake since its last scan, in hooks or without the processor: whatever   *)
(* requests come between the scan and the wait that it has computed, only   *)
(* the rounding of that wait to ticks adds to the delay.                    *)
NeverLate ==
    \A t \in Queued : \/ deadline[t] = Never
                      \/ delayed = MaxDelay
                      \/ deadline[t] + delayed > - Precision

(* Every period leaves room for a hook of every timer.                      *)
RoomForHooks ==
    \A c \in Cycles : c >= Precision + Cardinality(Timers) * MaxStep

(* A deleted timer finally leaves the queue if RoomForHooks: the scan, which *)
(* starts again at the head after each hook while time goes on, comes to an  *)
(* end.  It need not for shorter periods: one of Precision is due again as   *)
(* soon as its own hook takes any time.                                      *)
RemovalHappens ==
    RoomForHooks =>
        \A t \in Timers : owner[t] = "deleted" ~> owner[t] = "free"
=============================================================================
