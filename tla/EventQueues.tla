------------------------------ MODULE EventQueues ------------------------------
(***************************************************************************)
(* The three kinds of queue an event control block (struct EventECB) can   *)
(* be linked into, seen as sequences: the ready queue (g_ptEventReady,     *)
(* sorted by priority), the alarm queue (g_ptEventDelay, sorted by         *)
(* delay_end_tick) and the block queues of the synchronisation objects     *)
(* (FIFO or sorted by priority).  A smaller number is a higher priority.   *)
(*                                                                         *)
(* The operators are pure: a queue in, a queue out.  EventSched uses them  *)
(* as the meaning of the list surgery that EcbLists models pointer by      *)
(* pointer; Lock uses them to stay readable.                               *)
(***************************************************************************)
EXTENDS Naturals, Sequences

(* The events linked into queue q. *)
Elements(q) == {q[i] : i \in 1..Len(q)}

(* Every event is linked at most once. *)
NoDuplicates(q) == \A i, j \in 1..Len(q) : q[i] = q[j] => i = j

(* The keys of q never decrease from its head to its tail. *)
SortedBy(q, key) == \A i, j \in 1..Len(q) : i < j => key[q[i]] <= key[q[j]]

(* Mutant: the searches stop at an equal key (< for <=). *)
InsertPosBeforeEquals(q, key, e) ==
  CHOOSE p \in 1..(Len(q) + 1) :
    /\ p = Len(q) + 1 \/ key[q[p]] >= key[e]
    /\ \A i \in 1..(p - 1) : key[q[i]] < key[e]

(***************************************************************************)
(* The insertion point found by the kernel's do/while searches: before the *)
(* first element whose key is greater, else at the tail.  Equal keys thus  *)
(* keep their arrival order.                                               *)
(***************************************************************************)
InsertPos(q, key, e) ==
  CHOOSE p \in 1..(Len(q) + 1) :
    /\ p = Len(q) + 1 \/ key[q[p]] > key[e]
    /\ \A i \in 1..(p - 1) : key[q[i]] <= key[e]

InsertAtPos(q, p, e) ==
  [i \in 1..(Len(q) + 1) |-> IF i < p THEN q[i] ELSE IF i = p THEN e ELSE q[i - 1]]

(* Insertion that keeps q sorted: __Djy_EventReady, __Djy_AddToDelay and the *)
(* CN_BLOCK_PRIO branch of __Djy_AddRunningToBlock.                          *)
InsertSorted(q, key, e) == InsertAtPos(q, InsertPos(q, key, e), e)

(* Unlinking an event that is in q. *)
CutFrom(q, e) ==
  LET p == CHOOSE i \in 1..Len(q) : q[i] = e
  IN  [i \in 1..(Len(q) - 1) |-> IF i < p THEN q[i] ELSE q[i + 1]]

(* The position of an event that is in q. *)
PosOf(q, e) == CHOOSE i \in 1..Len(q) : q[i] = e
================================================================================
