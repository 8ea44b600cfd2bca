-------------------------------- MODULE MsgQueue -------------------------------
(***************************************************************************)
(* The message queue of msgqueue.c: a circular buffer of MaxMsgs messages  *)
(* guarded by two counting semaphores, MsgSendSemp (free places) and       *)
(* MsgRecvSemp (messages).  MsgQ_Send and MsgQ_Receive are three critical  *)
(* sections each -- pend, copy, post -- and any other thread, or a         *)
(* timeout, can come between two of them.                                  *)
(*                                                                         *)
(* The scheduler is left out: any thread that is not blocked may take its  *)
(* next step, and a post hands its lamp to any of the waiters, which       *)
(* covers both queueing orders (CN_MSGQ_TYPE_FIFO, CN_MSGQ_TYPE_PRIO) and  *)
(* every assignment of priorities.  Lock checks the semaphores themselves. *)
(***************************************************************************)
EXTENDS Naturals, Sequences, FiniteSets

CONSTANTS
  Threads,
  Msgs,
  MaxMsgs,     \* the capacity given to MsgQ_Create
  NoMsg

ASSUME MsgQAssumption ==
  /\ IsFiniteSet(Threads)
  /\ MaxMsgs \in Nat \ {0}
  /\ NoMsg \notin Msgs

VARIABLES
  sendLamps, recvLamps,   \* lamp_counter of MsgSendSemp and MsgRecvSemp
  buf,                    \* the slots of the buffer
  MsgUsed, ReadOffset,
  pc,                     \* where each thread is in MsgQ_Send / MsgQ_Receive
  sending,                \* the message to send, copied from the caller's buffer
  received                \* the caller's buffer of MsgQ_Receive

vars == <<sendLamps, recvLamps, buf, MsgUsed, ReadOffset, pc, sending, received>>

(* The points between the critical sections, and blocked in a pend. *)
Places == {"out", "send_wait", "send_copy", "urgent_wait", "urgent_copy", "send_post",
           "recv_wait", "recv_copy", "recv_post"}

Slots == 0..(MaxMsgs - 1)

TypeOK ==
  /\ sendLamps \in 0..MaxMsgs
  /\ recvLamps \in 0..MaxMsgs
  /\ buf \in [Slots -> Msgs \union {NoMsg}]
  /\ MsgUsed \in Nat
  /\ ReadOffset \in Slots
  /\ pc \in [Threads -> Places]
  /\ sending \in [Threads -> Msgs \union {NoMsg}]
  /\ received \in [Threads -> Msgs \union {NoMsg}]

(* MsgQ_Create: all places free. *)
Init ==
  /\ sendLamps = MaxMsgs
  /\ recvLamps = 0
  /\ buf = [i \in Slots |-> NoMsg]
  /\ MsgUsed = 0
  /\ ReadOffset = 0
  /\ pc = [t \in Threads |-> "out"]
  /\ sending = [t \in Threads |-> NoMsg]
  /\ received = [t \in Threads |-> NoMsg]

At(place) == {t \in Threads : pc[t] = place}

Goto(t, place) == pc' = [pc EXCEPT ![t] = place]
--------------------------------------------------------------------------------
(* Mutant: MsgUsed is tested instead of pending on MsgSendSemp. *)
SendPendTestsMsgUsed(t, m, wait, copy) ==
  /\ pc[t] = "out"
  /\ sending' = [sending EXCEPT ![t] = m]
  /\ Goto(t, IF MsgUsed < MaxMsgs THEN copy ELSE wait)
  /\ UNCHANGED <<sendLamps, recvLamps, buf, MsgUsed, ReadOffset, received>>

(* MsgQ_Send: the pend of a free place, for a normal or an urgent message. *)
(* Without a lamp and with timeout 0 nothing changes and it returns false.  *)
SendPend(t, m, wait, copy) ==
  /\ pc[t] = "out"
  /\ sending' = [sending EXCEPT ![t] = m]
  /\ IF sendLamps > 0
     THEN sendLamps' = sendLamps - 1 /\ Goto(t, copy)
     ELSE UNCHANGED sendLamps /\ Goto(t, wait)
  /\ UNCHANGED <<recvLamps, buf, MsgUsed, ReadOffset, received>>

(* Mutant: a lamp that was never taken is given back. *)
SendTimeoutPosts(t) ==
  /\ pc[t] \in {"send_wait", "urgent_wait"}
  /\ Goto(t, "out")
  /\ sending' = [sending EXCEPT ![t] = NoMsg]
  /\ sendLamps' = sendLamps + 1
  /\ UNCHANGED <<recvLamps, buf, MsgUsed, ReadOffset, received>>

(* The pend times out: MsgQ_Send returns false. *)
SendTimeout(t) ==
  /\ pc[t] \in {"send_wait", "urgent_wait"}
  /\ Goto(t, "out")
  /\ sending' = [sending EXCEPT ![t] = NoMsg]
  /\ UNCHANGED <<sendLamps, recvLamps, buf, MsgUsed, ReadOffset, received>>

(* Mutant: the end of the buffer is missed by one. *)
TailSlotOffByOne == IF MsgUsed + ReadOffset > MaxMsgs
                    THEN MsgUsed + ReadOffset - MaxMsgs
                    ELSE MsgUsed + ReadOffset

(* Where a message goes: MsgUsed places behind the one to be read next. *)
TailSlot == IF MsgUsed + ReadOffset >= MaxMsgs
            THEN MsgUsed + ReadOffset - MaxMsgs
            ELSE MsgUsed + ReadOffset

(* The place in front of the one to be read next. *)
HeadSlot == IF ReadOffset = 0 THEN MaxMsgs - 1 ELSE ReadOffset - 1

(* The atomic copy of a normal message. *)
SendCopy(t) ==
  /\ pc[t] = "send_copy"
  /\ buf' = [buf EXCEPT ![TailSlot] = sending[t]]
  /\ MsgUsed' = MsgUsed + 1
  /\ sending' = [sending EXCEPT ![t] = NoMsg]
  /\ Goto(t, "send_post")
  /\ UNCHANGED <<sendLamps, recvLamps, ReadOffset, received>>

(* The atomic copy of an urgent message: the read position moves back. *)
UrgentCopy(t) ==
  /\ pc[t] = "urgent_copy"
  /\ buf' = [buf EXCEPT ![HeadSlot] = sending[t]]
  /\ ReadOffset' = HeadSlot
  /\ MsgUsed' = MsgUsed + 1
  /\ sending' = [sending EXCEPT ![t] = NoMsg]
  /\ Goto(t, "send_post")
  /\ UNCHANGED <<sendLamps, recvLamps, received>>

(* Mutant: the post only lights a lamp. *)
SendPostToCounter(t) ==
  /\ pc[t] = "send_post"
  /\ recvLamps' = recvLamps + 1
  /\ Goto(t, "out")
  /\ UNCHANGED <<sendLamps, buf, MsgUsed, ReadOffset, sending, received>>

(* Mutant: the post is forgotten. *)
SendPostForgotten(t) ==
  /\ pc[t] = "send_post"
  /\ Goto(t, "out")
  /\ UNCHANGED <<sendLamps, recvLamps, buf, MsgUsed, ReadOffset, sending, received>>

(* Lock_SempPost(MsgRecvSemp): to a waiting receiver, else to the counter. *)
SendPost(t) ==
  /\ pc[t] = "send_post"
  /\ \/ /\ At("recv_wait") = {}
        /\ recvLamps' = IF recvLamps < MaxMsgs THEN recvLamps + 1 ELSE recvLamps
        /\ Goto(t, "out")
     \/ \E r \in At("recv_wait") :
          /\ pc' = [pc EXCEPT ![t] = "out", ![r] = "recv_copy"]
          /\ UNCHANGED recvLamps
  /\ UNCHANGED <<sendLamps, buf, MsgUsed, ReadOffset, sending, received>>
--------------------------------------------------------------------------------
(* MsgQ_Receive: the pend of a message. *)
RecvPend(t) ==
  /\ pc[t] = "out"
  /\ received' = [received EXCEPT ![t] = NoMsg]
  /\ IF recvLamps > 0
     THEN recvLamps' = recvLamps - 1 /\ Goto(t, "recv_copy")
     ELSE UNCHANGED recvLamps /\ Goto(t, "recv_wait")
  /\ UNCHANGED <<sendLamps, buf, MsgUsed, ReadOffset, sending>>

RecvTimeout(t) ==
  /\ pc[t] = "recv_wait"
  /\ Goto(t, "out")
  /\ UNCHANGED <<sendLamps, recvLamps, buf, MsgUsed, ReadOffset, sending, received>>

(* Mutant: the read position wraps one place too late. *)
RecvCopyWrapsLate(t) ==
  /\ pc[t] = "recv_copy"
  /\ received' = [received EXCEPT ![t] = buf[ReadOffset]]
  /\ MsgUsed' = MsgUsed - 1
  /\ ReadOffset' = IF ReadOffset >= MaxMsgs THEN 0 ELSE ReadOffset + 1
  /\ Goto(t, "recv_post")
  /\ UNCHANGED <<sendLamps, recvLamps, buf, sending>>

(* The atomic copy out of the buffer. *)
RecvCopy(t) ==
  /\ pc[t] = "recv_copy"
  /\ received' = [received EXCEPT ![t] = buf[ReadOffset]]
  /\ MsgUsed' = MsgUsed - 1
  /\ ReadOffset' = IF ReadOffset >= MaxMsgs - 1 THEN 0 ELSE ReadOffset + 1
  /\ Goto(t, "recv_post")
  /\ UNCHANGED <<sendLamps, recvLamps, buf, sending>>

(* Lock_SempPost(MsgSendSemp): to a waiting sender, else to the counter. *)
RecvPost(t) ==
  /\ pc[t] = "recv_post"
  /\ \/ /\ At("send_wait") \union At("urgent_wait") = {}
        /\ sendLamps' = IF sendLamps < MaxMsgs THEN sendLamps + 1 ELSE sendLamps
        /\ Goto(t, "out")
     \/ \E s \in At("send_wait") :
          /\ pc' = [pc EXCEPT ![t] = "out", ![s] = "send_copy"]
          /\ UNCHANGED sendLamps
     \/ \E s \in At("urgent_wait") :
          /\ pc' = [pc EXCEPT ![t] = "out", ![s] = "urgent_copy"]
          /\ UNCHANGED sendLamps
  /\ UNCHANGED <<recvLamps, buf, MsgUsed, ReadOffset, sending, received>>
--------------------------------------------------------------------------------
Next ==
  \E t \in Threads :
    \/ \E m \in Msgs : SendPend(t, m, "send_wait", "send_copy")
    \/ \E m \in Msgs : SendPend(t, m, "urgent_wait", "urgent_copy")
    \/ SendTimeout(t)
    \/ SendCopy(t) \/ UrgentCopy(t)
    \/ SendPost(t)
    \/ RecvPend(t) \/ RecvTimeout(t)
    \/ RecvCopy(t)
    \/ RecvPost(t)

Spec == Init /\ [][Next]_vars

(***************************************************************************)
(* A thread that is not blocked gets on with its copies and posts: the     *)
(* application leaves every event some processor time.  Nothing is assumed *)
(* of timeouts or of threads starting a call.                              *)
(***************************************************************************)
Fairness ==
  \A t \in Threads :
    /\ WF_vars(SendCopy(t)) /\ WF_vars(UrgentCopy(t)) /\ WF_vars(SendPost(t))
    /\ WF_vars(RecvCopy(t)) /\ WF_vars(RecvPost(t))

FairSpec == Spec /\ Fairness
--------------------------------------------------------------------------------
Count(place) == Cardinality(At(place))

(***************************************************************************)
(* Every place of the buffer is accounted for by exactly one lamp, message  *)
(* or thread between two critical sections.                                 *)
(***************************************************************************)
Conservation ==
  /\ MsgUsed = recvLamps + Count("send_post") + Count("recv_copy")
  /\ sendLamps + Count("send_copy") + Count("urgent_copy") + MsgUsed + Count("recv_post")
       = MaxMsgs

(***************************************************************************)
(* No thread copies into a full buffer or out of an empty one, whatever     *)
(* happened between its pend and its copy; MsgUsed neither exceeds the      *)
(* capacity nor wraps below 0.                                              *)
(***************************************************************************)
NoOverrun ==
  /\ MsgUsed \in 0..MaxMsgs
  /\ \A t \in Threads :
       /\ pc[t] \in {"send_copy", "urgent_copy"} => MsgUsed < MaxMsgs
       /\ pc[t] = "recv_copy" => MsgUsed > 0

(***************************************************************************)
(* No lost wake-up: a thread waits only while there is no lamp for it, so a *)
(* message in the buffer of a waiting receiver is still being handed over.  *)
(***************************************************************************)
NobodyForgotten ==
  /\ At("recv_wait") # {} => recvLamps = 0
  /\ At("send_wait") \union At("urgent_wait") # {} => sendLamps = 0

(***************************************************************************)
(* A receiver does not sit beside a message for ever.                       *)
(***************************************************************************)
MessageIsNoticed ==
  (MsgUsed > 0 /\ At("recv_wait") # {}) ~> (MsgUsed = 0 \/ At("recv_wait") = {}
                                            \/ At("recv_copy") # {})

(* Position i of the queue, counted from 0 at the next message to be read. *)
SlotOf(i) == IF ReadOffset + i >= MaxMsgs THEN ReadOffset + i - MaxMsgs ELSE ReadOffset + i

(* The bounded queue of whole messages that the buffer represents. *)
Content == [i \in 1..MsgUsed |-> buf[SlotOf(i - 1)]]

Deque == INSTANCE MsgDeque WITH content <- Content

(***************************************************************************)
(* The queue delivers every message once, normal messages in the order of   *)
(* their copies, urgent ones first.                                         *)
(***************************************************************************)
ImplementsDeque == Deque!DequeSpec
================================================================================
