-------------------------------- MODULE MsgDeque -------------------------------
(***************************************************************************)
(* What a message queue promises its users: a bounded queue of whole       *)
(* messages.  A normal message goes to the tail, an urgent one to the      *)
(* head, a receiver gets the head; every message sent is delivered once.   *)
(***************************************************************************)
EXTENDS Naturals, Sequences

CONSTANTS Threads, Msgs, MaxMsgs, NoMsg

VARIABLES
  content,    \* the messages in the queue, the next one to deliver first
  sending,    \* the message a thread has been admitted to send, or NoMsg
  received    \* the message a thread got from its last receive, or NoMsg

dequeVars == <<content, sending, received>>

DequeInit ==
  /\ content = << >>
  /\ sending = [t \in Threads |-> NoMsg]
  /\ received = [t \in Threads |-> NoMsg]

(* A thread announces, or gives up (a timeout), the sending of a message. *)
Announce(t, m) ==
  /\ sending' = [sending EXCEPT ![t] = m]
  /\ UNCHANGED <<content, received>>

PutTail(t) ==
  /\ sending[t] # NoMsg /\ Len(content) < MaxMsgs
  /\ content' = Append(content, sending[t])
  /\ sending' = [sending EXCEPT ![t] = NoMsg]
  /\ UNCHANGED received

PutHead(t) ==
  /\ sending[t] # NoMsg /\ Len(content) < MaxMsgs
  /\ content' = <<sending[t]>> \o content
  /\ sending' = [sending EXCEPT ![t] = NoMsg]
  /\ UNCHANGED received

Get(t) ==
  /\ content # << >>
  /\ content' = Tail(content)
  /\ received' = [received EXCEPT ![t] = Head(content)]
  /\ UNCHANGED sending

(* A thread starts a new receive. *)
Forget(t) ==
  /\ received' = [received EXCEPT ![t] = NoMsg]
  /\ UNCHANGED <<content, sending>>

DequeNext ==
  \E t \in Threads :
    \/ \E m \in Msgs \union {NoMsg} : Announce(t, m)
    \/ PutTail(t) \/ PutHead(t) \/ Get(t) \/ Forget(t)

DequeSpec == DequeInit /\ [][DequeNext]_dequeVars
================================================================================
