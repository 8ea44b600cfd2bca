----------------------------- MODULE MsgQueueProofs ----------------------------
(***************************************************************************)
(* The message queue is correct for any number of threads, any set of      *)
(* messages and any capacity.                                              *)
(***************************************************************************)
EXTENDS MsgQueue, FiniteSetTheorems, SequenceTheorems, TLAPS

(* How many threads are at place p when their places are f. *)
Threads_at(f, p) == {t \in Threads : f[t] = p}
Number(f, p) == Cardinality(Threads_at(f, p))

(* The number of threads at a place is a natural number. *)
LEMMA NumberType ==
  ASSUME NEW f, NEW p
  PROVE  /\ IsFiniteSet(Threads_at(f, p))
         /\ Number(f, p) \in Nat
<1>1. IsFiniteSet(Threads_at(f, p))
  BY MsgQAssumption, FS_Subset DEF Threads_at, MsgQAssumption
<1> QED
  BY <1>1, FS_CardinalityType DEF Number

(* From the places f to the places g thread t has moved to place q. *)
Moves(f, g, t, q) ==
  /\ f \in [Threads -> Places] /\ g = [f EXCEPT ![t] = q]
  /\ t \in Threads /\ q \in Places /\ f[t] # q

(* A thread that moves is counted where it goes and no longer where it was. *)
LEMMA Move ==
  ASSUME NEW f, NEW g, NEW t, NEW q, Moves(f, g, t, q), NEW p
  PROVE  /\ p = q => Number(g, p) = Number(f, p) + 1
         /\ p = f[t] => Number(g, p) = Number(f, p) - 1 /\ Number(f, p) > 0
         /\ p # q /\ p # f[t] => Number(g, p) = Number(f, p)
<1> USE DEF Moves
<1>1. CASE p = q
  <2>1. t \notin Threads_at(f, p)
    BY <1>1 DEF Threads_at
  <2>2. Threads_at(g, p) = Threads_at(f, p) \union {t}
    BY <1>1 DEF Threads_at
  <2>3. Number(g, p) = Number(f, p) + 1
    BY <2>1, <2>2, NumberType, FS_AddElement DEF Number
  <2> QED
    BY <1>1, <2>3
<1>2. CASE p = f[t]
  <2>1. t \in Threads_at(f, p)
    BY <1>2 DEF Threads_at
  <2>2. Threads_at(g, p) = Threads_at(f, p) \ {t}
    BY <1>2 DEF Threads_at
  <2>3. Number(g, p) = Number(f, p) - 1
    BY ZenonT(60), <2>1, <2>2, NumberType, FS_RemoveElement DEF Number
  <2>4. Number(g, p) \in Nat /\ Number(f, p) \in Nat
    BY NumberType
  <2> QED
    BY <1>2, <2>3, <2>4
<1>3. CASE p # q /\ p # f[t]
  <2>1. Threads_at(g, p) = Threads_at(f, p)
    BY <1>3 DEF Threads_at
  <2> QED
    BY <1>3, <2>1 DEF Number
<1> QED
  BY <1>1, <1>2, <1>3
--------------------------------------------------------------------------------
(***************************************************************************)
(* The inductive invariant.  TypeOK alone is not inductive: that MsgUsed   *)
(* stays a natural number and the lamps within the capacity follows from   *)
(* the accounting of Conservation, which says that a thread about to copy  *)
(* has a lamp of its own.  A sender carries its message until the copy.    *)
(***************************************************************************)
SenderHasMessage ==
  \A t \in Threads :
    pc[t] \in {"send_wait", "send_copy", "urgent_wait", "urgent_copy"} => sending[t] \in Msgs

IInv == TypeOK /\ Conservation /\ NobodyForgotten /\ SenderHasMessage

(* The places Conservation counts, for any assignment f of places. *)
Accounts(f, sl, rl, used) ==
  /\ used = rl + Number(f, "send_post") + Number(f, "recv_copy")
  /\ sl + Number(f, "send_copy") + Number(f, "urgent_copy") + used + Number(f, "recv_post")
       = MaxMsgs

(* Conservation in terms of the lemmas' counting function. *)
LEMMA ConservationIsAccounts ==
  /\ Conservation <=> Accounts(pc, sendLamps, recvLamps, MsgUsed)
  /\ Conservation' <=> Accounts(pc', sendLamps', recvLamps', MsgUsed')
  BY DEF Conservation, Accounts, Count, At, Number, Threads_at

(* Initially every place of the buffer is a lamp of MsgSendSemp. *)
LEMMA InitIInv == Init => IInv
<1> SUFFICES ASSUME Init PROVE IInv
  OBVIOUS
<1>1. TypeOK
  BY MsgQAssumption DEF Init, TypeOK, Slots, Places, MsgQAssumption
<1>2. \A p \in Places \ {"out"} : At(p) = {}
  BY DEF Init, At
<1>3. \A p \in Places \ {"out"} : Count(p) = 0
  BY <1>2, FS_EmptySet DEF Count
<1>4. Conservation
  BY <1>3, MsgQAssumption DEF Init, Conservation, Places, MsgQAssumption
<1>5. NobodyForgotten
  BY <1>2 DEF NobodyForgotten, Places
<1>6. SenderHasMessage
  BY DEF Init, SenderHasMessage
<1> QED
  BY <1>1, <1>4, <1>5, <1>6 DEF IInv

(* MsgQ_Send begins: it takes a lamp or waits. *)
LEMMA SendPendIInv ==
  ASSUME IInv, NEW t \in Threads, NEW m \in Msgs,
         NEW wait, NEW copy,
         <<wait, copy>> \in {<<"send_wait", "send_copy">>, <<"urgent_wait", "urgent_copy">>},
         SendPend(t, m, wait, copy)
  PROVE  IInv'
<1> USE DEF IInv
<1>0. /\ wait \in {"send_wait", "urgent_wait"} /\ copy \in {"send_copy", "urgent_copy"}
      /\ wait \in Places /\ copy \in Places
  BY DEF Places
<1>1. CASE sendLamps > 0
  <2>1. sendLamps' = sendLamps - 1 /\ pc' = [pc EXCEPT ![t] = copy] /\ pc[t] = "out"
    BY <1>1 DEF SendPend, Goto
  <2>2. TypeOK'
    BY <1>0, <1>1, <2>1, MsgQAssumption DEF TypeOK, SendPend, MsgQAssumption
  <2>3. \A p \in Places : /\ Number(pc, p) \in Nat
                          /\ p = copy => Number(pc', p) = Number(pc, p) + 1
                          /\ p # copy /\ p # "out" => Number(pc', p) = Number(pc, p)
    <3>1. Moves(pc, pc', t, copy)
      BY <1>0, <2>1 DEF Moves, TypeOK
    <3> QED
      BY <2>1, <3>1, Move, NumberType
  <2>4. Conservation'
    BY <1>0, <2>1, <2>3, ConservationIsAccounts, MsgQAssumption
       DEF Accounts, SendPend, TypeOK, Places, MsgQAssumption
  <2>5. NobodyForgotten'
    BY <1>0, <1>1, <2>1 DEF NobodyForgotten, At, SendPend, TypeOK
  <2>6. SenderHasMessage'
    BY <1>0, <2>1 DEF SenderHasMessage, SendPend, TypeOK
  <2> QED
    BY <2>2, <2>4, <2>5, <2>6
<1>2. CASE ~(sendLamps > 0)
  <2>1. sendLamps' = sendLamps /\ pc' = [pc EXCEPT ![t] = wait] /\ pc[t] = "out"
    BY <1>2 DEF SendPend, Goto
  <2>2. TypeOK'
    BY <1>0, <2>1 DEF TypeOK, SendPend
  <2>3. \A p \in Places \ {"out", wait} : Number(pc', p) = Number(pc, p)
    <3>1. Moves(pc, pc', t, wait)
      BY <1>0, <2>1 DEF Moves, TypeOK
    <3> QED
      BY <2>1, <3>1, Move
  <2>4. Conservation'
    BY <1>0, <2>1, <2>3, ConservationIsAccounts DEF Accounts, SendPend, Places
  <2>5. NobodyForgotten'
    BY <1>0, <1>2, <2>1, MsgQAssumption DEF NobodyForgotten, At, SendPend, TypeOK, MsgQAssumption
  <2>6. SenderHasMessage'
    BY <1>0, <2>1 DEF SenderHasMessage, SendPend, TypeOK
  <2> QED
    BY <2>2, <2>4, <2>5, <2>6
<1> QED
  BY <1>1, <1>2

(* A thread whose pend times out takes nothing with it. *)
LEMMA TimeoutIInv ==
  ASSUME IInv, NEW t \in Threads, SendTimeout(t) \/ RecvTimeout(t)
  PROVE  IInv'
<1> USE DEF IInv
<1>1. /\ pc' = [pc EXCEPT ![t] = "out"] /\ pc[t] \in {"send_wait", "urgent_wait", "recv_wait"}
      /\ UNCHANGED <<sendLamps, recvLamps, buf, MsgUsed, ReadOffset, received>>
      /\ sending' = sending \/ sending' = [sending EXCEPT ![t] = NoMsg]
  BY DEF SendTimeout, RecvTimeout, Goto
<1>2. TypeOK'
  BY <1>1 DEF TypeOK, Places
<1>3. \A p \in Places \ {"out", "send_wait", "urgent_wait", "recv_wait"} :
        Number(pc', p) = Number(pc, p)
  <2>1. Moves(pc, pc', t, "out")
    BY <1>1 DEF TypeOK, Places, Moves
  <2> QED
    BY <1>1, <2>1, Move
<1>4. Conservation'
  BY <1>1, <1>3, ConservationIsAccounts DEF Accounts, Places
<1>5. NobodyForgotten'
  BY <1>1 DEF NobodyForgotten, At, TypeOK
<1>6. SenderHasMessage'
  BY <1>1 DEF SenderHasMessage, TypeOK
<1> QED
  BY <1>2, <1>4, <1>5, <1>6

(* A sender about to copy finds a free place, and fills it. *)
LEMMA CopyInIInv ==
  ASSUME IInv, NEW t \in Threads, SendCopy(t) \/ UrgentCopy(t)
  PROVE  IInv'
<1> USE DEF IInv
<1>1. /\ pc' = [pc EXCEPT ![t] = "send_post"] /\ pc[t] \in {"send_copy", "urgent_copy"}
      /\ MsgUsed' = MsgUsed + 1 /\ sending' = [sending EXCEPT ![t] = NoMsg]
      /\ UNCHANGED <<sendLamps, recvLamps, received>>
  BY DEF SendCopy, UrgentCopy, Goto
<1>2. TypeOK'
  <2>1. HeadSlot \in Slots
    BY MsgQAssumption DEF HeadSlot, Slots, TypeOK, MsgQAssumption
  <2>2. buf' \in [Slots -> Msgs \union {NoMsg}] /\ ReadOffset' \in Slots
    BY <2>1 DEF SendCopy, UrgentCopy, TypeOK
  <2> QED
    BY <1>1, <2>2 DEF TypeOK, Places
<1>3. \A p \in Places : /\ Number(pc, p) \in Nat
                        /\ p = "send_post" => Number(pc', p) = Number(pc, p) + 1
                        /\ p = pc[t] => Number(pc', p) = Number(pc, p) - 1
                        /\ p # "send_post" /\ p # pc[t] => Number(pc', p) = Number(pc, p)
  <2>1. Moves(pc, pc', t, "send_post")
    BY <1>1 DEF TypeOK, Places, Moves
  <2> QED
    BY <1>1, <2>1, Move, NumberType
<1>4. Conservation'
  BY <1>1, <1>3, ConservationIsAccounts, MsgQAssumption
     DEF Accounts, Places, TypeOK, MsgQAssumption
<1>5. NobodyForgotten'
  BY <1>1 DEF NobodyForgotten, At, TypeOK
<1>6. SenderHasMessage'
  BY <1>1 DEF SenderHasMessage, TypeOK
<1> QED
  BY <1>2, <1>4, <1>5, <1>6

(* A receiver about to copy finds a message, and takes it. *)
LEMMA CopyOutIInv ==
  ASSUME IInv, NEW t \in Threads, RecvCopy(t)
  PROVE  IInv'
<1> USE DEF IInv
<1>1. /\ pc' = [pc EXCEPT ![t] = "recv_post"] /\ pc[t] = "recv_copy"
      /\ MsgUsed' = MsgUsed - 1
      /\ UNCHANGED <<sendLamps, recvLamps, buf, sending>>
  BY DEF RecvCopy, Goto
<1>2. \A p \in Places : /\ Number(pc, p) \in Nat
                        /\ p = "recv_post" => Number(pc', p) = Number(pc, p) + 1
                        /\ p = "recv_copy" => /\ Number(pc', p) = Number(pc, p) - 1
                                              /\ Number(pc, p) > 0
                        /\ p # "recv_post" /\ p # "recv_copy" => Number(pc', p) = Number(pc, p)
  <2>1. Moves(pc, pc', t, "recv_post")
    BY <1>1 DEF TypeOK, Places, Moves
  <2> QED
    BY <1>1, <2>1, Move, NumberType
<1>3. MsgUsed > 0
  BY <1>2, ConservationIsAccounts DEF Accounts, Places, TypeOK
<1>4. TypeOK'
  <2>1. ReadOffset' \in Slots
    BY MsgQAssumption DEF RecvCopy, Slots, TypeOK, MsgQAssumption
  <2>2. received' \in [Threads -> Msgs \union {NoMsg}]
    BY DEF RecvCopy, TypeOK
  <2>3. MsgUsed' \in Nat
    BY <1>1, <1>3 DEF TypeOK
  <2>4. pc' \in [Threads -> Places]
    BY <1>1 DEF TypeOK, Places
  <2> QED
    BY <1>1, <2>1, <2>2, <2>3, <2>4 DEF TypeOK
<1>5. Conservation'
  BY <1>1, <1>2, ConservationIsAccounts, MsgQAssumption
     DEF Accounts, Places, TypeOK, MsgQAssumption
<1>6. NobodyForgotten'
  BY <1>1 DEF NobodyForgotten, At, TypeOK
<1>7. SenderHasMessage'
  BY <1>1 DEF SenderHasMessage, TypeOK
<1> QED
  BY <1>4, <1>5, <1>6, <1>7

(* MsgQ_Receive begins: it takes a lamp or waits. *)
LEMMA RecvPendIInv ==
  ASSUME IInv, NEW t \in Threads, RecvPend(t)
  PROVE  IInv'
<1> USE DEF IInv
<1>0. pc \in [Threads -> Places] /\ "recv_copy" \in Places /\ "recv_wait" \in Places
  BY DEF TypeOK, Places
<1>1. CASE recvLamps > 0
  <2>1. recvLamps' = recvLamps - 1 /\ pc' = [pc EXCEPT ![t] = "recv_copy"] /\ pc[t] = "out"
    BY <1>1 DEF RecvPend, Goto
  <2>2. TypeOK'
    BY <1>0, <1>1, <2>1, MsgQAssumption DEF TypeOK, RecvPend, MsgQAssumption
  <2>3. \A p \in Places : /\ Number(pc, p) \in Nat
                          /\ p = "recv_copy" => Number(pc', p) = Number(pc, p) + 1
                          /\ p # "recv_copy" /\ p # "out" => Number(pc', p) = Number(pc, p)
    <3>1. Moves(pc, pc', t, "recv_copy")
      BY <1>0, <2>1 DEF Moves
    <3> QED
      BY <1>0, <2>1, <3>1, Move, NumberType
  <2>4. Conservation'
    BY <2>1, <2>3, ConservationIsAccounts, MsgQAssumption
       DEF Accounts, RecvPend, TypeOK, Places, MsgQAssumption
  <2>5. NobodyForgotten'
    BY <1>1, <2>1 DEF NobodyForgotten, At, RecvPend, TypeOK
  <2>6. SenderHasMessage'
    BY <2>1 DEF SenderHasMessage, RecvPend, TypeOK
  <2> QED
    BY <2>2, <2>4, <2>5, <2>6
<1>2. CASE ~(recvLamps > 0)
  <2>1. recvLamps' = recvLamps /\ pc' = [pc EXCEPT ![t] = "recv_wait"] /\ pc[t] = "out"
    BY <1>2 DEF RecvPend, Goto
  <2>2. TypeOK'
    BY <1>0, <2>1 DEF TypeOK, RecvPend
  <2>3. \A p \in Places \ {"out", "recv_wait"} : Number(pc', p) = Number(pc, p)
    <3>1. Moves(pc, pc', t, "recv_wait")
      BY <1>0, <2>1 DEF Moves
    <3> QED
      BY <1>0, <2>1, <3>1, Move
  <2>4. Conservation'
    BY <2>1, <2>3, ConservationIsAccounts DEF Accounts, RecvPend, Places
  <2>5. NobodyForgotten'
    BY <1>2, <2>1, MsgQAssumption DEF NobodyForgotten, At, RecvPend, TypeOK, MsgQAssumption
  <2>6. SenderHasMessage'
    BY <2>1 DEF SenderHasMessage, RecvPend, TypeOK
  <2> QED
    BY <2>2, <2>4, <2>5, <2>6
<1> QED
  BY <1>1, <1>2

(* From the places f to the places g thread t left for "out", r for copy. *)
HandsOver(f, g, t, r, copy) ==
  /\ f \in [Threads -> Places] /\ t \in Threads /\ r \in Threads /\ t # r
  /\ copy \in Places \ {"out"} /\ f[t] \notin {"out", copy, f[r]} /\ f[r] \notin {"out", copy}
  /\ g = [f EXCEPT ![t] = "out", ![r] = copy]

(***************************************************************************)
(* A post with a waiter: the poster leaves place from and the waiter goes  *)
(* from place wait to place copy, the lamp passing between them.           *)
(***************************************************************************)
LEMMA HandOver ==
  ASSUME NEW f, NEW g, NEW t, NEW r, NEW copy, HandsOver(f, g, t, r, copy), NEW p, p # "out"
  PROVE  /\ p = copy => Number(g, p) = Number(f, p) + 1
         /\ p = f[t] => Number(g, p) = Number(f, p) - 1
         /\ p # copy /\ p # f[t] /\ p # f[r] => Number(g, p) = Number(f, p)
<1> DEFINE h == [f EXCEPT ![t] = "out"]
<1>1. /\ Moves(f, h, t, "out") /\ Moves(h, g, r, copy)
      /\ h[r] = f[r] /\ f[t] # copy /\ f[t] # f[r]
  BY DEF HandsOver, Moves, Places
<1> HIDE DEF h
<1>2. /\ p = f[t] => Number(h, p) = Number(f, p) - 1
      /\ p # f[t] => Number(h, p) = Number(f, p)
  BY <1>1, Move
<1>3. /\ p = copy => Number(g, p) = Number(h, p) + 1
      /\ p # copy /\ p # f[r] => Number(g, p) = Number(h, p)
  BY <1>1, Move
<1> QED
  BY <1>1, <1>2, <1>3

(* The post of MsgQ_Send: to a waiting receiver, else to the counter. *)
LEMMA SendPostIInv ==
  ASSUME IInv, NEW t \in Threads, SendPost(t)
  PROVE  IInv'
<1> USE DEF IInv
<1>0. /\ pc \in [Threads -> Places] /\ "out" \in Places /\ "recv_copy" \in Places
      /\ pc[t] = "send_post"
      /\ UNCHANGED <<sendLamps, buf, MsgUsed, ReadOffset, sending, received>>
  BY DEF TypeOK, Places, SendPost
<1>a. \A p \in Places : Number(pc, p) \in Nat
  BY NumberType
<1>1. CASE /\ At("recv_wait") = {}
           /\ recvLamps' = IF recvLamps < MaxMsgs THEN recvLamps + 1 ELSE recvLamps
           /\ Goto(t, "out")
  <2>1. pc' = [pc EXCEPT ![t] = "out"]
    BY <1>1 DEF Goto
  <2>2. TypeOK'
    BY <1>0, <1>1, <2>1, MsgQAssumption DEF TypeOK, MsgQAssumption
  <2>3. \A p \in Places : /\ p = "send_post" => /\ Number(pc', p) = Number(pc, p) - 1
                                                /\ Number(pc, p) > 0
                          /\ p # "send_post" /\ p # "out" => Number(pc', p) = Number(pc, p)
    <3>1. Moves(pc, pc', t, "out")
      BY <1>0, <2>1 DEF Moves
    <3> QED
      BY <1>0, <2>1, <3>1, Move
  <2>4. recvLamps < MaxMsgs
    BY <1>a, <2>3, ConservationIsAccounts, MsgQAssumption
       DEF Accounts, TypeOK, Places, MsgQAssumption
  <2>5. Conservation'
    BY <1>0, <1>1, <1>a, <2>3, <2>4, ConservationIsAccounts, MsgQAssumption
       DEF Accounts, TypeOK, Places, MsgQAssumption
  <2>6. NobodyForgotten'
    BY <1>0, <1>1, <2>1 DEF NobodyForgotten, At, TypeOK
  <2>7. SenderHasMessage'
    BY <1>0, <2>1 DEF SenderHasMessage, TypeOK
  <2> QED
    BY <2>2, <2>5, <2>6, <2>7
<1>2. CASE \E r \in At("recv_wait") :
             /\ pc' = [pc EXCEPT ![t] = "out", ![r] = "recv_copy"]
             /\ UNCHANGED recvLamps
  <2>1. PICK r \in Threads : /\ pc[r] = "recv_wait" /\ UNCHANGED recvLamps
                             /\ pc' = [pc EXCEPT ![t] = "out", ![r] = "recv_copy"]
    BY <1>2 DEF At
  <2>2. TypeOK'
    BY <1>0, <2>1 DEF TypeOK
  <2>3. \A p \in Places \ {"out"} :
          /\ p = "recv_copy" => Number(pc', p) = Number(pc, p) + 1
          /\ p = "send_post" => Number(pc', p) = Number(pc, p) - 1
          /\ p \notin {"recv_copy", "send_post", "recv_wait"} => Number(pc', p) = Number(pc, p)
    <3>1. HandsOver(pc, pc', t, r, "recv_copy")
      BY <1>0, <2>1 DEF HandsOver
    <3> QED
      BY <1>0, <2>1, <3>1, HandOver
  <2>5. Conservation'
    BY <1>0, <1>a, <2>1, <2>3, ConservationIsAccounts, MsgQAssumption
       DEF Accounts, TypeOK, Places, MsgQAssumption
  <2>6. NobodyForgotten'
    BY <1>0, <2>1 DEF NobodyForgotten, At, TypeOK
  <2>7. SenderHasMessage'
    BY <1>0, <2>1 DEF SenderHasMessage, TypeOK
  <2> QED
    BY <2>2, <2>5, <2>6, <2>7
<1> QED
  BY <1>1, <1>2 DEF SendPost

(* The post of MsgQ_Receive: to a waiting sender, else to the counter. *)
LEMMA RecvPostIInv ==
  ASSUME IInv, NEW t \in Threads, RecvPost(t)
  PROVE  IInv'
<1> USE DEF IInv
<1>0. /\ pc \in [Threads -> Places] /\ "out" \in Places
      /\ "send_copy" \in Places /\ "urgent_copy" \in Places
      /\ pc[t] = "recv_post"
      /\ UNCHANGED <<recvLamps, buf, MsgUsed, ReadOffset, sending, received>>
  BY DEF TypeOK, Places, RecvPost
<1>a. \A p \in Places : Number(pc, p) \in Nat
  BY NumberType
<1>1. CASE /\ At("send_wait") \union At("urgent_wait") = {}
           /\ sendLamps' = IF sendLamps < MaxMsgs THEN sendLamps + 1 ELSE sendLamps
           /\ Goto(t, "out")
  <2>1. pc' = [pc EXCEPT ![t] = "out"]
    BY <1>1 DEF Goto
  <2>2. TypeOK'
    BY <1>0, <1>1, <2>1, MsgQAssumption DEF TypeOK, MsgQAssumption
  <2>3. \A p \in Places : /\ p = "recv_post" => /\ Number(pc', p) = Number(pc, p) - 1
                                                /\ Number(pc, p) > 0
                          /\ p # "recv_post" /\ p # "out" => Number(pc', p) = Number(pc, p)
    <3>1. Moves(pc, pc', t, "out")
      BY <1>0, <2>1 DEF Moves
    <3> QED
      BY <1>0, <2>1, <3>1, Move
  <2>4. sendLamps < MaxMsgs
    BY <1>a, <2>3, ConservationIsAccounts, MsgQAssumption
       DEF Accounts, TypeOK, Places, MsgQAssumption
  <2>5. Conservation'
    BY <1>0, <1>1, <1>a, <2>3, <2>4, ConservationIsAccounts, MsgQAssumption
       DEF Accounts, TypeOK, Places, MsgQAssumption
  <2>6. NobodyForgotten'
    BY <1>0, <1>1, <2>1 DEF NobodyForgotten, At, TypeOK
  <2>7. SenderHasMessage'
    BY <1>0, <2>1 DEF SenderHasMessage, TypeOK
  <2> QED
    BY <2>2, <2>5, <2>6, <2>7
<1>2. ASSUME NEW wait, NEW copy,
             \/ wait = "send_wait" /\ copy = "send_copy"
             \/ wait = "urgent_wait" /\ copy = "urgent_copy",
             \E s \in At(wait) : /\ pc' = [pc EXCEPT ![t] = "out", ![s] = copy]
                                 /\ UNCHANGED sendLamps
      PROVE  IInv'
  <2>0. /\ \/ wait = "send_wait" /\ copy = "send_copy"
           \/ wait = "urgent_wait" /\ copy = "urgent_copy"
        /\ copy \in Places
    BY <1>2, <1>0
  <2>1. PICK s \in Threads : /\ pc[s] = wait /\ UNCHANGED sendLamps
                             /\ pc' = [pc EXCEPT ![t] = "out", ![s] = copy]
    BY <1>2 DEF At
  <2>2. TypeOK'
    BY <1>0, <2>0, <2>1 DEF TypeOK
  <2>3. \A p \in Places \ {"out"} :
          /\ p = copy => Number(pc', p) = Number(pc, p) + 1
          /\ p = "recv_post" => Number(pc', p) = Number(pc, p) - 1
          /\ p \notin {copy, "recv_post", wait} => Number(pc', p) = Number(pc, p)
    <3>1. HandsOver(pc, pc', t, s, copy)
      BY <1>0, <2>0, <2>1 DEF HandsOver
    <3> QED
      BY <1>0, <2>1, <3>1, HandOver
  <2>5. Conservation'
    BY <1>0, <1>a, <2>0, <2>1, <2>3, ConservationIsAccounts, MsgQAssumption
       DEF Accounts, TypeOK, Places, MsgQAssumption
  <2>6. NobodyForgotten'
    BY <1>0, <2>0, <2>1 DEF NobodyForgotten, At, TypeOK
  <2>7. SenderHasMessage'
    BY <1>0, <2>0, <2>1 DEF SenderHasMessage, TypeOK
  <2> QED
    BY <2>2, <2>5, <2>6, <2>7
<1>3. CASE \E s \in At("send_wait") : /\ pc' = [pc EXCEPT ![t] = "out", ![s] = "send_copy"]
                                      /\ UNCHANGED sendLamps
  BY <1>2, <1>3
<1>4. CASE \E s \in At("urgent_wait") : /\ pc' = [pc EXCEPT ![t] = "out", ![s] = "urgent_copy"]
                                        /\ UNCHANGED sendLamps
  BY <1>2, <1>4
<1> QED
  BY <1>1, <1>3, <1>4 DEF RecvPost
--------------------------------------------------------------------------------
(* Every step preserves the inductive invariant. *)
LEMMA NextIInv == IInv /\ [Next]_vars => IInv'
<1> SUFFICES ASSUME IInv, [Next]_vars PROVE IInv'
  OBVIOUS
<1>1. CASE UNCHANGED vars
  BY <1>1 DEF IInv, vars, TypeOK, Conservation, NobodyForgotten, SenderHasMessage, Count, At
<1>2. ASSUME NEW t \in Threads, NEW m \in Msgs, SendPend(t, m, "send_wait", "send_copy")
      PROVE  IInv'
  BY <1>2, SendPendIInv
<1>3. ASSUME NEW t \in Threads, NEW m \in Msgs, SendPend(t, m, "urgent_wait", "urgent_copy")
      PROVE  IInv'
  BY <1>3, SendPendIInv
<1>4. ASSUME NEW t \in Threads, SendTimeout(t) \/ RecvTimeout(t) PROVE IInv'
  BY <1>4, TimeoutIInv
<1>5. ASSUME NEW t \in Threads, SendCopy(t) \/ UrgentCopy(t) PROVE IInv'
  BY <1>5, CopyInIInv
<1>6. ASSUME NEW t \in Threads, SendPost(t) PROVE IInv'
  BY <1>6, SendPostIInv
<1>7. ASSUME NEW t \in Threads, RecvPend(t) PROVE IInv'
  BY <1>7, RecvPendIInv
<1>8. ASSUME NEW t \in Threads, RecvCopy(t) PROVE IInv'
  BY <1>8, CopyOutIInv
<1>9. ASSUME NEW t \in Threads, RecvPost(t) PROVE IInv'
  BY <1>9, RecvPostIInv
<1> QED
  BY <1>1, <1>2, <1>3, <1>4, <1>5, <1>6, <1>7, <1>8, <1>9 DEF Next

(* The inductive invariant holds in every reachable state. *)
THEOREM InductiveInvariant == Spec => []IInv
  BY InitIInv, NextIInv, PTL DEF Spec

(* Every variable of msgqueue.c keeps its type: the counters of the two     *)
(* semaphores stay within the capacity, ReadOffset within the buffer.       *)
THEOREM TypeCorrect == Spec => []TypeOK
<1>1. IInv => TypeOK
  BY DEF IInv
<1> QED
  BY <1>1, InductiveInvariant, PTL

(* Lamps, messages and threads between two critical sections of MsgQ_Send   *)
(* and MsgQ_Receive add up to the capacity, whatever the interleaving.      *)
THEOREM Accounting == Spec => []Conservation
<1>1. IInv => Conservation
  BY DEF IInv
<1> QED
  BY <1>1, InductiveInvariant, PTL

(* No wake-up is lost: nobody waits in MsgQ_Send or MsgQ_Receive beside a   *)
(* lamp.                                                                    *)
THEOREM NoLostWakeUp == Spec => []NobodyForgotten
<1>1. IInv => NobodyForgotten
  BY DEF IInv
<1> QED
  BY <1>1, InductiveInvariant, PTL

(* The copy of MsgQ_Send finds a free place and the copy of MsgQ_Receive a  *)
(* message, although interrupts were open since the pend.                   *)
LEMMA IInvNoOverrun == IInv => NoOverrun
<1> SUFFICES ASSUME IInv PROVE NoOverrun
  OBVIOUS
<1>1. \A p \in Places : Number(pc, p) \in Nat
  BY NumberType
<1>2. MsgUsed \in 0..MaxMsgs
  BY <1>1, ConservationIsAccounts, MsgQAssumption
     DEF IInv, Accounts, TypeOK, Places, MsgQAssumption
<1>3. ASSUME NEW t \in Threads PROVE Number(pc, pc[t]) > 0
  <2>1. t \in Threads_at(pc, pc[t])
    BY DEF Threads_at
  <2>2. Number(pc, pc[t]) # 0 /\ Number(pc, pc[t]) \in Nat
    BY <2>1, NumberType, FS_EmptySet DEF Number
  <2> QED
    BY <2>2
<1>4. ASSUME NEW t \in Threads, pc[t] \in {"send_copy", "urgent_copy"}
      PROVE  MsgUsed < MaxMsgs
  BY <1>1, <1>3, <1>4, ConservationIsAccounts, MsgQAssumption
     DEF IInv, Accounts, TypeOK, Places, MsgQAssumption
<1>5. ASSUME NEW t \in Threads, pc[t] = "recv_copy" PROVE MsgUsed > 0
  BY <1>1, <1>3, <1>5, ConservationIsAccounts DEF IInv, Accounts, TypeOK, Places
<1> QED
  BY <1>2, <1>4, <1>5 DEF NoOverrun

(* The buffer of a message queue is never overrun nor read when empty.      *)
THEOREM BufferSafe == Spec => []NoOverrun
  BY IInvNoOverrun, InductiveInvariant, PTL
--------------------------------------------------------------------------------
(***************************************************************************)
(* The circular buffer of msgqueue.c implements the bounded queue of       *)
(* MsgDeque, for any number of threads, any messages and any capacity.     *)
(***************************************************************************)
Values == Msgs \union {NoMsg}
Buffers == [Slots -> Values]

(* The slot i places behind slot r, and the n messages from slot r on. *)
Slot(r, i) == IF r + i >= MaxMsgs THEN r + i - MaxMsgs ELSE r + i
Window(b, r, n) == [i \in 1..n |-> b[Slot(r, i - 1)]]

(* The refinement mapping is a window of the buffer, before and after a step. *)
LEMMA ContentIsWindow ==
  /\ Content = Window(buf, ReadOffset, MsgUsed)
  /\ Content' = Window(buf', ReadOffset', MsgUsed')
  BY DEF Content, Window, SlotOf, Slot

(* The slots of a window lie in the buffer and are distinct. *)
LEMMA SlotFacts ==
  ASSUME NEW r \in Slots
  PROVE  /\ \A i \in 0..(MaxMsgs - 1) : Slot(r, i) \in Slots
         /\ \A i, j \in 0..(MaxMsgs - 1) : Slot(r, i) = Slot(r, j) => i = j
  BY MsgQAssumption DEF Slot, Slots, MsgQAssumption

(* A window is a sequence of the given length. *)
LEMMA WindowType ==
  ASSUME NEW b \in Buffers, NEW r \in Slots, NEW n \in 0..MaxMsgs
  PROVE  /\ Window(b, r, n) \in Seq(Values)
         /\ Len(Window(b, r, n)) = n
         /\ \A i \in 1..n : Window(b, r, n)[i] = b[Slot(r, i - 1)]
<1>1. n \in Nat /\ n <= MaxMsgs
  BY MsgQAssumption DEF MsgQAssumption
<1>2. \A i \in 1..n : Slot(r, i - 1) \in Slots
  BY <1>1, SlotFacts, MsgQAssumption DEF MsgQAssumption
<1>3. \A i \in 1..n : b[Slot(r, i - 1)] \in Values
  BY <1>2 DEF Buffers
<1> QED
  BY <1>1, <1>3 DEF Window

(* Writing the slot behind the window appends to it. *)
LEMMA WriteBehind ==
  ASSUME NEW b \in Buffers, NEW r \in Slots, NEW n \in 0..(MaxMsgs - 1), NEW m \in Values
  PROVE  Window([b EXCEPT ![Slot(r, n)] = m], r, n + 1) = Append(Window(b, r, n), m)
<1> DEFINE c == [b EXCEPT ![Slot(r, n)] = m]
           s == Window(c, r, n + 1)
           w == Window(b, r, n)
<1>0. MaxMsgs \in Nat \ {0} /\ n \in 0..MaxMsgs /\ n + 1 \in 0..MaxMsgs /\ n \in Nat
  BY MsgQAssumption DEF MsgQAssumption
<1>1. c \in Buffers
  BY DEF Buffers
<1>2. s \in Seq(Values) /\ Len(s) = n + 1 /\ \A i \in 1..(n + 1) : s[i] = c[Slot(r, i - 1)]
  <2> HIDE DEF c
  <2> QED
    BY <1>0, <1>1, WindowType
<1>3. w \in Seq(Values) /\ Len(w) = n /\ \A i \in 1..n : w[i] = b[Slot(r, i - 1)]
  BY <1>0, WindowType
<1>4. /\ Append(w, m) \in Seq(Values) /\ Len(Append(w, m)) = n + 1
      /\ Append(w, m)[n + 1] = m
      /\ \A i \in 1..n : Append(w, m)[i] = w[i]
  <2> HIDE DEF w
  <2> QED
    BY <1>0, <1>3, AppendProperties
<1>5. \A i \in 1..n : c[Slot(r, i - 1)] = b[Slot(r, i - 1)]
  BY <1>0, SlotFacts DEF Buffers
<1>6. c[Slot(r, n)] = m
  BY <1>0, SlotFacts DEF Buffers
<1>7. \A i \in 1..(n + 1) : s[i] = Append(w, m)[i]
  <2> HIDE DEF s, w, c
  <2> QED
    BY SMTT(60), <1>0, <1>2, <1>3, <1>4, <1>5, <1>6
<1> HIDE DEF s, w, c
<1>8. s = Append(w, m)
  BY <1>2, <1>4, <1>7, SeqEqual
<1> QED
  BY <1>8 DEF s, w, c

(* Writing the slot in front of the window, and starting there, prepends. *)
LEMMA WriteBefore ==
  ASSUME NEW b \in Buffers, NEW r \in Slots, NEW n \in 0..(MaxMsgs - 1), NEW m \in Values,
         NEW h, h = IF r = 0 THEN MaxMsgs - 1 ELSE r - 1
  PROVE  Window([b EXCEPT ![h] = m], h, n + 1) = <<m>> \o Window(b, r, n)
<1> DEFINE c == [b EXCEPT ![h] = m]
           s == Window(c, h, n + 1)
           w == Window(b, r, n)
           u == <<m>> \o w
<1>0. MaxMsgs \in Nat \ {0} /\ n \in 0..MaxMsgs /\ n + 1 \in 0..MaxMsgs /\ n \in Nat
  BY MsgQAssumption DEF MsgQAssumption
<1>1. h \in Slots
  BY <1>0 DEF Slots
<1>2. c \in Buffers
  BY <1>1 DEF Buffers
<1>3. s \in Seq(Values) /\ Len(s) = n + 1 /\ \A i \in 1..(n + 1) : s[i] = c[Slot(h, i - 1)]
  <2> HIDE DEF c
  <2> QED
    BY ZenonT(60), <1>0, <1>1, <1>2, WindowType
<1>4. w \in Seq(Values) /\ Len(w) = n /\ \A i \in 1..n : w[i] = b[Slot(r, i - 1)]
  BY <1>0, WindowType
<1>5. /\ u \in Seq(Values) /\ Len(u) = n + 1
      /\ \A i \in 1..(n + 1) : u[i] = IF i = 1 THEN m ELSE w[i - 1]
  <2> HIDE DEF w
  <2>1. <<m>> \in Seq(Values) /\ Len(<<m>>) = 1 /\ <<m>>[1] = m
    OBVIOUS
  <2> QED
    BY <1>0, <1>4, <2>1, ConcatProperties
<1>6. Slot(h, 0) = h /\ \A i \in 2..(n + 1) : Slot(h, i - 1) = Slot(r, i - 2)
  BY <1>0 DEF Slot, Slots
<1>7. \A i \in 2..(n + 1) : Slot(h, i - 1) # h
  BY <1>0, <1>1 DEF Slot, Slots
<1>8. \A i \in 2..(n + 1) : c[Slot(h, i - 1)] = b[Slot(r, i - 2)]
  BY <1>0, <1>1, <1>6, <1>7, SlotFacts DEF Buffers
<1>9. c[h] = m
  BY <1>1 DEF Buffers
<1>10. \A i \in 1..(n + 1) : s[i] = u[i]
  <2> HIDE DEF s, u, w, c
  <2> SUFFICES ASSUME NEW i \in 1..(n + 1) PROVE s[i] = u[i]
    OBVIOUS
  <2>1. CASE i = 1
    BY <1>0, <1>3, <1>5, <1>6, <1>9, <2>1
  <2>2. CASE i # 1
    <3>1. i \in 2..(n + 1) /\ i - 1 \in 1..n /\ (i - 1) - 1 = i - 2
      BY <1>0, <2>2
    <3>2. w[i - 1] = b[Slot(r, i - 2)]
      BY <1>4, <3>1
    <3> QED
      BY <1>3, <1>5, <1>8, <2>2, <3>1, <3>2
  <2> QED
    BY <2>1, <2>2
<1> HIDE DEF s, u, w, c
<1>11. s = u
  BY <1>3, <1>5, <1>10, SeqEqual
<1> QED
  BY <1>11 DEF s, u, w, c

(* Reading the first slot of the window, and starting behind it, drops it. *)
LEMMA ReadFirst ==
  ASSUME NEW b \in Buffers, NEW r \in Slots, NEW n \in 1..MaxMsgs,
         NEW h, h = IF r >= MaxMsgs - 1 THEN 0 ELSE r + 1
  PROVE  /\ Window(b, r, n) # << >>
         /\ Head(Window(b, r, n)) = b[r]
         /\ Tail(Window(b, r, n)) = Window(b, h, n - 1)
<1> DEFINE s == Window(b, h, n - 1)
           w == Window(b, r, n)
<1>0. MaxMsgs \in Nat \ {0} /\ n \in 0..MaxMsgs /\ n - 1 \in 0..MaxMsgs /\ n \in Nat \ {0}
  BY MsgQAssumption DEF MsgQAssumption
<1>1. h \in Slots
  BY <1>0 DEF Slots
<1>2. s \in Seq(Values) /\ Len(s) = n - 1 /\ \A i \in 1..(n - 1) : s[i] = b[Slot(h, i - 1)]
  BY ZenonT(60), <1>0, <1>1, WindowType
<1>3. w \in Seq(Values) /\ Len(w) = n /\ \A i \in 1..n : w[i] = b[Slot(r, i - 1)]
  BY <1>0, WindowType
<1> HIDE DEF s, w
<1>4. w # << >>
  BY <1>0, <1>3, EmptySeq
<1>5. Slot(r, 0) = r /\ \A i \in 1..(n - 1) : Slot(r, i) = Slot(h, i - 1)
  BY <1>0 DEF Slot, Slots
<1>6. Head(w) = b[r]
  <2>1. Head(w) = w[1] /\ 1 \in 1..n /\ 1 - 1 = 0
    BY <1>0, <1>3, <1>4
  <2> QED
    BY <1>3, <1>5, <2>1
<1>7. /\ Tail(w) \in Seq(Values) /\ Len(Tail(w)) = n - 1
      /\ \A i \in 1..(n - 1) : Tail(w)[i] = w[i + 1]
  BY <1>3, <1>4, HeadTailProperties
<1>8. \A i \in 1..(n - 1) : Tail(w)[i] = s[i]
  <2> SUFFICES ASSUME NEW i \in 1..(n - 1) PROVE Tail(w)[i] = s[i]
    OBVIOUS
  <2>1. i + 1 \in 1..n /\ (i + 1) - 1 = i
    BY <1>0
  <2> QED
    <3>1. Tail(w)[i] = b[Slot(r, i)]
      BY ONLY Zenon, <1>3, <1>7, <2>1, i \in 1..(n - 1)
    <3>2. s[i] = b[Slot(r, i)]
      BY ONLY Zenon, <1>2, <1>5, i \in 1..(n - 1)
    <3> QED
      BY <3>1, <3>2
<1>9. Tail(w) = s
  BY <1>2, <1>7, <1>8, SeqEqual
<1> QED
  BY <1>4, <1>6, <1>9 DEF s, w
--------------------------------------------------------------------------------
(* An empty buffer represents the empty queue. *)
LEMMA InitRefines == Init => Deque!DequeInit
<1> SUFFICES ASSUME Init PROVE Deque!DequeInit
  OBVIOUS
<1>1. MsgUsed = 0 /\ Content = [i \in 1..0 |-> buf[SlotOf(i - 1)]]
  BY DEF Init, Content
<1>2. Content = << >>
  BY <1>1
<1> QED
  BY <1>2 DEF Init, Deque!DequeInit

(* Every critical section is a step of the bounded queue, or none at all. *)
LEMMA NextRefines == IInv /\ [Next]_vars => [Deque!DequeNext]_(Deque!dequeVars)
<1> SUFFICES ASSUME IInv, [Next]_vars
             PROVE  Deque!DequeNext \/ UNCHANGED Deque!dequeVars
  OBVIOUS
<1>0. /\ buf \in Buffers /\ ReadOffset \in Slots
      /\ MsgUsed \in 0..MaxMsgs /\ MaxMsgs \in Nat \ {0}
  BY IInvNoOverrun, MsgQAssumption DEF IInv, TypeOK, NoOverrun, Buffers, Values, MsgQAssumption
<1>w. Len(Content) = MsgUsed
  BY <1>0, ContentIsWindow, WindowType
<1>1. ASSUME UNCHANGED <<buf, MsgUsed, ReadOffset, sending, received>>
      PROVE  UNCHANGED Deque!dequeVars
  <2>1. UNCHANGED Content
    BY <1>1 DEF Content, SlotOf
  <2> QED
    BY <1>1, <2>1 DEF Deque!dequeVars
<1>2. ASSUME NEW t \in Threads, NEW m \in Values, UNCHANGED <<buf, MsgUsed, ReadOffset, received>>,
             sending' = [sending EXCEPT ![t] = m]
      PROVE  Deque!DequeNext
  <2>1. UNCHANGED Content
    BY <1>2 DEF Content, SlotOf
  <2>2. Deque!Announce(t, m)
    BY <1>2, <2>1 DEF Deque!Announce
  <2> QED
    BY <2>2 DEF Deque!DequeNext, Values
<1>3. ASSUME NEW t \in Threads, RecvPend(t) PROVE Deque!DequeNext
  <2>1. UNCHANGED Content
    BY <1>3 DEF RecvPend, Content, SlotOf
  <2>2. Deque!Forget(t)
    BY <1>3, <2>1 DEF RecvPend, Deque!Forget
  <2> QED
    BY <2>2 DEF Deque!DequeNext
<1>4. ASSUME NEW t \in Threads, SendCopy(t) PROVE Deque!DequeNext
  <2>1. sending[t] \in Msgs /\ MsgUsed < MaxMsgs
    BY <1>4, IInvNoOverrun DEF SendCopy, IInv, SenderHasMessage, NoOverrun
  <2>2. TailSlot = Slot(ReadOffset, MsgUsed)
    BY <1>0 DEF TailSlot, Slot, Slots
  <2>3. Content' = Append(Content, sending[t])
    <3>1. sending[t] \in Values /\ MsgUsed \in 0..(MaxMsgs - 1)
      BY <1>0, <2>1 DEF Values
    <3>2. /\ buf' = [buf EXCEPT ![Slot(ReadOffset, MsgUsed)] = sending[t]]
          /\ ReadOffset' = ReadOffset /\ MsgUsed' = MsgUsed + 1
      BY <1>4, <2>2 DEF SendCopy
    <3> QED
      BY <1>0, <3>1, <3>2, WriteBehind, ContentIsWindow
  <2>4. sending[t] # NoMsg
    BY <2>1, MsgQAssumption DEF MsgQAssumption
  <2>5. Deque!PutTail(t)
    BY <1>4, <1>w, <2>1, <2>3, <2>4 DEF Deque!PutTail, SendCopy
  <2> QED
    BY <2>5 DEF Deque!DequeNext
<1>5. ASSUME NEW t \in Threads, UrgentCopy(t) PROVE Deque!DequeNext
  <2>1. sending[t] \in Msgs /\ MsgUsed < MaxMsgs
    BY <1>5, IInvNoOverrun DEF UrgentCopy, IInv, SenderHasMessage, NoOverrun
  <2>2. Content' = <<sending[t]>> \o Content
    <3>1. sending[t] \in Values /\ MsgUsed \in 0..(MaxMsgs - 1)
      BY <1>0, <2>1 DEF Values
    <3>2. /\ buf' = [buf EXCEPT ![HeadSlot] = sending[t]]
          /\ ReadOffset' = HeadSlot /\ MsgUsed' = MsgUsed + 1
      BY <1>5 DEF UrgentCopy
    <3>3. HeadSlot = IF ReadOffset = 0 THEN MaxMsgs - 1 ELSE ReadOffset - 1
      BY DEF HeadSlot
    <3> QED
      <4>1. Window(buf', ReadOffset', MsgUsed') = <<sending[t]>> \o Window(buf, ReadOffset, MsgUsed)
        BY ZenonT(60), <1>0, <3>1, <3>2, <3>3, WriteBefore
      <4> QED
        BY ONLY Zenon, <4>1, ContentIsWindow
  <2>3. sending[t] # NoMsg
    BY <2>1, MsgQAssumption DEF MsgQAssumption
  <2>4. Deque!PutHead(t)
    BY <1>5, <1>w, <2>1, <2>2, <2>3 DEF Deque!PutHead, UrgentCopy
  <2> QED
    BY <2>4 DEF Deque!DequeNext
<1>6. ASSUME NEW t \in Threads, RecvCopy(t) PROVE Deque!DequeNext
  <2>1. MsgUsed \in 1..MaxMsgs
    BY <1>0, <1>6, IInvNoOverrun DEF RecvCopy, NoOverrun
  <2>2. /\ buf' = buf /\ MsgUsed' = MsgUsed - 1
        /\ ReadOffset' = IF ReadOffset >= MaxMsgs - 1 THEN 0 ELSE ReadOffset + 1
        /\ received' = [received EXCEPT ![t] = buf[ReadOffset]]
    BY <1>6 DEF RecvCopy
  <2>3. Content # << >> /\ Head(Content) = buf[ReadOffset] /\ Content' = Tail(Content)
    BY <1>0, <2>1, <2>2, ReadFirst, ContentIsWindow
  <2>4. Deque!Get(t)
    BY <1>6, <2>2, <2>3 DEF Deque!Get, RecvCopy
  <2> QED
    BY <2>4 DEF Deque!DequeNext
<1>7. ASSUME NEW t \in Threads, SendTimeout(t) PROVE Deque!DequeNext
  BY <1>2, <1>7 DEF SendTimeout, Values
<1>8. ASSUME NEW t \in Threads, NEW m \in Msgs,
             \/ SendPend(t, m, "send_wait", "send_copy")
             \/ SendPend(t, m, "urgent_wait", "urgent_copy")
      PROVE  Deque!DequeNext
  BY <1>2, <1>8 DEF SendPend, Values
<1>9. CASE UNCHANGED vars
  BY <1>1, <1>9 DEF vars
<1>10. ASSUME NEW t \in Threads, SendPost(t) \/ RecvTimeout(t) \/ RecvPost(t)
       PROVE  UNCHANGED Deque!dequeVars
  BY <1>1, <1>10 DEF SendPost, RecvTimeout, RecvPost
<1> QED
  BY <1>3, <1>4, <1>5, <1>6, <1>7, <1>8, <1>9, <1>10 DEF Next

(***************************************************************************)
(* MsgQ_Send and MsgQ_Receive implement the bounded queue: every message   *)
(* is delivered once, whole, in the order of the copies.                   *)
(***************************************************************************)
THEOREM Refinement == Spec => ImplementsDeque
<1>1. Spec => Deque!DequeInit
  BY InitRefines DEF Spec
<1>2. Spec => [][Deque!DequeNext]_(Deque!dequeVars)
  BY NextRefines, InductiveInvariant, PTL DEF Spec
<1> QED
  BY <1>1, <1>2, PTL DEF ImplementsDeque, Deque!DequeSpec
================================================================================
