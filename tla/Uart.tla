-------------------------------- MODULE Uart --------------------------------
(* A serial port: its sending and its receiving half.  The halves have a    *)
(* ring buffer each and share no other state than the word MplUartStatus,   *)
(* of which they change different bits, so a behaviour is one of the sender *)
(* or one of the receiver, and the ring buffer is that half's.              *)
EXTENDS UartTx, UartRx

VARIABLE half   \* the half whose behaviour this is

rxOwnVars == <<rpc, readVars, trig, recv_semp, bitVars>>
txOwnVars == <<wpc, src, written, block, send_semp, block_semp, sending,
               writable, fetched>>
vars == <<txVars, rxVars, half>>

Init == TxInit /\ RxInit /\ half \in {"tx", "rx"}

Sender(A) == half = "tx" /\ A /\ UNCHANGED <<rxOwnVars, half>>
Receiver(A) == half = "rx" /\ A /\ UNCHANGED <<txOwnVars, half>>

Next == Sender(TxNext) \/ Receiver(RxNext)

Spec == Init /\ [][Next]_vars /\ TxFairness
-----------------------------------------------------------------------------
TypeOK == TxTypeOK /\ RxTypeOK

(* Every UART_AppWrite returns, whether or not its timeout ever expires:    *)
(* the room it waits for and the end of the transmission it waits for are   *)
(* always announced.                                                        *)
WriteEnds == wpc # "idle" ~> wpc = "idle"

(* The oldest byte in the buffer.  Ring_Read moves offset_read before len,  *)
(* so between the two a reader's bytes lie in front of offset_read.         *)
FirstByte == IF rpc \in {"commit1", "commit"} THEN offset_read - taken
                                              ELSE offset_read

(* The bytes the driver fetches are the ones the callers wrote, in order,   *)
(* none twice and none missing; the bytes a reader obtains are the ones     *)
(* that arrived, and only the end of what arrives at a full buffer is lost. *)
(* It holds across every wrap-around of the positions, although the lengths *)
(* are computed outside the critical sections in which they are applied.    *)
Fifo == INSTANCE ByteFifo WITH Capacity <- MaxLen,
                               q <- Window(FirstByte, len),
                               src <- IF half = "tx" THEN src ELSE line,
                               out <- IF half = "tx" THEN fetched ELSE got
ImplementsFifo == Fifo!Spec
=============================================================================
