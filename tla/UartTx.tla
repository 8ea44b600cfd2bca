------------------------------- MODULE UartTx -------------------------------
(* The sending half of a serial port, component/driver/uart/uart.c: a thread *)
(* in UART_AppWrite fills a ring buffer, the transmit interrupt empties it   *)
(* through UART_PortRead, and two binary semaphores tell the thread that the *)
(* buffer has fallen to its trigger level and that everything has been sent. *)
(* Threads that write are serialised by WriteMutex, so there is one writer.  *)
(* The interrupt is one step; the thread takes a step per critical section.  *)
EXTENDS RingBuf

CONSTANTS SendTrigLevel,   \* UCB->SendRingTrigLevel
          MplWriteLevel,   \* UCB->MplWriteTrigLevel
          Data,            \* the byte sequences callers write
          MaxChunk         \* bound: bytes the driver fetches per interrupt

(* UART_InstallPort sets the trigger level to a quarter of the buffer.  Half *)
(* of it or more would be wrong: see WriterIsRemembered.                     *)
ASSUME TxAssumption == /\ SendTrigLevel \in Nat
                       /\ 2 * SendTrigLevel < MaxLen
                       /\ MplWriteLevel \in Nat
                       /\ Data \subseteq Seq(Byte) \ {<< >>}
                       /\ MaxChunk \in Nat \ {0}

VARIABLES wpc,        \* where UART_AppWrite is
          src,        \* the bytes it has still to put into the buffer
          written,    \* result of Ring_Write
          block,      \* block_option
          send_semp,  \* lamps of SendRingBufSemp, 0 or 1
          block_semp, \* lamps of BlockingSemp, 0 or 1
          sending,    \* the transmit interrupt is enabled
          writable,   \* CN_MULTIPLEX_SENSINGBIT_WRITE in MplUartStatus
          fetched     \* the bytes the driver fetched last

txVars == <<ringVars, wpc, src, written, block, send_semp, block_semp, sending,
            writable, fetched>>

WritePCs == {"idle", "write", "commit", "clear", "start", "pend", "wait",
             "bpend", "bwait", "sent", "finish", "full"}

Drop(s, n) == SubSeq(s, n + 1, Len(s))

TxInit == /\ RingInit
          /\ wpc = "idle"
          /\ src = << >>
          /\ written = 0
          /\ block = FALSE
          /\ send_semp = 0
          /\ block_semp = 0
          /\ sending = FALSE
          /\ writable = TRUE
          /\ fetched = << >>

\* UART_AppWrite is called and obtains WriteMutex.
AppWrite(data, b) ==
    /\ wpc = "idle"
    /\ src' = data
    /\ block' = b
    /\ wpc' = "write"
    /\ UNCHANGED <<ringVars, written, send_semp, block_semp, sending, writable,
                   fetched>>

\* Ring_Write up to its atomic section.  The interrupt does not touch the
\* free part of the buffer nor offset_write, so the length and the copy can
\* be one step.
RingWrite ==
    /\ wpc = "write"
    /\ written' = RoomFor(Len(src))
    /\ \/ /\ written' = 0
          /\ wpc' = "clear"
          /\ UNCHANGED <<buf, offset_write>>
       \/ /\ written' # 0
          /\ wpc' = "commit"
          /\ CopyIn(SubSeq(src, 1, written'))
    /\ UNCHANGED <<offset_read, len, src, block, send_semp, block_semp, sending,
                   writable, fetched>>

\* (Mutant: a short write assumes that it has filled the buffer.)
RingWriteLenStale ==
    /\ wpc = "commit"
    /\ len' = IF written = Len(src) THEN len + written ELSE MaxLen
    /\ src' = Drop(src, written)
    /\ wpc' = "clear"
    /\ UNCHANGED <<buf, offset_write, offset_read, written, block, send_semp,
                   block_semp, sending, writable, fetched>>

\* The atomic section of Ring_Write.
RingWriteLen ==
    /\ wpc = "commit"
    /\ len' = len + written
    /\ src' = Drop(src, written)
    /\ wpc' = "clear"
    /\ UNCHANGED <<buf, offset_write, offset_read, written, block, send_semp,
                   block_semp, sending, writable, fetched>>

\* (Mutant: an earlier "all sent" is not forgotten.)
ForgetNothing ==
    /\ wpc = "clear"
    /\ wpc' = "start"
    /\ UNCHANGED <<ringVars, src, written, block, send_semp, block_semp,
                   sending, writable, fetched>>

\* Lock_SempPend(UCB->BlockingSemp,0): forget an earlier "all sent".
ForgetSent ==
    /\ wpc = "clear"
    /\ block_semp' = 0
    /\ wpc' = "start"
    /\ UNCHANGED <<ringVars, src, written, block, send_semp, sending, writable,
                   fetched>>

\* UCB->StartSend enables the transmit interrupt.
StartSend ==
    /\ wpc = "start"
    /\ sending' = TRUE
    /\ wpc' = IF src # << >> THEN "pend"
              ELSE IF block THEN "bpend" ELSE "finish"
    /\ UNCHANGED <<ringVars, src, written, block, send_semp, block_semp,
                   writable, fetched>>

\* Where a writer whose pend succeeded goes on: its time may be up.
AfterPend == {"write", "finish"}

\* Lock_SempPend(UCB->SendRingBufSemp,rel_timeout).
PendRoom ==
    /\ wpc = "pend"
    /\ \/ send_semp = 1 /\ send_semp' = 0 /\ wpc' \in AfterPend
       \/ send_semp = 0 /\ wpc' = "wait" /\ UNCHANGED send_semp
    /\ UNCHANGED <<ringVars, src, written, block, block_semp, sending, writable,
                   fetched>>

\* Lock_SempPend(UCB->BlockingSemp,rel_timeout) of a blocking write.
PendSent ==
    /\ wpc = "bpend"
    /\ \/ block_semp = 1 /\ block_semp' = 0 /\ wpc' = "sent"
       \/ block_semp = 0 /\ wpc' = "bwait" /\ UNCHANGED block_semp
    /\ UNCHANGED <<ringVars, src, written, block, send_semp, sending, writable,
                   fetched>>

\* A pend times out.
WriteTimeout ==
    /\ wpc \in {"wait", "bwait"}
    /\ wpc' = "finish"
    /\ UNCHANGED <<ringVars, src, written, block, send_semp, block_semp,
                   sending, writable, fetched>>

\* Ring_IsFull at the end of UART_AppWrite ...
TestFull ==
    /\ wpc \in {"sent", "finish"}
    /\ wpc' = IF len = MaxLen THEN "full" ELSE "idle"
    /\ src' = IF len = MaxLen THEN src ELSE << >>
    /\ UNCHANGED <<ringVars, written, block, send_semp, block_semp, sending,
                   writable, fetched>>

\* ... and the clearing of the write bit, with interrupts open in between.
ClearWritable ==
    /\ wpc = "full"
    /\ writable' = FALSE
    /\ src' = << >>
    /\ wpc' = "idle"
    /\ UNCHANGED <<ringVars, written, block, send_semp, block_semp, sending,
                   fetched>>
-----------------------------------------------------------------------------
\* The buffer falls from above a level to it or below.
CrossesDown(level, before, after) == after <= level /\ before > level

\* (Mutant: the level is announced only when it is met exactly.)
PostRoomExact(before, after) ==
    IF after = SendTrigLevel /\ before > SendTrigLevel
    THEN IF wpc = "wait" THEN wpc' \in AfterPend /\ UNCHANGED send_semp
                        ELSE send_semp' = 1 /\ UNCHANGED wpc
    ELSE UNCHANGED <<wpc, send_semp>>

\* The interrupt posts SendRingBufSemp: a waiter goes on, or the lamp is lit.
PostRoom(before, after) ==
    IF CrossesDown(SendTrigLevel, before, after)
    THEN IF wpc = "wait" THEN wpc' \in AfterPend /\ UNCHANGED send_semp
                        ELSE send_semp' = 1 /\ UNCHANGED wpc
    ELSE UNCHANGED <<wpc, send_semp>>

\* (Mutant: the driver disables the interrupt with the last bytes.)
PortReadSomeAndStop(n) ==
    /\ sending
    /\ len > 0
    /\ LET result == Available(n)
       IN  /\ fetched' = Window(offset_read, result)
           /\ CopyOut(result)
           /\ len' = len - result
           /\ PostRoom(len, len - result)
           /\ writable' = (writable \/ CrossesDown(MplWriteLevel, len,
                                                   len - result))
    /\ sending' = (len > n)
    /\ UNCHANGED <<buf, offset_write, src, written, block, block_semp>>

\* UART_PortRead found bytes: the driver sends them.
PortReadSome(n) ==
    /\ sending
    /\ len > 0
    /\ LET result == Available(n)
       IN  /\ fetched' = Window(offset_read, result)
           /\ CopyOut(result)
           /\ len' = len - result
           /\ PostRoom(len, len - result)
           /\ writable' = (writable \/ CrossesDown(MplWriteLevel, len,
                                                   len - result))
    /\ UNCHANGED <<buf, offset_write, src, written, block, block_semp, sending>>

\* UART_PortRead found nothing: it posts BlockingSemp, and the driver
\* disables the interrupt.
PortReadNone ==
    /\ sending
    /\ len = 0
    /\ fetched' = << >>
    /\ IF wpc = "bwait" THEN wpc' = "sent" /\ UNCHANGED block_semp
                       ELSE block_semp' = 1 /\ UNCHANGED wpc
    /\ sending' = FALSE
    /\ UNCHANGED <<ringVars, src, written, block, send_semp, writable>>
-----------------------------------------------------------------------------
WriterStep == \/ RingWrite \/ RingWriteLen \/ ForgetSent \/ StartSend
              \/ PendRoom \/ PendSent \/ TestFull \/ ClearWritable

PortRead == PortReadNone \/ \E n \in 1 .. MaxChunk : PortReadSome(n)

TxNext == \/ \E d \in Data, b \in BOOLEAN : AppWrite(d, b)
          \/ WriterStep
          \/ WriteTimeout
          \/ PortRead

TxSpec == TxInit /\ [][TxNext]_txVars

(* The thread is given the processor, and the interrupt comes as long as it *)
(* is enabled; nothing is assumed about timeouts.                           *)
TxFairness == WF_txVars(WriterStep) /\ WF_txVars(PortRead)
-----------------------------------------------------------------------------
TxTypeOK == /\ RingTypeOK
            /\ wpc \in WritePCs
            /\ src \in Seq(Byte)
            /\ written \in 0 .. MaxLen
            /\ block \in BOOLEAN
            /\ send_semp \in {0, 1}
            /\ block_semp \in {0, 1}
            /\ sending \in BOOLEAN
            /\ writable \in BOOLEAN
            /\ fetched \in Seq(Byte)

(* A writer asleep until the buffer falls to the trigger level is not       *)
(* forgotten: the buffer is above that level and the interrupt enabled, so  *)
(* UART_PortRead will cross it, although the room was computed before the   *)
(* interrupt emptied the buffer and the length added after.                 *)
WriterIsRemembered == wpc = "wait" => len > SendTrigLevel /\ sending

(* When a blocking UART_AppWrite is told that everything was sent, nothing  *)
(* is left in the buffer: a lamp of BlockingSemp left over from an earlier  *)
(* transmission is not mistaken for this one's.                             *)
BlockingMeansSent == wpc = "sent" => len = 0 /\ src = << >>
=============================================================================
