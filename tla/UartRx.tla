------------------------------- MODULE UartRx -------------------------------
(* The receiving half of a serial port, component/driver/uart/uart.c: the   *)
(* receive interrupt puts bytes into a ring buffer through UART_PortWrite,  *)
(* a thread in UART_AppRead takes them out, and a binary semaphore tells it *)
(* that the buffer has reached a trigger level that the reader itself moves *)
(* for the time of its call.  Readers are serialised by ReadMutex.          *)
EXTENDS RingBuf

CONSTANTS RecvTrigLevel,   \* the configured UCB->RecvRingTrigLevel
          MplReadLevel,    \* UCB->MplReadTrigLevel
          Chunks,          \* the byte sequences that arrive in one interrupt
          MaxRead          \* bound: bytes a call asks for

ASSUME RxAssumption == /\ MaxLen >= 2
                       /\ RecvTrigLevel \in Nat
                       /\ MplReadLevel \in Nat
                       /\ Chunks \subseteq Seq(Byte) \ {<< >>}
                       /\ MaxRead \in Nat

VARIABLES rpc,        \* where UART_AppRead is
          want,       \* bytes it has still to obtain (len - completed)
          level,      \* its triglevel
          taken,      \* wr_len of Ring_Read
          dst,        \* the bytes that Ring_Read has copied
          got,        \* the bytes that the last finished Ring_Read returned
          trig,       \* UCB->RecvRingTrigLevel
          recv_semp,  \* lamps of RecvRingBufSemp, 0 or 1
          readable,   \* CN_MULTIPLEX_SENSINGBIT_READ in MplUartStatus
          overrun,    \* CN_UART_BUF_OVER_ERR in MplUartStatus
          line        \* the bytes that arrived last

readVars == <<want, level, taken, dst, got>>
bitVars == <<readable, overrun, line>>
rxVars == <<ringVars, readVars, rpc, trig, recv_semp, bitVars>>

ReadPCs == {"idle", "read1", "read", "commit1", "commit", "level", "check",
            "pend", "wait", "restore", "finish", "empty"}

RxInit == /\ RingInit
          /\ rpc = "idle"
          /\ want = 0
          /\ level = 0
          /\ taken = 0
          /\ dst = << >>
          /\ got = << >>
          /\ trig = RecvTrigLevel
          /\ recv_semp = 0
          /\ readable = FALSE
          /\ overrun = FALSE
          /\ line = << >>

\* UART_AppRead is called and obtains ReadMutex.
AppRead(n) ==
    /\ rpc = "idle"
    /\ want' = n
    /\ rpc' = "read1"
    /\ UNCHANGED <<ringVars, level, taken, dst, got, trig, recv_semp, readable,
                   overrun, line>>

\* Ring_Read up to its atomic section.  The interrupt does not touch the
\* occupied part of the buffer nor offset_read.
RingRead ==
    /\ rpc \in {"read1", "read"}
    /\ taken' = Available(want)
    /\ dst' = Window(offset_read, taken')
    /\ CopyOut(taken')
    /\ rpc' = IF rpc = "read1" THEN "commit1" ELSE "commit"
    /\ UNCHANGED <<buf, offset_write, len, want, level, got, trig, recv_semp,
                   readable, overrun, line>>

Least(a, b) == IF a < b THEN a ELSE b

\* The atomic section of Ring_Read, and what UART_AppRead decides from its
\* result: enough; lower the trigger level for the rest; or time is up.
RingReadLen ==
    /\ rpc \in {"commit1", "commit"}
    /\ len' = len - taken
    /\ want' = want - taken
    /\ got' = dst
    /\ \/ /\ want' = 0
          /\ rpc' = IF rpc = "commit1" THEN "finish" ELSE "restore"
          /\ UNCHANGED level
       \/ /\ want' > 0
          /\ rpc' = "level"
          /\ level' = Least(want', IF rpc = "commit1" THEN MaxLen \div 2
                                                     ELSE level)
       \/ /\ want' > 0
          /\ rpc = "commit"
          /\ rpc' = "restore"
          /\ UNCHANGED level
    /\ UNCHANGED <<buf, offset_write, offset_read, taken, dst, trig, recv_semp,
                   readable, overrun, line>>

\* UCB->RecvRingTrigLevel = triglevel.
SetTrigLevel ==
    /\ rpc = "level"
    /\ trig' = level
    /\ rpc' = "check"
    /\ UNCHANGED <<ringVars, readVars, recv_semp, bitVars>>

\* if(Ring_Check(&UCB->RecvRingBuf) < triglevel), interrupts open.
CheckLevel ==
    /\ rpc = "check"
    /\ rpc' = IF len < level THEN "pend" ELSE "read"
    /\ UNCHANGED <<ringVars, readVars, trig, recv_semp, bitVars>>

\* (Mutant: the test comes before the level is in force.)
CheckBeforeSet ==
    /\ rpc = "level"
    /\ rpc' = IF len < level THEN "check" ELSE "read"
    /\ UNCHANGED <<ringVars, readVars, trig, recv_semp, bitVars>>

SetAfterCheck ==
    /\ rpc = "check"
    /\ trig' = level
    /\ rpc' = "pend"
    /\ UNCHANGED <<ringVars, readVars, recv_semp, bitVars>>

WaitForLevelSwapped == CheckBeforeSet \/ SetAfterCheck

WaitForLevel == SetTrigLevel \/ CheckLevel

\* Lock_SempPend(UCB->RecvRingBufSemp,rel_timeout).
PendData ==
    /\ rpc = "pend"
    /\ \/ recv_semp = 1 /\ recv_semp' = 0 /\ rpc' = "read"
       \/ recv_semp = 0 /\ rpc' = "wait" /\ UNCHANGED recv_semp
    /\ UNCHANGED <<ringVars, readVars, trig, bitVars>>

\* The pend times out; what is there is read all the same.
ReadTimeout ==
    /\ rpc = "wait"
    /\ rpc' = "read"
    /\ UNCHANGED <<ringVars, readVars, trig, recv_semp, bitVars>>

\* UCB->RecvRingTrigLevel = TrigBak.
RestoreTrigLevel ==
    /\ rpc = "restore"
    /\ trig' = RecvTrigLevel
    /\ rpc' = "finish"
    /\ UNCHANGED <<ringVars, readVars, recv_semp, bitVars>>

\* Ring_Check at the end of UART_AppRead ...
TestEmpty ==
    /\ rpc = "finish"
    /\ rpc' = IF len = 0 THEN "empty" ELSE "idle"
    /\ UNCHANGED <<ringVars, readVars, trig, recv_semp, bitVars>>

\* ... and the clearing of the read bit, with interrupts open in between.  The
\* word it is in is read and written back with interrupts open as well, and a
\* bit that an interrupt sets in between is lost; no property is about them.
ClearReadable ==
    /\ rpc = "empty"
    /\ readable' = FALSE
    /\ rpc' = "idle"
    /\ UNCHANGED <<ringVars, readVars, trig, recv_semp, overrun, line>>
-----------------------------------------------------------------------------
\* The buffer rises from below a level to it or above.
CrossesUp(lev, before, after) == after >= lev /\ before < lev

\* UART_PortWrite, called by the receive interrupt.
PortWrite(data) ==
    LET n == RoomFor(Len(data))
    IN  /\ line' = data
        /\ IF n = 0 THEN UNCHANGED <<buf, offset_write>>
                    ELSE CopyIn(SubSeq(data, 1, n))
        /\ len' = len + n
        /\ overrun' = (overrun \/ n # Len(data))
        /\ IF CrossesUp(trig, len, len + n)
           THEN IF rpc = "wait" THEN rpc' = "read" /\ UNCHANGED recv_semp
                               ELSE recv_semp' = 1 /\ UNCHANGED rpc
           ELSE UNCHANGED <<rpc, recv_semp>>
        /\ readable' = (readable \/ CrossesUp(MplReadLevel, len, len + n))
        /\ UNCHANGED <<offset_read, readVars, trig>>
-----------------------------------------------------------------------------
ReaderStep == \/ RingRead \/ RingReadLen \/ WaitForLevel \/ PendData
              \/ RestoreTrigLevel \/ TestEmpty \/ ClearReadable

RxNext == \/ \E n \in 1 .. MaxRead : AppRead(n)
          \/ ReaderStep
          \/ ReadTimeout
          \/ \E d \in Chunks : PortWrite(d)

RxSpec == RxInit /\ [][RxNext]_rxVars
-----------------------------------------------------------------------------
RxTypeOK == /\ RingTypeOK
            /\ rpc \in ReadPCs
            /\ want \in Nat
            /\ level \in Nat
            /\ taken \in 0 .. MaxLen
            /\ dst \in Seq(Byte)
            /\ got \in Seq(Byte)
            /\ trig \in Nat
            /\ recv_semp \in {0, 1}
            /\ readable \in BOOLEAN
            /\ overrun \in BOOLEAN
            /\ line \in Seq(Byte)

(* A reader sleeps only while the buffer is below the level that            *)
(* UART_PortWrite compares with: no byte that reached the level came too    *)
(* early to be noticed, although the reader moves the level, tests the      *)
(* buffer and pends in three separate steps.                                *)
ReaderIsRemembered == rpc = "wait" => len < trig
=============================================================================
