------------------------------ MODULE UartRx ------------------------------
(***************************************************************************)
(* Receiving on the modem UART.  The receive interrupt stores bytes, the   *)
(* timer interrupt counts the ticks of silence, and the superloop declares *)
(* a frame complete, hands it to a poll of check_string, or flushes all    *)
(* before a command.  The interrupts run between any two steps of the      *)
(* superloop: nothing the superloop does here is in a critical section.    *)
(*                                                                         *)
(* gprs_rx_buff.buffer up to gprs_rx_buff.index is the sequence rx: what   *)
(* lies beyond index is never handed over.                                 *)
(***************************************************************************)
EXTENDS Naturals, Sequences

CONSTANTS
  RxMax,          \* GPRS_RX_BUFFER_MAX
  FrameTimeout,   \* GPRS_FRAME_TIMEOUT: ticks of silence that end a frame
  TaskTicks,      \* SCHEDULE_50MS_CNT
  MaxBytes        \* bound of the model: how many bytes arrive

ASSUME RxMaxAssumption == RxMax \in Nat \ {0}
ASSUME FrameTimeoutAssumption == FrameTimeout \in Nat \ {0}
ASSUME TaskTicksAssumption == TaskTicks \in Nat \ {0}
ASSUME MaxBytesAssumption == MaxBytes \in Nat

VARIABLES
  rx,          \* gprs_rx_buff.buffer and index; bytes are numbered as they arrive
  locked,      \* gprs_rx_buff.locked: a frame is complete
  elapsed,     \* gprs_rx_isr_handler.elapsed, stops at FrameTimeout here (0xFF there)
  cnt_50ms,    \* ticks to the next 50 ms task
  flg_50ms,    \* the 50 ms task is due
  pc,          \* where the superloop is
  copied,      \* check_string: what memcpy put into copy_here
  count,       \* get_rx_data: retval
  handed,      \* the frame the last successful poll returned
  arrived,     \* number of bytes so far
  disturbed    \* a byte arrived since the frame was declared complete

clockVars == <<elapsed, cnt_50ms, flg_50ms>>
readerVars == <<copied, count, handed>>
lineVars == <<arrived, disturbed>>
rxVars == <<rx, locked, clockVars, pc, readerVars, lineVars>>

Junk == 0
Byte == 1..MaxBytes
Step == {"check", "expired", "judge", "task", "copy", "terminate", "count", "rewind", "reread",
         "flush_elapsed", "flush_locked", "flush_buffer"}

IsFrame(s, S) == s \in Seq(S) /\ Len(s) <= RxMax

RxTypeOK ==
  /\ IsFrame(rx, Byte)
  /\ locked \in BOOLEAN
  /\ elapsed \in 0..FrameTimeout
  /\ cnt_50ms \in 0..(TaskTicks - 1)
  /\ flg_50ms \in BOOLEAN
  /\ pc \in Step
  /\ IsFrame(copied, Byte)
  /\ count \in 0..RxMax
  /\ IsFrame(handed, Byte \cup {Junk})
  /\ arrived \in 0..MaxBytes
  /\ disturbed \in BOOLEAN

RxInit ==
  /\ rx = <<>> /\ locked = FALSE
  /\ elapsed = 0 /\ cnt_50ms = 0 /\ flg_50ms = FALSE
  /\ pc = "check"
  /\ copied = <<>> /\ count = 0 /\ handed = <<>>
  /\ arrived = 0 /\ disturbed = FALSE

-----------------------------------------------------------------------------
(***************************************************************************)
(* The interrupts.                                                         *)
(***************************************************************************)
UpTo(limit, n) == IF n < limit THEN n + 1 ELSE limit

\* MUTANT: no look at the room left.
RxIntrOverrun ==
  /\ arrived' \in (arrived + 1)..MaxBytes
  /\ rx' = Append(rx, arrived + 1)
  /\ elapsed' = 0
  /\ disturbed' = TRUE
  /\ UNCHANGED <<locked, cnt_50ms, flg_50ms, pc, readerVars>>

\* uart1_rx_intr: a byte is stored if there is room; silence starts over.  The FIFO is
\* then reset: bytes that have come in after that one are lost with it.
uart1_rx_intr ==
  /\ arrived' \in (arrived + 1)..MaxBytes
  /\ rx' = IF Len(rx) < RxMax THEN Append(rx, arrived + 1) ELSE rx
  /\ elapsed' = 0
  /\ disturbed' = TRUE
  /\ UNCHANGED <<locked, cnt_50ms, flg_50ms, pc, readerVars>>

\* timer_group0_isr, every 10 ms.
timer_group0_isr ==
  /\ elapsed' = UpTo(FrameTimeout, elapsed)
  /\ cnt_50ms' = (cnt_50ms + 1) % TaskTicks
  /\ flg_50ms' = (flg_50ms \/ cnt_50ms' = 0)
  /\ UNCHANGED <<rx, locked, pc, readerVars, arrived, disturbed>>

-----------------------------------------------------------------------------
(***************************************************************************)
(* checkforUARTFrameTimeout, at the top of the superloop.                  *)
(***************************************************************************)
At(step) == pc = step
GoTo(step) == pc' = step

CheckElapsed ==
  /\ At("check")
  /\ GoTo(IF elapsed >= FrameTimeout THEN "expired" ELSE "task")
  /\ UNCHANGED <<rx, locked, clockVars, readerVars, lineVars>>

RestartElapsed ==
  /\ At("expired") /\ GoTo("judge")
  /\ elapsed' = 0
  /\ UNCHANGED <<rx, locked, cnt_50ms, flg_50ms, readerVars, lineVars>>

\* MUTANT: index > 1.
LockFrameOffByOne ==
  /\ At("judge") /\ GoTo("task")
  /\ locked' = (locked \/ Len(rx) > 1)
  /\ disturbed' = (disturbed /\ rx = <<>>)
  /\ UNCHANGED <<rx, clockVars, readerVars, arrived>>

\* index > 0, and at once locked: a byte in between makes no difference.
LockFrame ==
  /\ At("judge") /\ GoTo("task")
  /\ locked' = (locked \/ rx # <<>>)
  /\ disturbed' = (disturbed /\ rx = <<>>)
  /\ UNCHANGED <<rx, clockVars, readerVars, arrived>>

-----------------------------------------------------------------------------
(***************************************************************************)
(* The 50 ms task polls for an answer or sends a command.                  *)
(***************************************************************************)
NotDue ==
  /\ At("task") /\ ~ flg_50ms
  /\ GoTo("check")
  /\ UNCHANGED <<rx, locked, clockVars, readerVars, lineVars>>

\* check_string: nothing new, or a frame to be fetched.
Poll ==
  /\ At("task") /\ flg_50ms
  /\ flg_50ms' = FALSE
  /\ GoTo(IF locked THEN "copy" ELSE "check")
  /\ locked' = FALSE
  /\ UNCHANGED <<rx, elapsed, cnt_50ms, readerVars, lineVars>>

\* MUTANT: the index is reset before it is read for the length.
CopyAndRewind ==
  /\ At("copy") /\ GoTo("terminate")
  /\ copied' = rx
  /\ rx' = <<>>
  /\ UNCHANGED <<locked, clockVars, count, handed, lineVars>>

\* get_rx_data reads index three times: for memcpy, ...
CopyFrame ==
  /\ At("copy") /\ GoTo("terminate")
  /\ copied' = rx
  /\ UNCHANGED <<rx, locked, clockVars, count, handed, lineVars>>

\* ... for the terminating NUL, which no later step looks at, ...
TerminateFrame ==
  /\ At("terminate") /\ GoTo("count")
  /\ UNCHANGED <<rx, locked, clockVars, readerVars, lineVars>>

\* ... and for the number of bytes it returns.
CountFrame ==
  /\ At("count") /\ GoTo("rewind")
  /\ count' = Len(rx)
  /\ UNCHANGED <<rx, locked, clockVars, copied, handed, lineVars>>

\* MUTANT: the bytes handed over stay in the buffer.
RewindBufferNot ==
  /\ At("rewind") /\ (GoTo("check") \/ GoTo("reread"))
  /\ handed' = [i \in 1..count |-> IF i <= Len(copied) THEN copied[i] ELSE Junk]
  /\ copied' = <<>> /\ count' = 0
  /\ UNCHANGED <<rx, locked, clockVars, lineVars>>

\* index = 0, and check_string goes on with count bytes of copy_here: those beyond
\* what memcpy copied are whatever copy_here held.
RewindBuffer ==
  /\ At("rewind") /\ (GoTo("check") \/ GoTo("reread"))
  /\ rx' = <<>>
  /\ handed' = [i \in 1..count |-> IF i <= Len(copied) THEN copied[i] ELSE Junk]
  /\ copied' = <<>> /\ count' = 0
  /\ UNCHANGED <<locked, clockVars, lineVars>>

\* After an answer to CCLK, check_date_time calls get_rx_data again, locked or not, and
\* ignores what it gets: bytes that have arrived meanwhile are lost.
Reread ==
  /\ At("reread") /\ GoTo("check")
  /\ rx' = <<>>
  /\ UNCHANGED <<locked, clockVars, readerVars, lineVars>>

\* A handler that sends flushes first: flushRxBuffer.
Send ==
  /\ At("task") /\ flg_50ms
  /\ flg_50ms' = FALSE
  /\ GoTo("flush_elapsed")
  /\ UNCHANGED <<rx, locked, elapsed, cnt_50ms, readerVars, lineVars>>

FlushElapsed ==
  /\ At("flush_elapsed") /\ GoTo("flush_locked")
  /\ elapsed' = 0
  /\ UNCHANGED <<rx, locked, cnt_50ms, flg_50ms, readerVars, lineVars>>

\* MUTANT: the flush forgets the lock.
FlushLockedNot ==
  /\ At("flush_locked") /\ GoTo("flush_buffer")
  /\ UNCHANGED <<rx, locked, clockVars, readerVars, lineVars>>

\* One memset clears the structure in the order of its fields: locked, buffer, index.
FlushLocked ==
  /\ At("flush_locked") /\ GoTo("flush_buffer")
  /\ locked' = FALSE
  /\ UNCHANGED <<rx, clockVars, readerVars, lineVars>>

\* A byte stored before the index is cleared is lost with the others.
FlushBuffer ==
  /\ At("flush_buffer") /\ GoTo("check")
  /\ rx' = <<>>
  /\ UNCHANGED <<locked, clockVars, readerVars, lineVars>>

-----------------------------------------------------------------------------
checkforUARTFrameTimeout == CheckElapsed \/ RestartElapsed \/ LockFrame
check_string == Poll \/ CopyFrame \/ TerminateFrame \/ CountFrame \/ RewindBuffer \/ Reread
flushRxBuffer == Send \/ FlushElapsed \/ FlushLocked \/ FlushBuffer

superloop == checkforUARTFrameTimeout \/ NotDue \/ check_string \/ flushRxBuffer

RxNext == uart1_rx_intr \/ timer_group0_isr \/ superloop

\* The superloop never stops and the timer keeps ticking; the modem need not send.
RxFairness == WF_rxVars(superloop) /\ WF_rxVars(timer_group0_isr)

RxSpec == RxInit /\ [][RxNext]_rxVars /\ RxFairness

-----------------------------------------------------------------------------
(***************************************************************************)
(* Properties.                                                             *)
(***************************************************************************)
\* A frame declared complete is there to be fetched, whenever a poll may look.
LockedHasBytes == At("task") /\ locked => rx # <<>>

\* The buffer does not overflow, and its lock stands for a frame.
BufferSound == RxTypeOK /\ LockedHasBytes

Bytes(frame) == {frame[i] : i \in DOMAIN frame} \ {Junk}

\* No byte is handed over twice, and none after a later one.
NeverTwice == [][\A old \in Bytes(handed), new \in Bytes(handed') :
                   handed' # handed => old < new]_rxVars

\* A frame during whose hand-over the modem was silent is handed over as received,
\* and not as an empty one.
WholeFrame == [][At("rewind") /\ ~ disturbed /\ superloop => rx # <<>> /\ handed' = rx]_rxVars

\* What was received is not kept for ever: it is handed over, or dropped by a flush.
FrameLeaves == rx # <<>> ~> rx = <<>>

Mailbox == INSTANCE FrameMailbox WITH Capacity <- RxMax, inbox <- rx

\* The receive side implements FrameMailbox.
IsMailbox == Mailbox!MailboxSpec
=============================================================================
