------------------------------- MODULE UartTx -------------------------------
(***************************************************************************)
(* Sending on the modem UART.  A handler clears the transmit structure     *)
(* (flushTxBuffer), copies its command into it and writes the first byte   *)
(* to the FIFO (UWriteString); the transmit interrupt writes each of the   *)
(* others when the one before has left.  The interrupt runs between any    *)
(* two steps of the superloop, which looks at no lock: gprs_tx_buff.locked *)
(* is cleared and never set.                                               *)
(*                                                                         *)
(* The UART itself is external: a FIFO, a shift register, and TX_DONE,     *)
(* which is up while both are empty.                                       *)
(***************************************************************************)
EXTENDS Naturals, Sequences

CONSTANTS
  TxMax,      \* GPRS_TX_BUFFER_MAX
  Byte,       \* the bytes of a command, none of them NUL
  Strings,    \* what UWriteString is called with
  SizeError   \* "BUFFER SIZE ERROR"

NUL == 0

ASSUME TxMaxAssumption == TxMax \in Nat \ {0}
ASSUME ByteAssumption == NUL \notin Byte
ASSUME StringsAssumption == Strings \subseteq Seq(Byte)
ASSUME SizeErrorAssumption == SizeError \in Seq(Byte) /\ Len(SizeError) \in 1..(TxMax - 1)

VARIABLES
  buffer,    \* gprs_tx_buff.buffer
  index,     \* gprs_tx_buff.index
  intr,      \* the transmit interrupt is enabled
  fifo,      \* the transmit FIFO
  shifter,   \* the byte being sent, NUL if none is
  pc,        \* where the superloop is
  text,      \* what the last caller of UWriteString wants sent
  copied,    \* strcpy: how many bytes it has copied
  line,      \* bytes sent since the last flush
  clean      \* nothing was being sent at the last flush

uartVars == <<intr, fifo, shifter>>
callVars == <<pc, text, copied>>
historyVars == <<line, clean>>
txVars == <<buffer, index, uartVars, callVars, historyVars>>

Step == {"idle", "clear_buffer", "clear_index", "copy", "reset_fifo", "reset_index", "first",
         "enable"}

TxTypeOK ==
  /\ buffer \in [0..(TxMax - 1) -> Byte \cup {NUL}]
  /\ index \in 0..TxMax
  /\ intr \in BOOLEAN
  /\ fifo \in Seq(Byte \cup {NUL}) /\ Len(fifo) <= 2
  /\ shifter \in Byte \cup {NUL}
  /\ pc \in Step
  /\ text \in Seq(Byte) /\ Len(text) < TxMax
  /\ copied \in 0..Len(text)
  /\ line \in Seq(Byte)
  /\ clean \in BOOLEAN

Empty == [i \in 0..(TxMax - 1) |-> NUL]

TxInit ==
  /\ buffer = Empty /\ index = 0
  /\ intr = FALSE /\ fifo = <<>> /\ shifter = NUL
  /\ pc = "idle" /\ text = <<>> /\ copied = 0
  /\ line = <<>> /\ clean = TRUE

-----------------------------------------------------------------------------
(***************************************************************************)
(* The UART.                                                               *)
(***************************************************************************)
TxDone == fifo = <<>> /\ shifter = NUL

Load ==
  /\ shifter = NUL /\ fifo # <<>>
  /\ shifter' = Head(fifo) /\ fifo' = Tail(fifo)
  /\ UNCHANGED <<buffer, index, intr, callVars, historyVars>>

ShiftOut ==
  /\ shifter # NUL
  /\ shifter' = NUL
  /\ line' = Append(line, shifter)
  /\ UNCHANGED <<buffer, index, intr, fifo, callVars, clean>>

(***************************************************************************)
(* The transmit interrupt.                                                 *)
(***************************************************************************)
Exhausted(i) == i >= TxMax \/ buffer[i] = NUL

\* MUTANT: the interrupt is not disabled after the last byte.
TxIntrStaysOn ==
  /\ intr /\ TxDone
  /\ index' = IF Exhausted(index + 1) THEN index ELSE index + 1
  /\ fifo' = IF Exhausted(index + 1) THEN <<>> ELSE <<buffer[index + 1]>>
  /\ UNCHANGED <<buffer, intr, shifter, callVars, historyVars>>

\* MUTANT: the byte is sent before the index moves on.
TxIntrPostIncrement ==
  /\ intr /\ TxDone
  /\ index' = index + 1
  /\ IF Exhausted(index)
     THEN intr' = FALSE /\ fifo' = <<>>
     ELSE fifo' = <<buffer[index]>> /\ UNCHANGED intr
  /\ UNCHANGED <<buffer, shifter, callVars, historyVars>>

\* uart1_tx_intr: the next byte, or the end.
uart1_tx_intr ==
  /\ intr /\ TxDone
  /\ index' = index + 1
  /\ IF Exhausted(index + 1)
     THEN intr' = FALSE /\ fifo' = <<>>
     ELSE fifo' = <<buffer[index + 1]>> /\ UNCHANGED intr
  /\ UNCHANGED <<buffer, shifter, callVars, historyVars>>

-----------------------------------------------------------------------------
(***************************************************************************)
(* The superloop: flushTxBuffer, then UWriteString.                        *)
(***************************************************************************)
At(step) == pc = step
GoTo(step) == pc' = step

TextOf(str) == IF Len(str) < TxMax THEN str ELSE SizeError

\* flushTxBuffer resets the FIFO, ...
FlushFifo ==
  /\ At("idle") /\ GoTo("clear_buffer")
  /\ \E str \in Strings : text' = TextOf(str)
  /\ fifo' = <<>>
  /\ copied' = 0
  /\ line' = <<>> /\ clean' = (TxDone /\ ~ intr)
  /\ UNCHANGED <<buffer, index, intr, shifter>>

\* ... and clears the structure in the order of its fields: locked, buffer, index.
ClearBuffer ==
  /\ At("clear_buffer") /\ GoTo("clear_index")
  /\ buffer' = Empty
  /\ UNCHANGED <<index, uartVars, text, copied, historyVars>>

ClearIndex ==
  /\ At("clear_index") /\ GoTo(IF text = <<>> THEN "idle" ELSE "copy")
  /\ index' = 0
  /\ UNCHANGED <<buffer, uartVars, text, copied, historyVars>>

\* UWriteString: strcpy, byte by byte.  The terminating NUL is there since the flush.
CopyByte ==
  /\ At("copy") /\ GoTo(IF copied + 1 = Len(text) THEN "reset_fifo" ELSE "copy")
  /\ buffer' = [buffer EXCEPT ![copied] = text[copied + 1]]
  /\ copied' = copied + 1
  /\ UNCHANGED <<index, uartVars, text, historyVars>>

ResetFifo ==
  /\ At("reset_fifo") /\ GoTo("reset_index")
  /\ fifo' = <<>>
  /\ UNCHANGED <<buffer, index, intr, shifter, text, copied, historyVars>>

ResetIndex ==
  /\ At("reset_index") /\ GoTo("first")
  /\ index' = 0
  /\ UNCHANGED <<buffer, uartVars, text, copied, historyVars>>

WriteFirst ==
  /\ At("first") /\ GoTo("enable")
  /\ fifo' = Append(fifo, buffer[0])
  /\ UNCHANGED <<buffer, index, intr, shifter, text, copied, historyVars>>

EnableIntr ==
  /\ At("enable") /\ GoTo("idle")
  /\ intr' = TRUE
  /\ UNCHANGED <<buffer, index, fifo, shifter, text, copied, historyVars>>

flushTxBuffer == FlushFifo \/ ClearBuffer \/ ClearIndex
UWriteString == CopyByte \/ ResetFifo \/ ResetIndex \/ WriteFirst \/ EnableIntr

TxNext == Load \/ ShiftOut \/ uart1_tx_intr \/ flushTxBuffer \/ UWriteString

\* The UART sends, the interrupt is served, a call is carried through.  Nobody has to call.
TxFairness ==
  /\ WF_txVars(Load) /\ WF_txVars(ShiftOut) /\ WF_txVars(uart1_tx_intr)
  /\ WF_txVars(ClearBuffer \/ ClearIndex \/ UWriteString)

TxSpec == TxInit /\ [][TxNext]_txVars /\ TxFairness

-----------------------------------------------------------------------------
(***************************************************************************)
(* Properties.                                                             *)
(***************************************************************************)
IsPrefixOf(s, t) == Len(s) <= Len(t) /\ \A i \in 1..Len(s) : s[i] = t[i]

\* A command that does not cut off another goes out in order, no byte of it left out or
\* sent twice, however late the interrupts come, and all of it has been sent when its
\* transmission is over.
SentWhole == clean => /\ IsPrefixOf(line, text)
                      /\ At("idle") /\ ~ intr => line = text

\* Commands are sent whole, and whatever cuts them off, the index stays in the buffer and the
\* FIFO holds at most two bytes.
TxInv == TxTypeOK /\ SentWhole

\* When the handlers stop sending, the interrupt switches itself off, also when the last command
\* cut off another one in the middle.
TransmissionEnds == <>[]At("idle") => <>[](~ intr)
=============================================================================
