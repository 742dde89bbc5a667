---------------------------- MODULE UartTx_proofs ----------------------------
(***************************************************************************)
(* What UartTx sends, for any size of the buffer and any strings.          *)
(***************************************************************************)
EXTENDS UartTx, SequenceTheorems, TLAPS

\* The buffer holds the first n bytes of the text, and NULs.
Holds(n) == \A i \in 0..(TxMax - 1) : buffer[i] = IF i < n THEN text[i + 1] ELSE NUL

\* A call that has cleared the buffer fills it; from the last byte on it holds the text.
BufferFilled ==
  /\ pc \in {"clear_buffer", "clear_index"} => copied = 0
  /\ pc = "clear_index" => Holds(0)
  /\ pc = "copy" => copied < Len(text) /\ Holds(copied)
  /\ pc \in {"reset_fifo", "reset_index", "first", "enable", "idle"} => Holds(Len(text))
  /\ pc \in {"reset_fifo", "reset_index", "first", "enable"} => text # <<>>

\* An interrupt left over from the command before stays within the new text, so that the
\* index is in the buffer when the interrupt is enabled again; and it has at most one byte
\* in the FIFO when the first one of the new command is written.
LeftOver ==
  /\ intr => index < TxMax
  /\ pc \in {"first", "enable"} => index <= Len(text) /\ (intr => index < Len(text))
  /\ pc \notin {"enable", "idle"} => Len(fifo) <= 1

OnTheWay == Len(line) + (IF TxDone THEN 0 ELSE 1)

\* The byte that is on its way is the one after those that have been sent.
NextByte(b) == Len(line) < Len(text) /\ b = text[Len(line) + 1]

\* A command that does not cut off another: one byte is on its way, if any, and the
\* index is that of the last byte written.
InOrder ==
  clean =>
    /\ IsPrefixOf(line, text)
    /\ Len(fifo) <= 1 /\ (shifter # NUL => fifo = <<>>)
    /\ fifo # <<>> => NextByte(fifo[1])
    /\ shifter # NUL => NextByte(shifter)
    /\ pc \notin {"enable", "idle"} => TxDone /\ ~ intr /\ line = <<>>
    /\ pc \in {"first", "enable"} => index = 0
    /\ pc = "enable" => ~ intr /\ OnTheWay = 1
    /\ pc = "idle" => IF intr THEN OnTheWay = index + 1 ELSE TxDone /\ line = text

TxSafe == TxTypeOK /\ BufferFilled /\ LeftOver /\ InOrder

-----------------------------------------------------------------------------
LEMMA TextFits ==
  ASSUME NEW str \in Strings
  PROVE  TextOf(str) \in Seq(Byte) /\ Len(TextOf(str)) < TxMax
<1>1. str \in Seq(Byte) /\ SizeError \in Seq(Byte) /\ Len(SizeError) \in 1..(TxMax - 1)
  BY StringsAssumption, SizeErrorAssumption
<1> QED BY <1>1, TxMaxAssumption DEF TextOf

LEMMA OneByte ==
  ASSUME NEW S, NEW b \in S
  PROVE  <<b>> \in Seq(S) /\ Len(<<b>>) = 1 /\ <<b>>[1] = b /\ <<b>> # <<>>
OBVIOUS

LEMMA InitTx ==
  ASSUME TxInit
  PROVE  TxSafe
<1> USE TxMaxAssumption DEF TxInit
<1>1. TxTypeOK
  <2>1. buffer \in [0..(TxMax - 1) -> Byte \cup {NUL}]
    BY DEF Empty
  <2>2. fifo \in Seq(Byte \cup {NUL}) /\ Len(fifo) = 0
        /\ text \in Seq(Byte) /\ Len(text) = 0 /\ line \in Seq(Byte)
    BY EmptySeq
  <2> QED BY <2>1, <2>2 DEF TxTypeOK, Step
<1>2. BufferFilled
  BY DEF BufferFilled, Holds, Empty
<1>3. LeftOver /\ InOrder
  BY DEF LeftOver, InOrder, TxDone, IsPrefixOf
<1> QED BY <1>1, <1>2, <1>3 DEF TxSafe

-----------------------------------------------------------------------------
(***************************************************************************)
(* The UART and the interrupt.                                             *)
(***************************************************************************)
\* What the UART does to its FIFO leaves the buffer as it was filled.
LEMMA BufferKept ==
  ASSUME BufferFilled, UNCHANGED <<buffer, callVars>>
  PROVE  BufferFilled'
BY DEF BufferFilled, Holds, callVars

LEMMA LoadStep ==
  ASSUME TxSafe, Load
  PROVE  TxSafe'
<1> USE TxMaxAssumption DEF TxSafe, Load
<1>1. UNCHANGED <<buffer, index, intr, pc, text, copied, line, clean>>
  BY DEF callVars, historyVars
<1>2. /\ shifter' \in Byte \cup {NUL} /\ shifter' = fifo[1]
      /\ fifo' \in Seq(Byte \cup {NUL}) /\ Len(fifo') = Len(fifo) - 1
  <2>1. fifo \in Seq(Byte \cup {NUL}) /\ fifo # <<>> /\ shifter' = Head(fifo) /\ fifo' = Tail(fifo)
    BY DEF TxTypeOK
  <2> QED BY <2>1, HeadTailProperties
<1>3. TxTypeOK'
  BY <1>1, <1>2 DEF TxTypeOK
<1>4. BufferFilled'
  BY <1>1, BufferKept DEF callVars
<1>5. LeftOver'
  BY <1>1, <1>2 DEF LeftOver, TxTypeOK
<1>6. InOrder'
  <2> SUFFICES ASSUME clean
               PROVE  InOrder'
    BY <1>1 DEF InOrder
  <2>1. fifo' = <<>> /\ ~ TxDone
    BY <1>2 DEF InOrder, TxTypeOK, TxDone
  <2>2. NextByte(fifo[1]) /\ shifter' # NUL
    BY <1>2, ByteAssumption DEF InOrder, NextByte, TxTypeOK
  <2>3. OnTheWay' = OnTheWay /\ ~ TxDone'
    BY <1>1, <2>1, <2>2 DEF OnTheWay, TxDone
  <2> QED BY <1>1, <1>2, <2>1, <2>2, <2>3 DEF InOrder, NextByte, IsPrefixOf
<1> QED BY <1>3, <1>4, <1>5, <1>6

LEMMA ShiftOutStep ==
  ASSUME TxSafe, ShiftOut
  PROVE  TxSafe'
<1> USE TxMaxAssumption DEF TxSafe, ShiftOut
<1>1. UNCHANGED <<buffer, index, intr, fifo, pc, text, copied, clean>>
  BY DEF callVars
<1>2. /\ line' \in Seq(Byte) /\ Len(line') = Len(line) + 1
      /\ \A i \in 1..Len(line) : line'[i] = line[i]
      /\ line'[Len(line) + 1] = shifter
  <2>1. line \in Seq(Byte) /\ shifter \in Byte /\ line' = Append(line, shifter)
    BY DEF TxTypeOK
  <2> QED BY <2>1, AppendProperties
<1>3. TxTypeOK'
  BY <1>1, <1>2 DEF TxTypeOK
<1>4. BufferFilled'
  BY <1>1, BufferKept DEF callVars
<1>5. LeftOver'
  BY <1>1 DEF LeftOver
<1>6. InOrder'
  <2> SUFFICES ASSUME clean
               PROVE  InOrder'
    BY <1>1 DEF InOrder
  <2>1. fifo' = <<>> /\ TxDone' /\ ~ TxDone
    BY <1>1 DEF InOrder, TxDone
  <2>2. NextByte(shifter) /\ line \in Seq(Byte) /\ text \in Seq(Byte)
    BY DEF InOrder, TxTypeOK
  <2>3. IsPrefixOf(line', text)
    BY <1>2, <2>2 DEF InOrder, IsPrefixOf, NextByte
  <2>4. OnTheWay' = OnTheWay
    BY <1>2, <2>1, <2>2 DEF OnTheWay
  <2> QED BY <1>1, <2>1, <2>3, <2>4 DEF InOrder
<1> QED BY <1>3, <1>4, <1>5, <1>6

LEMMA uart1_tx_intrStep ==
  ASSUME TxSafe, uart1_tx_intr
  PROVE  TxSafe'
<1> USE TxMaxAssumption DEF TxSafe
<1>1. /\ UNCHANGED <<buffer, shifter, pc, text, copied, line, clean>>
      /\ intr /\ TxDone /\ index' = index + 1
      /\ IF Exhausted(index + 1) THEN ~ intr' /\ fifo' = <<>>
         ELSE fifo' = <<buffer[index + 1]>> /\ intr'
      /\ intr' \in BOOLEAN
  BY DEF TxTypeOK, uart1_tx_intr, callVars, historyVars
<1>2. /\ index \in 0..(TxMax - 1)
      /\ text \in Seq(Byte) /\ line \in Seq(Byte) /\ Len(text) < TxMax
      /\ Len(text) \in Nat /\ Len(line) \in Nat
  BY <1>1 DEF LeftOver, TxTypeOK
<1>3. ~ Exhausted(index + 1) => index + 1 < TxMax /\ buffer[index + 1] \in Byte
  BY <1>2 DEF Exhausted, TxTypeOK
<1>4. fifo' \in Seq(Byte \cup {NUL}) /\ Len(fifo') <= 1
  <2>1. CASE Exhausted(index + 1)
    BY <1>1, <2>1, EmptySeq
  <2>2. CASE ~ Exhausted(index + 1)
    <3>1. fifo' = <<buffer[index + 1]>> /\ buffer[index + 1] \in Byte \cup {NUL}
      BY <1>1, <1>3, <2>2
    <3> QED BY <3>1, OneByte
  <2> QED BY <2>1, <2>2
<1>5. TxTypeOK'
  BY <1>1, <1>2, <1>4 DEF TxTypeOK
<1>6. BufferFilled'
  BY <1>1, BufferKept DEF callVars
<1>7. LeftOver'
  <2>1. intr' => index' < TxMax
    BY <1>1, <1>2, <1>3
  <2>2. ASSUME pc \in {"first", "enable"}
        PROVE  index' <= Len(text) /\ (intr' => index' < Len(text))
    <3>1. index < Len(text) /\ Holds(Len(text))
      BY <1>1, <2>2 DEF LeftOver, BufferFilled
    <3>2. index + 1 = Len(text) => Exhausted(index + 1)
      BY <1>2, <3>1 DEF Holds, Exhausted
    <3> QED BY <1>1, <1>2, <3>1, <3>2
  <2> QED BY <1>1, <1>4, <2>1, <2>2 DEF LeftOver
<1>8. InOrder'
  <2> SUFFICES ASSUME clean
               PROVE  InOrder'
    BY <1>1 DEF InOrder
  <2>1. pc = "idle" /\ Len(line) = index + 1 /\ IsPrefixOf(line, text) /\ Holds(Len(text))
    BY <1>1, <1>2 DEF InOrder, OnTheWay, BufferFilled, TxTypeOK, Step
  <2>2. CASE Exhausted(index + 1)
    <3>1. Len(line) = Len(text)
      <4>1. Len(line) < Len(text) => buffer[index + 1] = text[index + 2] /\ text[index + 2] \in Byte
        BY <1>2, <2>1, ElementOfSeq DEF Holds
      <4> QED BY <1>2, <2>1, <2>2, <4>1, ByteAssumption DEF Exhausted, IsPrefixOf
    <3>2. line = text
      BY <1>2, <2>1, <3>1, SeqEqual DEF IsPrefixOf
    <3> QED BY <1>1, <2>1, <2>2, <3>2 DEF InOrder, TxDone
  <2>3. CASE ~ Exhausted(index + 1)
    <3>1. index + 1 < Len(text) /\ buffer[index + 1] = text[index + 2]
      BY <1>2, <1>3, <2>1, <2>3, ByteAssumption DEF Holds
    <3>2. fifo' # <<>> /\ fifo'[1] = text[Len(line) + 1]
      <4>1. fifo' = <<buffer[index + 1]>> /\ buffer[index + 1] \in Byte
        BY <1>1, <1>3, <2>3
      <4> QED BY <1>2, <2>1, <3>1, <4>1, OneByte
    <3>3. ~ TxDone' /\ OnTheWay' = index' + 1
      BY <1>1, <1>2, <2>1, <3>2 DEF TxDone, OnTheWay
    <3>4. NextByte(fifo[1])' /\ shifter' = NUL
      BY <1>1, <2>1, <3>1, <3>2 DEF NextByte, TxDone
    <3> QED BY <1>1, <1>4, <2>1, <2>3, <3>2, <3>3, <3>4 DEF InOrder
  <2> QED BY <2>2, <2>3
<1> QED BY <1>5, <1>6, <1>7, <1>8
-----------------------------------------------------------------------------
(***************************************************************************)
(* flushTxBuffer and UWriteString.                                         *)
(***************************************************************************)
LEMMA FlushFifoStep ==
  ASSUME TxSafe, FlushFifo
  PROVE  TxSafe'
<1> USE TxMaxAssumption DEF TxSafe, FlushFifo, At, GoTo
<1>1. text' \in Seq(Byte) /\ Len(text') < TxMax /\ Len(text') \in Nat
  BY TextFits, LenProperties
<1>2. /\ fifo' = <<>> /\ fifo' \in Seq(Byte \cup {NUL}) /\ Len(fifo') = 0
      /\ line' = <<>> /\ line' \in Seq(Byte) /\ Len(line') = 0
  BY EmptySeq
<1>3. UNCHANGED <<buffer, index, intr, shifter>> /\ pc' = "clear_buffer" /\ copied' = 0
  OBVIOUS
<1>4. clean' = (TxDone /\ ~ intr) /\ (TxDone /\ ~ intr) \in BOOLEAN
  OBVIOUS
<1>5. TxTypeOK'
  BY <1>1, <1>2, <1>3, <1>4 DEF TxTypeOK, Step
<1>6. BufferFilled' /\ LeftOver'
  BY <1>2, <1>3 DEF BufferFilled, LeftOver
<1>7. InOrder'
  <2> SUFFICES ASSUME clean'
               PROVE  InOrder'
    BY DEF InOrder
  <2>1. TxDone' /\ ~ intr'
    <3>1. TxDone /\ ~ intr
      BY <1>4
    <3> QED BY <1>2, <1>3, <3>1 DEF TxDone
  <2>2. IsPrefixOf(line, text)'
    BY <1>1, <1>2 DEF IsPrefixOf
  <2> QED BY <1>2, <1>3, <2>1, <2>2 DEF InOrder, TxDone
<1> QED BY <1>5, <1>6, <1>7

\* The steps that change neither what is sent nor what is on its way.
LEMMA OrderKept ==
  ASSUME InOrder, pc \notin {"enable", "idle"}, pc' \notin {"enable", "idle"},
         pc' # "first", UNCHANGED <<intr, fifo, shifter, text, historyVars>>
  PROVE  InOrder'
BY DEF InOrder, TxDone, IsPrefixOf, historyVars

LEMMA ClearBufferStep ==
  ASSUME TxSafe, ClearBuffer
  PROVE  TxSafe'
<1> USE TxMaxAssumption DEF TxSafe, ClearBuffer, At, GoTo
<1>1. UNCHANGED <<index, intr, fifo, shifter, text, copied, historyVars>> /\ pc' = "clear_index"
  BY DEF uartVars
<1>2. buffer' \in [0..(TxMax - 1) -> Byte \cup {NUL}]
  BY DEF Empty
<1>3. TxTypeOK'
  BY <1>1, <1>2 DEF TxTypeOK, Step, historyVars
<1>4. BufferFilled'
  BY <1>1 DEF BufferFilled, Holds, Empty
<1>5. LeftOver' /\ InOrder'
  BY <1>1, OrderKept DEF LeftOver
<1> QED BY <1>3, <1>4, <1>5

\* An empty string: UWriteString is not called, and nothing is on its way.
LEMMA ClearIndexStep ==
  ASSUME TxSafe, ClearIndex
  PROVE  TxSafe'
<1> USE TxMaxAssumption DEF TxSafe, ClearIndex, At, GoTo
<1>1. /\ UNCHANGED <<buffer, intr, fifo, shifter, text, copied, line, clean>> /\ index' = 0
      /\ pc = "clear_index" /\ pc' = (IF text = <<>> THEN "idle" ELSE "copy")
  BY DEF uartVars, historyVars
<1>2. text \in Seq(Byte) /\ Len(text) \in Nat /\ (text # <<>> => Len(text) > 0)
      /\ (text = <<>> => Len(text) = 0)
  BY EmptySeq, LenProperties DEF TxTypeOK
<1>3. TxTypeOK'
  BY <1>1 DEF TxTypeOK, Step
<1>4. BufferFilled'
  BY <1>1, <1>2 DEF BufferFilled, Holds
<1>5. LeftOver'
  BY <1>1 DEF LeftOver
<1>6. InOrder'
  BY <1>1, OrderKept DEF InOrder, TxDone, IsPrefixOf, historyVars
<1> QED BY <1>3, <1>4, <1>5, <1>6

LEMMA CopyByteStep ==
  ASSUME TxSafe, CopyByte
  PROVE  TxSafe'
<1> USE TxMaxAssumption DEF TxSafe, CopyByte, At, GoTo
<1>1. /\ UNCHANGED <<index, intr, fifo, shifter, text, historyVars>>
      /\ pc = "copy" /\ pc' = (IF copied + 1 = Len(text) THEN "reset_fifo" ELSE "copy")
      /\ buffer' = [buffer EXCEPT ![copied] = text[copied + 1]] /\ copied' = copied + 1
  BY DEF uartVars
<1>2. /\ text \in Seq(Byte) /\ Len(text) \in Nat /\ Len(text) < TxMax
      /\ copied \in Nat /\ copied < Len(text) /\ Holds(copied)
  BY <1>1 DEF TxTypeOK, BufferFilled
<1>3. text[copied + 1] \in Byte /\ text # <<>>
  BY <1>2, ElementOfSeq, EmptySeq
<1>4. buffer' \in [0..(TxMax - 1) -> Byte \cup {NUL}]
  BY <1>1, <1>3 DEF TxTypeOK
<1>5. TxTypeOK'
  BY <1>1, <1>2, <1>4 DEF TxTypeOK, Step, historyVars
<1>6. BufferFilled'
  <2>1. \A i \in 0..(TxMax - 1) : buffer'[i] = IF i < copied + 1 THEN text[i + 1] ELSE NUL
    BY <1>1, <1>2 DEF Holds, TxTypeOK
  <2> QED BY <1>1, <1>2, <1>3, <2>1 DEF BufferFilled, Holds
<1>7. LeftOver' /\ InOrder'
  BY <1>1, OrderKept DEF LeftOver
<1> QED BY <1>5, <1>6, <1>7

LEMMA ResetFifoStep ==
  ASSUME TxSafe, ResetFifo
  PROVE  TxSafe'
<1> USE TxMaxAssumption DEF TxSafe, ResetFifo, At, GoTo
<1>1. /\ UNCHANGED <<buffer, index, intr, shifter, text, copied, line, clean>>
      /\ pc = "reset_fifo" /\ pc' = "reset_index" /\ fifo' = <<>>
  BY DEF historyVars
<1>2. fifo' \in Seq(Byte \cup {NUL}) /\ Len(fifo') = 0
  BY <1>1, EmptySeq
<1>3. TxTypeOK'
  BY <1>1, <1>2 DEF TxTypeOK, Step
<1>4. BufferFilled' /\ LeftOver'
  BY <1>1, <1>2 DEF BufferFilled, Holds, LeftOver
<1>5. InOrder'
  BY <1>1, <1>2 DEF InOrder, TxDone, IsPrefixOf
<1> QED BY <1>3, <1>4, <1>5

LEMMA ResetIndexStep ==
  ASSUME TxSafe, ResetIndex
  PROVE  TxSafe'
<1> USE TxMaxAssumption DEF TxSafe, ResetIndex, At, GoTo
<1>1. /\ UNCHANGED <<buffer, intr, fifo, shifter, text, copied, historyVars>>
      /\ pc = "reset_index" /\ pc' = "first" /\ index' = 0
  BY DEF uartVars
<1>2. Len(text) > 0
  BY <1>1, EmptySeq DEF BufferFilled, TxTypeOK
<1>3. TxTypeOK'
  BY <1>1 DEF TxTypeOK, Step, historyVars
<1>4. BufferFilled' /\ LeftOver'
  BY <1>1, <1>2 DEF BufferFilled, Holds, LeftOver
<1>5. InOrder'
  BY <1>1 DEF InOrder, TxDone, IsPrefixOf, historyVars
<1> QED BY <1>3, <1>4, <1>5

LEMMA WriteFirstStep ==
  ASSUME TxSafe, WriteFirst
  PROVE  TxSafe'
<1> USE TxMaxAssumption DEF TxSafe, WriteFirst, At, GoTo
<1>1. /\ UNCHANGED <<buffer, index, intr, shifter, text, copied, line, clean>>
      /\ pc = "first" /\ pc' = "enable" /\ fifo' = Append(fifo, buffer[0])
  BY DEF historyVars
<1>2. /\ text \in Seq(Byte) /\ Len(text) \in Nat \ {0} /\ text[1] \in Byte
      /\ fifo \in Seq(Byte \cup {NUL}) /\ Len(fifo) <= 1
  BY <1>1, EmptySeq, ElementOfSeq DEF TxTypeOK, BufferFilled, LeftOver
<1>3. buffer[0] = text[1]
  BY <1>1, <1>2 DEF BufferFilled, Holds
<1>4. /\ fifo' \in Seq(Byte \cup {NUL}) /\ Len(fifo') = Len(fifo) + 1
      /\ fifo'[Len(fifo) + 1] = text[1] /\ fifo' # <<>>
  BY <1>1, <1>2, <1>3, AppendProperties
<1>5. TxTypeOK'
  BY <1>1, <1>2, <1>4 DEF TxTypeOK, Step
<1>6. BufferFilled' /\ LeftOver'
  BY <1>1 DEF BufferFilled, Holds, LeftOver
<1>7. InOrder'
  <2> SUFFICES ASSUME clean
               PROVE  InOrder'
    BY <1>1 DEF InOrder
  <2>1. TxDone /\ ~ intr /\ line = <<>> /\ Len(line) = 0 /\ Len(fifo) = 0
    BY <1>1 DEF InOrder, TxDone
  <2>2. index = 0 /\ shifter = NUL
    BY <1>1 DEF InOrder, TxDone
  <2>3. NextByte(fifo[1])' /\ Len(fifo') = 1 /\ ~ TxDone' /\ OnTheWay' = 1
    BY <1>1, <1>2, <1>4, <2>1 DEF NextByte, TxDone, OnTheWay
  <2> QED BY <1>1, <2>1, <2>2, <2>3 DEF InOrder, IsPrefixOf
<1> QED BY <1>5, <1>6, <1>7

LEMMA EnableIntrStep ==
  ASSUME TxSafe, EnableIntr
  PROVE  TxSafe'
<1> USE TxMaxAssumption DEF TxSafe, EnableIntr, At, GoTo
<1>1. /\ UNCHANGED <<buffer, index, fifo, shifter, text, copied, line, clean>>
      /\ pc = "enable" /\ pc' = "idle" /\ intr' = TRUE
  BY DEF historyVars
<1>2. TxTypeOK'
  BY <1>1 DEF TxTypeOK, Step
<1>3. BufferFilled'
  BY <1>1 DEF BufferFilled, Holds
<1>4. LeftOver'
  BY <1>1 DEF LeftOver, TxTypeOK
<1>5. InOrder'
  <2> SUFFICES ASSUME clean
               PROVE  InOrder'
    BY <1>1 DEF InOrder
  <2>1. OnTheWay' = index' + 1
    BY <1>1 DEF InOrder, OnTheWay, TxDone
  <2> QED BY <1>1, <2>1 DEF InOrder, IsPrefixOf, NextByte
<1> QED BY <1>2, <1>3, <1>4, <1>5

LEMMA TxInductive == TxSpec => []TxSafe
<1>1. TxSafe /\ [TxNext]_txVars => TxSafe'
  <2> SUFFICES ASSUME TxSafe, [TxNext]_txVars
               PROVE  TxSafe'
    OBVIOUS
  <2>1. CASE Load \/ ShiftOut \/ uart1_tx_intr
    BY <2>1, LoadStep, ShiftOutStep, uart1_tx_intrStep
  <2>2. CASE flushTxBuffer
    BY <2>2, FlushFifoStep, ClearBufferStep, ClearIndexStep DEF flushTxBuffer
  <2>3. CASE UWriteString
    BY <2>3, CopyByteStep, ResetFifoStep, ResetIndexStep, WriteFirstStep, EnableIntrStep
       DEF UWriteString
  <2>4. CASE UNCHANGED txVars
    <3>1. UNCHANGED <<buffer, index, intr, fifo, shifter, pc, text, copied, line, clean>>
      BY <2>4 DEF txVars, uartVars, callVars, historyVars
    <3>2. TxTypeOK' /\ BufferFilled' /\ LeftOver'
      BY <3>1 DEF TxSafe, TxTypeOK, BufferFilled, Holds, LeftOver
    <3>3. InOrder'
      BY <3>1 DEF TxSafe, InOrder, OnTheWay, NextByte, TxDone, IsPrefixOf
    <3> QED BY <3>2, <3>3 DEF TxSafe
  <2> QED BY <2>1, <2>2, <2>3, <2>4 DEF TxNext
<1> QED BY <1>1, InitTx, PTL DEF TxSpec

-----------------------------------------------------------------------------
\* A command that does not cut off another is sent by UWriteString and uart1_tx_intr in
\* order, once and to its end, and the index stays in the buffer and the FIFO is never
\* overfilled also when the interrupt of a command that was cut off is still enabled: for
\* any size of the buffer and any strings.
THEOREM CommandsSentWhole == TxSpec => []TxInv
<1>1. TxSafe => TxInv
  BY DEF TxSafe, InOrder, TxInv, SentWhole, At
<1> QED BY <1>1, TxInductive, PTL
=============================================================================
