---------------------------- MODULE UartRx_proofs ----------------------------
(***************************************************************************)
(* Proofs about UartRx, for every value of its constants.                  *)
(***************************************************************************)
EXTENDS UartRx, TLAPS

\* A frame is locked only while it has bytes, and never while it is handed over or
\* flushed: that is what makes the poll of a locked buffer safe, although the lock
\* and the index are cleared in different steps.
LockInv ==
  /\ locked => rx # <<>>
  /\ pc \in {"copy", "terminate", "count", "rewind", "reread", "flush_buffer"} => ~ locked

RxInv == RxTypeOK /\ LockInv

LEMMA EmptyFrame == ASSUME NEW S PROVE IsFrame(<<>>, S)
BY RxMaxAssumption DEF IsFrame

LEMMA InitRxInv ==
  ASSUME RxInit
  PROVE  RxInv
<1> USE DEF RxInit
<1>1. IsFrame(rx, Byte) /\ IsFrame(copied, Byte) /\ IsFrame(handed, Byte \cup {Junk})
  BY EmptyFrame
<1>2. elapsed \in 0..FrameTimeout
  BY FrameTimeoutAssumption
<1>3. cnt_50ms \in 0..(TaskTicks - 1)
  BY TaskTicksAssumption
<1>4. count \in 0..RxMax /\ arrived \in 0..MaxBytes
  BY RxMaxAssumption, MaxBytesAssumption
<1>5. locked \in BOOLEAN /\ flg_50ms \in BOOLEAN /\ disturbed \in BOOLEAN /\ pc \in Step
  BY DEF Step
<1>6. LockInv
  BY DEF LockInv
<1> QED BY <1>1, <1>2, <1>3, <1>4, <1>5, <1>6 DEF RxInv, RxTypeOK

LEMMA ByteStored ==
  ASSUME RxInv, uart1_rx_intr
  PROVE  RxInv'
<1> USE MaxBytesAssumption, RxMaxAssumption, FrameTimeoutAssumption DEF RxInv, RxTypeOK, uart1_rx_intr, readerVars
<1>1. arrived' \in 0..MaxBytes /\ arrived + 1 \in Byte
  BY DEF Byte
<1>2. IsFrame(rx', Byte)
  BY <1>1 DEF IsFrame
<1>3. rx # <<>> => rx' # <<>>
  <2>1. rx \in Seq(Byte) /\ rx' \in {rx, Append(rx, arrived + 1)}
    BY DEF IsFrame
  <2>2. Append(rx, arrived + 1) # <<>>
    BY <1>1, <2>1
  <2> QED BY <2>1, <2>2
<1>4. LockInv'
  BY <1>3 DEF LockInv
<1> QED BY <1>1, <1>2, <1>4

LEMMA TickCounted ==
  ASSUME RxInv, timer_group0_isr
  PROVE  RxInv'
<1> USE DEF RxInv, RxTypeOK, timer_group0_isr, readerVars
<1>1. elapsed' \in 0..FrameTimeout
  BY FrameTimeoutAssumption DEF UpTo
<1>2. cnt_50ms' \in 0..(TaskTicks - 1)
  BY TaskTicksAssumption
<1>3. flg_50ms' \in BOOLEAN
  <2>1. flg_50ms' = (flg_50ms \/ cnt_50ms' = 0)
    OBVIOUS
  <2>2. (flg_50ms \/ cnt_50ms' = 0) \in BOOLEAN
    OBVIOUS
  <2> QED BY <2>1, <2>2
<1>4. LockInv'
  BY DEF LockInv
<1> QED BY <1>1, <1>2, <1>3, <1>4

LEMMA FrameHanded ==
  ASSUME RxInv, RewindBuffer
  PROVE  RxInv'
<1> USE DEF RxInv, RxTypeOK, RewindBuffer, clockVars, lineVars
<1>1. IsFrame(rx', Byte) /\ IsFrame(copied', Byte)
  BY EmptyFrame
<1>2. count' \in 0..RxMax
  BY RxMaxAssumption
<1>3. IsFrame(handed', Byte \cup {Junk})
  <2>1. \A i \in 1..count : (IF i <= Len(copied) THEN copied[i] ELSE Junk) \in Byte \cup {Junk}
    BY DEF IsFrame
  <2>2. handed' \in [1..count -> Byte \cup {Junk}]
    BY <2>1
  <2>3. handed' \in Seq(Byte \cup {Junk}) /\ Len(handed') = count
    BY <2>2
  <2> QED BY <2>3 DEF IsFrame
<1>4. pc = "rewind" /\ pc' \in {"check", "reread"}
  BY DEF At, GoTo
<1>5. LockInv'
  BY <1>4 DEF LockInv
<1> QED BY <1>1, <1>2, <1>3, <1>4, <1>5 DEF Step

\* The other steps of the superloop leave the buffer alone, or empty it unlocked.
LEMMA FrameChecked ==
  ASSUME RxInv, checkforUARTFrameTimeout
  PROVE  RxInv'
<1> USE DEF RxInv, RxTypeOK, LockInv, readerVars, lineVars, clockVars, At, GoTo, Step
<1>1. CASE CheckElapsed
  BY <1>1 DEF CheckElapsed
<1>2. CASE RestartElapsed
  BY <1>2, FrameTimeoutAssumption DEF RestartElapsed
<1>3. CASE LockFrame
  <2>1. /\ locked' = (locked \/ rx # <<>>) /\ disturbed' = (disturbed /\ rx = <<>>)
        /\ pc' = "task" /\ UNCHANGED <<rx, clockVars, readerVars, arrived>>
    BY <1>3 DEF LockFrame
  <2>2. locked' \in BOOLEAN /\ disturbed' \in BOOLEAN
    <3>1. (locked \/ rx # <<>>) \in BOOLEAN /\ (disturbed /\ rx = <<>>) \in BOOLEAN
      OBVIOUS
    <3> QED BY <2>1, <3>1
  <2>3. LockInv'
    BY <2>1
  <2> QED BY <2>1, <2>2, <2>3
<1> QED BY <1>1, <1>2, <1>3 DEF checkforUARTFrameTimeout

LEMMA FramePolled ==
  ASSUME RxInv, check_string
  PROVE  RxInv'
<1> USE DEF RxInv, RxTypeOK, LockInv, readerVars, lineVars, clockVars, At, GoTo, Step
<1>1. CASE Poll
  BY <1>1 DEF Poll
<1>2. CASE CopyFrame
  BY <1>2 DEF CopyFrame
<1>3. CASE TerminateFrame
  BY <1>3 DEF TerminateFrame
<1>4. CASE CountFrame
  BY <1>4, RxMaxAssumption DEF CountFrame, IsFrame
<1>5. CASE RewindBuffer
  BY <1>5, FrameHanded
<1>6. CASE Reread
  BY <1>6, EmptyFrame DEF Reread
<1> QED BY <1>1, <1>2, <1>3, <1>4, <1>5, <1>6 DEF check_string

LEMMA BufferFlushed ==
  ASSUME RxInv, flushRxBuffer \/ NotDue
  PROVE  RxInv'
<1> USE DEF RxInv, RxTypeOK, LockInv, readerVars, lineVars, clockVars, At, GoTo, Step
<1>1. CASE Send
  BY <1>1 DEF Send
<1>2. CASE FlushElapsed
  BY <1>2, FrameTimeoutAssumption DEF FlushElapsed
<1>3. CASE FlushLocked
  BY <1>3 DEF FlushLocked
<1>4. CASE FlushBuffer
  BY <1>4, EmptyFrame DEF FlushBuffer
<1>5. CASE NotDue
  BY <1>5 DEF NotDue
<1> QED BY <1>1, <1>2, <1>3, <1>4, <1>5 DEF flushRxBuffer

LEMMA RxInductive == RxSpec => []RxInv
<1>1. RxInit => RxInv
  BY InitRxInv
<1>2. RxInv /\ [RxNext]_rxVars => RxInv'
  <2>1. ASSUME RxInv, UNCHANGED rxVars
        PROVE  RxInv'
    BY <2>1 DEF RxInv, RxTypeOK, LockInv, rxVars, readerVars, lineVars, clockVars
  <2> QED BY <2>1, ByteStored, TickCounted, FrameChecked, FramePolled, BufferFlushed DEF RxNext, superloop
<1> QED BY <1>1, <1>2, PTL DEF RxSpec

\* The receive buffer never overflows, no counter leaves its range, and a frame declared
\* complete is there to be fetched whenever a poll may look: for any buffer size, whatever
\* the two interrupts interrupt.
THEOREM BufferIsSound == RxSpec => []BufferSound
<1>1. RxInv => BufferSound
  BY DEF RxInv, LockInv, BufferSound, LockedHasBytes
<1> QED BY <1>1, RxInductive, PTL

-----------------------------------------------------------------------------
(***************************************************************************)
(* The receive side implements FrameMailbox.                               *)
(***************************************************************************)
\* During the hand-over the copied bytes are still the first ones of the buffer, and
\* no more are counted than it has.
CopyInv ==
  /\ pc \in {"terminate", "count", "rewind"} =>
       /\ Len(copied) <= Len(rx)
       /\ \A i \in 1..Len(copied) : copied[i] = rx[i]
  /\ pc = "rewind" => Len(copied) <= count /\ count <= Len(rx)

LEMMA CopyInvStep ==
  ASSUME RxInv, CopyInv, [RxNext]_rxVars
  PROVE  CopyInv'
<1> USE DEF RxInv, RxTypeOK, IsFrame, CopyInv
<1>1. CASE uart1_rx_intr
  <2>1. /\ Len(rx) <= Len(rx')
        /\ \A i \in 1..Len(rx) : rx'[i] = rx[i]
    BY <1>1 DEF uart1_rx_intr, Byte
  <2>2. UNCHANGED <<pc, copied, count>> /\ Len(copied) \in Nat /\ Len(rx) \in Nat /\ Len(rx') \in Nat
    BY <1>1 DEF uart1_rx_intr, readerVars, Byte
  <2> QED BY <2>1, <2>2
<1>2. CASE timer_group0_isr \/ UNCHANGED rxVars
  BY <1>2 DEF timer_group0_isr, rxVars, readerVars
<1>3. CASE checkforUARTFrameTimeout \/ NotDue \/ flushRxBuffer
  BY <1>3 DEF checkforUARTFrameTimeout, CheckElapsed, RestartElapsed, LockFrame, NotDue, flushRxBuffer,
              Send, FlushElapsed, FlushLocked, FlushBuffer, At, GoTo
<1>4. CASE check_string
  <2>1. CASE Poll
    BY <2>1 DEF Poll, At, GoTo
  <2>2. CASE CopyFrame
    BY <2>2 DEF CopyFrame, At, GoTo
  <2>3. CASE TerminateFrame
    BY <2>3 DEF TerminateFrame, readerVars, At, GoTo
  <2>4. CASE CountFrame
    BY <2>4 DEF CountFrame, At, GoTo
  <2>5. CASE RewindBuffer \/ Reread
    BY <2>5 DEF RewindBuffer, Reread, At, GoTo
  <2> QED BY <1>4, <2>1, <2>2, <2>3, <2>4, <2>5 DEF check_string
<1> QED BY <1>1, <1>2, <1>3, <1>4 DEF RxNext, superloop

LEMMA MailboxStep ==
  ASSUME RxInv, CopyInv, [RxNext]_rxVars
  PROVE  [Mailbox!MailboxNext]_(Mailbox!mailboxVars)
<1> USE DEF Mailbox!MailboxNext, Mailbox!mailboxVars, readerVars, lineVars
<1>1. CASE uart1_rx_intr
  <2>1. arrived' \in Nat /\ arrived' > arrived
    BY <1>1, MaxBytesAssumption DEF RxInv, RxTypeOK, uart1_rx_intr
  <2> QED BY <1>1, <2>1 DEF uart1_rx_intr, Mailbox!Arrive
<1>2. CASE timer_group0_isr \/ UNCHANGED rxVars
  BY <1>2 DEF timer_group0_isr, rxVars
<1>3. CASE checkforUARTFrameTimeout \/ NotDue
  BY <1>3 DEF checkforUARTFrameTimeout, CheckElapsed, RestartElapsed, LockFrame, NotDue
<1>4. CASE Send \/ FlushElapsed \/ FlushLocked \/ Poll \/ CopyFrame \/ TerminateFrame \/ CountFrame
  BY <1>4 DEF Send, FlushElapsed, FlushLocked, Poll, CopyFrame, TerminateFrame, CountFrame
<1>5. CASE FlushBuffer \/ Reread
  BY <1>5 DEF FlushBuffer, Reread, Mailbox!Discard
<1>6. CASE RewindBuffer
  <2>1. /\ pc = "rewind" /\ rx' = <<>> /\ UNCHANGED arrived
        /\ handed' = [i \in 1..count |-> IF i <= Len(copied) THEN copied[i] ELSE Junk]
    BY <1>6 DEF RewindBuffer, At
  <2>2. /\ Len(copied) \in Nat /\ count \in Nat /\ Len(rx) \in Nat
        /\ Len(copied) <= count /\ count <= Len(rx)
        /\ \A i \in 1..Len(copied) : copied[i] = rx[i]
    BY <2>1 DEF RxInv, RxTypeOK, IsFrame, CopyInv
  <2>3. handed' = [i \in 1..count |-> IF i <= Len(copied) THEN rx[i] ELSE Junk]
    BY <2>1, <2>2
  <2>4. Len(copied) \in 0..count /\ count \in 0..Len(rx)
    BY <2>2
  <2> QED BY <2>1, <2>3, <2>4 DEF Mailbox!HandOver
<1> QED BY <1>1, <1>2, <1>3, <1>4, <1>5, <1>6 DEF RxNext, superloop, check_string, flushRxBuffer

\* The receive side implements FrameMailbox: at whatever step of the superloop the two
\* interrupts come, a frame handed over starts with bytes gathered in order, each for
\* the first time, and is no longer than what was gathered.
THEOREM RxIsMailbox == RxSpec => IsMailbox
<1>1. RxInit => Mailbox!MailboxInit /\ CopyInv
  BY DEF RxInit, Mailbox!MailboxInit, CopyInv
<1>2. RxInv /\ CopyInv /\ [RxNext]_rxVars => CopyInv'
  BY CopyInvStep
<1>3. RxInv /\ CopyInv /\ [RxNext]_rxVars => [Mailbox!MailboxNext]_(Mailbox!mailboxVars)
  BY MailboxStep
<1> QED BY <1>1, <1>2, <1>3, RxInductive, PTL DEF RxSpec, IsMailbox, Mailbox!MailboxSpec

-----------------------------------------------------------------------------
(***************************************************************************)
(* What is handed over.                                                    *)
(***************************************************************************)
\* Bytes are numbered as they arrive: whatever is in the buffer has arrived, after
\* everything that was handed over last.
OrderInv ==
  /\ \A i \in 1..Len(rx) : rx[i] <= arrived
  /\ \A b \in Bytes(handed) :
       /\ b <= arrived
       /\ \A i \in 1..Len(rx) : b < rx[i]

\* What a rewind adds to handed are bytes of the buffer.
LEMMA HandedFromBuffer ==
  ASSUME RxInv, CopyInv, RewindBuffer
  PROVE  \A b \in Bytes(handed') : \E i \in 1..Len(rx) : b = rx[i]
<1> USE DEF RxInv, RxTypeOK, IsFrame, CopyInv, RewindBuffer, At, Bytes
<1>1. handed' = [i \in 1..count |-> IF i <= Len(copied) THEN copied[i] ELSE Junk]
  OBVIOUS
<1>2. Len(copied) \in Nat /\ Len(rx) \in Nat /\ count \in Nat /\ Len(copied) <= Len(rx)
  OBVIOUS
<1>3. \A i \in 1..Len(copied) : copied[i] = rx[i]
  OBVIOUS
<1> SUFFICES ASSUME NEW i \in 1..count, handed'[i] # Junk
             PROVE  \E j \in 1..Len(rx) : handed'[i] = rx[j]
  BY <1>1
<1>4. i \in 1..Len(copied) /\ handed'[i] = copied[i]
  BY <1>1, <1>2
<1> QED BY <1>2, <1>3, <1>4

LEMMA OrderStep ==
  ASSUME RxInv, CopyInv, OrderInv, [RxNext]_rxVars
  PROVE  OrderInv'
<1> USE DEF OrderInv
<1>1. arrived \in Nat /\ rx \in Seq(Byte) /\ Bytes(handed) \subseteq Nat
  BY MaxBytesAssumption DEF RxInv, RxTypeOK, IsFrame, Byte, Bytes, Junk
<1>2. CASE uart1_rx_intr
  <2>1. arrived' \in Nat /\ arrived < arrived' /\ rx' \in {rx, Append(rx, arrived + 1)} /\ UNCHANGED handed
    BY <1>1, <1>2, MaxBytesAssumption DEF uart1_rx_intr, readerVars
  <2>2. \A i \in 1..Len(rx') : rx'[i] = arrived + 1 \/ (i \in 1..Len(rx) /\ rx'[i] = rx[i])
    BY <1>1, <2>1
  <2>3. \A i \in 1..Len(rx) : rx[i] \in Nat
    BY <1>1, MaxBytesAssumption DEF Byte
  <2>4. \A i \in 1..Len(rx') : rx'[i] <= arrived'
    BY <1>1, <2>1, <2>2, <2>3
  <2>5. ASSUME NEW b \in Bytes(handed)
        PROVE  b <= arrived' /\ \A i \in 1..Len(rx') : b < rx'[i]
    BY <1>1, <2>1, <2>2, <2>3
  <2>6. Bytes(handed)' = Bytes(handed)
    BY <2>1 DEF Bytes
  <2> QED BY <2>4, <2>5, <2>6
<1>3. CASE UNCHANGED <<rx, arrived, handed>>
  BY <1>3 DEF Bytes
<1>4. CASE rx' = <<>> /\ UNCHANGED <<arrived, handed>>
  BY <1>4 DEF Bytes
<1>5. CASE RewindBuffer
  <2>1. rx' = <<>> /\ UNCHANGED arrived
    BY <1>5 DEF RewindBuffer, lineVars
  <2>2. \A b \in Bytes(handed') : b <= arrived
    BY <1>5, HandedFromBuffer
  <2> QED BY <2>1, <2>2 DEF Bytes
<1>6. \/ uart1_rx_intr \/ RewindBuffer
      \/ UNCHANGED <<rx, arrived, handed>>
      \/ rx' = <<>> /\ UNCHANGED <<arrived, handed>>
  <2> USE DEF readerVars, lineVars
  <2>1. CASE timer_group0_isr \/ NotDue \/ UNCHANGED rxVars
    BY <2>1 DEF timer_group0_isr, NotDue, rxVars
  <2>2. CASE checkforUARTFrameTimeout
    BY <2>2 DEF checkforUARTFrameTimeout, CheckElapsed, RestartElapsed, LockFrame
  <2>3. CASE check_string
    BY <2>3 DEF check_string, Poll, CopyFrame, TerminateFrame, CountFrame, Reread
  <2>4. CASE flushRxBuffer
    BY <2>4 DEF flushRxBuffer, Send, FlushElapsed, FlushLocked, FlushBuffer
  <2> QED BY <2>1, <2>2, <2>3, <2>4 DEF RxNext, superloop
<1> QED BY <1>2, <1>3, <1>4, <1>5, <1>6

LEMMA HandedInOrder ==
  ASSUME RxInv, CopyInv, OrderInv, [RxNext]_rxVars, handed' # handed,
         NEW old \in Bytes(handed), NEW new \in Bytes(handed')
  PROVE  old < new
<1>1. RewindBuffer
  BY DEF RxNext, rxVars, readerVars, lineVars, clockVars, superloop, uart1_rx_intr, timer_group0_isr,
         checkforUARTFrameTimeout, CheckElapsed, RestartElapsed, LockFrame, NotDue, check_string, Poll,
         CopyFrame, TerminateFrame, CountFrame, Reread, flushRxBuffer, Send, FlushElapsed, FlushLocked,
         FlushBuffer
<1>2. PICK i \in 1..Len(rx) : new = rx[i]
  BY <1>1, HandedFromBuffer
<1> QED BY <1>2 DEF OrderInv

\* While nothing disturbs a hand-over, what is copied is all there is, and counted right.
WholeInv ==
  ~ disturbed =>
    /\ pc \in {"copy", "terminate", "count", "rewind"} => rx # <<>>
    /\ pc \in {"terminate", "count", "rewind"} => copied = rx
    /\ pc = "rewind" => count = Len(rx)

LEMMA WholeStep ==
  ASSUME RxInv, WholeInv, [RxNext]_rxVars
  PROVE  WholeInv'
<1> USE DEF WholeInv, readerVars, lineVars, At, GoTo
<1>1. CASE uart1_rx_intr
  BY <1>1 DEF uart1_rx_intr
<1>2. CASE timer_group0_isr \/ UNCHANGED rxVars
  BY <1>2 DEF timer_group0_isr, rxVars
<1>3. CASE checkforUARTFrameTimeout \/ NotDue
  BY <1>3 DEF checkforUARTFrameTimeout, CheckElapsed, RestartElapsed, LockFrame, NotDue
<1>4. CASE flushRxBuffer
  BY <1>4 DEF flushRxBuffer, Send, FlushElapsed, FlushLocked, FlushBuffer
<1>5. CASE Poll
  BY <1>5 DEF Poll, RxInv, LockInv
<1>6. CASE CopyFrame \/ TerminateFrame \/ CountFrame \/ RewindBuffer \/ Reread
  BY <1>6 DEF CopyFrame, TerminateFrame, CountFrame, RewindBuffer, Reread
<1> QED BY <1>1, <1>2, <1>3, <1>4, <1>5, <1>6 DEF RxNext, superloop, check_string

LEMMA HandedWhole ==
  ASSUME RxInv, WholeInv, At("rewind"), ~ disturbed, superloop
  PROVE  rx # <<>> /\ handed' = rx
<1>1. RewindBuffer
  BY DEF superloop, At, checkforUARTFrameTimeout, CheckElapsed, RestartElapsed, LockFrame, NotDue,
         check_string, Poll, CopyFrame, TerminateFrame, CountFrame, Reread, flushRxBuffer, Send,
         FlushElapsed, FlushLocked, FlushBuffer
<1>2. rx # <<>> /\ copied = rx /\ count = Len(rx) /\ rx \in Seq(Byte)
  BY DEF WholeInv, At, RxInv, RxTypeOK, IsFrame
<1>3. handed' = [i \in 1..Len(rx) |-> rx[i]]
  BY <1>1, <1>2 DEF RewindBuffer
<1>4. rx = [i \in 1..Len(rx) |-> rx[i]]
  BY <1>2
<1> QED BY <1>2, <1>3, <1>4

\* No byte is handed over twice, and none after a later one, at whatever step of the
\* superloop the interrupts come.
THEOREM NeverHandedTwice == RxSpec => NeverTwice
<1>1. RxInit => CopyInv /\ OrderInv
  BY DEF RxInit, CopyInv, OrderInv, Bytes
<1>2. RxInv /\ CopyInv /\ OrderInv /\ [RxNext]_rxVars => CopyInv' /\ OrderInv'
  BY CopyInvStep, OrderStep
<1>3. RxInv /\ CopyInv /\ OrderInv /\ [RxNext]_rxVars =>
        [\A old \in Bytes(handed), new \in Bytes(handed') : handed' # handed => old < new]_rxVars
  BY HandedInOrder
<1> QED BY <1>1, <1>2, <1>3, RxInductive, PTL DEF RxSpec, NeverTwice

\* A frame during whose hand-over the modem was silent is handed over as received,
\* although the index of the buffer is read three times and reset in a fourth step.
THEOREM FramesWhole == RxSpec => WholeFrame
<1>1. RxInit => WholeInv
  BY DEF RxInit, WholeInv
<1>2. RxInv /\ WholeInv /\ [RxNext]_rxVars => WholeInv'
  BY WholeStep
<1>3. RxInv /\ WholeInv /\ [RxNext]_rxVars =>
        [At("rewind") /\ ~ disturbed /\ superloop => rx # <<>> /\ handed' = rx]_rxVars
  BY HandedWhole
<1> QED BY <1>1, <1>2, <1>3, RxInductive, PTL DEF RxSpec, WholeFrame
=============================================================================
