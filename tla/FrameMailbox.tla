--------------------------- MODULE FrameMailbox ---------------------------
(***************************************************************************)
(* What the receive side of the modem link promises its readers: bytes are *)
(* gathered in the order they arrive, and handed over once.  The frame     *)
(* handed over starts with gathered bytes; bytes that arrive during the    *)
(* hand-over may be lost, or counted in the frame without being in it.     *)
(***************************************************************************)
EXTENDS Naturals, Sequences

CONSTANTS
  Capacity,    \* how many bytes are kept
  Junk         \* a byte that was counted but not copied

VARIABLES
  inbox,       \* gathered bytes
  arrived,     \* number of bytes that have arrived; bytes are numbered
  handed       \* the frame handed over last

mailboxVars == <<inbox, arrived, handed>>

MailboxInit == inbox = <<>> /\ arrived = 0 /\ handed = <<>>

\* A byte is gathered while there is room, and lost otherwise; those right behind it
\* may be lost in any case.
Arrive ==
  /\ arrived' \in Nat /\ arrived' > arrived
  /\ inbox' = IF Len(inbox) < Capacity THEN Append(inbox, arrived + 1) ELSE inbox
  /\ UNCHANGED handed

HandOver ==
  /\ \E count \in 0..Len(inbox) : \E copied \in 0..count :
       handed' = [i \in 1..count |-> IF i <= copied THEN inbox[i] ELSE Junk]
  /\ inbox' = <<>>
  /\ UNCHANGED arrived

Discard == inbox' = <<>> /\ UNCHANGED <<arrived, handed>>

MailboxNext == Arrive \/ HandOver \/ Discard

MailboxSpec == MailboxInit /\ [][MailboxNext]_mailboxVars
=============================================================================
