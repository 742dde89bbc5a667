--------------------------- MODULE ModemArbiter ---------------------------
(***************************************************************************)
(* What the time sharing of the modem link promises, without the commands: *)
(* three users ask questions over one line, on behalf of an owner.         *)
(*                                                                         *)
(*   "init"   the AT initialisation, which start-up, GPS and GPRS share    *)
(*   "gps"    the GPS commands                                             *)
(*   "gprs"   the GPRS commands                                            *)
(*                                                                         *)
(* GPRS gives the line back with its question closed.  GPS may leave a     *)
(* question open, but only while it believes that the modem is silent.     *)
(***************************************************************************)
VARIABLES
  owner,       \* on whose behalf the line is used: "start", "gps" or "gprs"
  open,        \* users that asked and will poll for the answer
  line,        \* the user that asked last
  streaming    \* GPS believes that the modem may send unasked

arbiterVars == <<owner, open, line, streaming>>

User == {"init", "gps", "gprs"}

UsersOf(o) == IF o = "start" THEN {"init"} ELSE {"init", o}

ArbiterInit ==
  /\ owner = "start"
  /\ open = {}
  /\ line = "none"
  /\ streaming = FALSE

Ask(u) ==
  /\ u \notin open
  /\ open' = open \cup {u}
  /\ line' = u

\* An answer, or no answer in time.
Close(u) ==
  /\ u \in open
  /\ open' = open \ {u}
  /\ UNCHANGED line

Rest == UNCHANGED <<open, line>>

\* Only GPS starts a stream, by asking for it.
MayStream(u) == streaming' => streaming \/ (u = "gps" /\ Ask(u))

HandOver ==
  \/ owner = "start" /\ owner' = "gps" /\ "init" \notin open'
  \/ owner = "gps" /\ owner' = "gprs" /\ ~ streaming'
  \/ owner = "gprs" /\ owner' = "gps" /\ "gprs" \notin open'

ArbiterStep(u) ==
  /\ u \in UsersOf(owner)
  /\ Ask(u) \/ Close(u) \/ Rest
  /\ streaming' \in BOOLEAN
  /\ MayStream(u)
  /\ UNCHANGED owner \/ HandOver

ArbiterNext == \E u \in User : ArbiterStep(u)

ArbiterSpec == ArbiterInit /\ [][ArbiterNext]_arbiterVars

-----------------------------------------------------------------------------
\* What users may rely on.
ArbiterTypeOK ==
  /\ owner \in {"start", "gps", "gprs"}
  /\ open \subseteq User
  /\ line \in User \cup {"none"}
  /\ streaming \in BOOLEAN
=============================================================================
