----------------------------- MODULE ModemLink -----------------------------
(***************************************************************************)
(* The vocabulary every user of the modem's AT link shares.  A command is  *)
(* sent in one call of its handler (phase "CMD") and its answer is polled  *)
(* in later calls (phase "RSP"), one poll per call, with a number of       *)
(* attempts and a number of empty polls per attempt that the handlers keep *)
(* in static counters.                                                     *)
(***************************************************************************)
EXTENDS Naturals

CONSTANTS
  RetryCnt,    \* RETRY_CNT and GPS_RETRY_CNT (both 3)
  RspTimeout   \* GPRS_ATE0_TIMEOUT: empty polls before a command is repeated

ASSUME RetryCntAssumption == RetryCnt \in Nat \ {0}
ASSUME RspTimeoutAssumption == RspTimeout \in Nat

\* What check_string reports: match_t.
Reply == {"NO_NEW_MSG", "MATCH_FAIL", "MATCH_OK"}

\* What a handler of the AT link returns: con_status_t.
ConStatus == {"CON_OK", "CON_FAIL", "CON_IN_PRG", "CON_WAIT"}

\* A handler is about to send its current command, or polls the answer.
Phase == {"CMD", "RSP"}

\* What a date string from the modem turns out to be: unreadable, readable but
\* out of the accepted range, or good.
DateKind == {"unparsed", "out_of_range", "valid"}

-----------------------------------------------------------------------------
Accepted(reply) == reply = "MATCH_OK"

\* An empty poll that is not the last one of the attempt: timeout++ >= limit fails.
Waiting(reply, timeout, limit) == reply = "NO_NEW_MSG" /\ timeout < limit

\* The attempt is over: a wrong answer, or too many empty polls.
AttemptFailed(reply, timeout, limit) ==
  \/ reply = "MATCH_FAIL"
  \/ reply = "NO_NEW_MSG" /\ timeout >= limit

\* Was the failed attempt the last one?  A handler tests retry++ >= RetryCnt;
\* the eager ones increment first when the answer was wrong.
LastAttempt(reply, retry, eager) ==
  IF eager /\ reply = "MATCH_FAIL" THEN retry + 1 >= RetryCnt ELSE retry >= RetryCnt

\* The empty-poll counter after a failed attempt: reset by a timeout, kept by a
\* wrong answer.
TimeoutAfterFailure(reply, timeout) == IF reply = "NO_NEW_MSG" THEN 0 ELSE timeout
=============================================================================
