----------------------------- MODULE ModemInit -----------------------------
(***************************************************************************)
(* modem_initAT: "AT" until the modem says OK, then "ATE0".  Its static    *)
(* variables are shared by its three callers: manage_gps_gprs at start-up, *)
(* gps_handler and http_handler when they re-initialise.                   *)
(***************************************************************************)
EXTENDS ModemLink

CONSTANT AtTimeout   \* GPRS_AT_TIMEOUT: empty polls before an AT attempt fails

ASSUME AtTimeoutAssumption == AtTimeout \in Nat /\ RspTimeout <= AtTimeout

VARIABLES
  at_sts,       \* sts: what the last call returned
  at_cmd,       \* gprs_connct_state, command part
  at_phase,     \* gprs_connct_state, CMD or RSP part
  at_retry,     \* gprs_retry_count
  at_timeout    \* timeout

atVars == <<at_sts, at_cmd, at_phase, at_retry, at_timeout>>

AtCommand == {"AT", "ECHO_OFF"}

AtTypeOK ==
  /\ at_sts \in ConStatus
  /\ at_cmd \in AtCommand
  /\ at_phase \in Phase
  /\ at_retry \in 0..RetryCnt
  /\ at_timeout \in 0..AtTimeout

AtInit ==
  /\ at_sts = "CON_IN_PRG"
  /\ at_cmd = "AT"
  /\ at_phase = "CMD"
  /\ at_retry = 0
  /\ at_timeout = 0

-----------------------------------------------------------------------------
SendAt ==
  /\ at_phase = "CMD"
  /\ at_sts' = "CON_IN_PRG"
  /\ at_phase' = "RSP"
  /\ UNCHANGED <<at_cmd, at_retry, at_timeout>>

\* MUTANT: giving up repeats the command that failed, not the sequence.
RetryAtInPlace(reply) ==
  /\ at_phase' = "CMD"
  /\ at_timeout' = TimeoutAfterFailure(reply, at_timeout)
  /\ \/ /\ LastAttempt(reply, at_retry, FALSE)
        /\ at_sts' = "CON_FAIL"
        /\ at_retry' = 0
        /\ UNCHANGED at_cmd
     \/ /\ ~ LastAttempt(reply, at_retry, FALSE)
        /\ at_retry' = at_retry + 1
        /\ UNCHANGED <<at_sts, at_cmd>>

\* MUTANT: a failed attempt is not counted.
RetryAtForever(reply) ==
  /\ at_phase' = "CMD"
  /\ at_timeout' = TimeoutAfterFailure(reply, at_timeout)
  /\ UNCHANGED <<at_sts, at_cmd, at_retry>>

\* MUTANT: giving up starts over without saying so.
RetryAtSilent(reply) ==
  /\ at_phase' = "CMD"
  /\ at_timeout' = TimeoutAfterFailure(reply, at_timeout)
  /\ at_retry' = IF LastAttempt(reply, at_retry, FALSE) THEN 0 ELSE at_retry + 1
  /\ at_cmd' = IF LastAttempt(reply, at_retry, FALSE) THEN "AT" ELSE at_cmd
  /\ UNCHANGED at_sts

\* A failed attempt: give up and report it, or repeat the command.
RetryAt(reply) ==
  /\ at_phase' = "CMD"
  /\ at_timeout' = TimeoutAfterFailure(reply, at_timeout)
  /\ \/ /\ LastAttempt(reply, at_retry, FALSE)
        /\ at_sts' = "CON_FAIL"
        /\ at_cmd' = "AT"
        /\ at_retry' = 0
     \/ /\ ~ LastAttempt(reply, at_retry, FALSE)
        /\ at_retry' = at_retry + 1
        /\ UNCHANGED <<at_sts, at_cmd>>

\* The poll of "AT": an empty poll already returns to the sending phase.
AwaitAt(reply) ==
  /\ at_cmd = "AT" /\ at_phase = "RSP"
  /\ \/ /\ Accepted(reply)
        /\ at_sts' = "CON_WAIT"
        /\ at_cmd' = "ECHO_OFF"
        /\ at_phase' = "CMD"
        /\ at_retry' = 0
        /\ at_timeout' = 0
     \/ /\ Waiting(reply, at_timeout, AtTimeout)
        /\ at_phase' = "CMD"
        /\ at_timeout' = at_timeout + 1
        /\ UNCHANGED <<at_sts, at_cmd, at_retry>>
     \/ /\ AttemptFailed(reply, at_timeout, AtTimeout)
        /\ RetryAt(reply)

AwaitEchoOff(reply) ==
  /\ at_cmd = "ECHO_OFF" /\ at_phase = "RSP"
  /\ \/ /\ Accepted(reply)
        /\ at_sts' = "CON_OK"
        /\ at_cmd' = "AT"
        /\ at_phase' = "CMD"
        /\ at_retry' = 0
        /\ at_timeout' = 0
     \/ /\ Waiting(reply, at_timeout, RspTimeout)
        /\ at_timeout' = at_timeout + 1
        /\ UNCHANGED <<at_sts, at_cmd, at_phase, at_retry>>
     \/ /\ AttemptFailed(reply, at_timeout, RspTimeout)
        /\ RetryAt(reply)

\* One call of modem_initAT; it returns at_sts'.
modem_initAT(reply) == SendAt \/ AwaitAt(reply) \/ AwaitEchoOff(reply)
=============================================================================
