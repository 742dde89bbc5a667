------------------------------- MODULE Gprs -------------------------------
(***************************************************************************)
(* The GPRS side of the modem link: http_handler, the connection sequence  *)
(* gprs_connect it steps through, and gprs_connect_status, its periodic    *)
(* check.  One call polls or sends at most once; "ret" is what the call    *)
(* returns.                                                                *)
(***************************************************************************)
EXTENDS ModemInit

CONSTANT SessIdle    \* the 30 s of GPRS_SESSION_IDLE, in scheduler periods

ASSUME SessIdleAssumption == SessIdle \in Nat

VARIABLES
  gprs_state,        \* gprs.state
  gc_cmd, gc_phase,  \* gprs_connect: gprs_connct_state
  gc_retry,          \* gprs_connect: gprs_retry_count
  gc_timeout,        \* gprs_connect: timeout
  gs_phase,          \* gprs_connect_status: gprs_connct_state, which is always CCLK
  gs_retry,          \* gprs_connect_status: gprs_retry_count
  gs_timeout,        \* gprs_connect_status: timeout
  sess_age,          \* time since sess_idle_strt, stops at SessIdle
  sys_gsm_sim,       \* system status bit SYS_GSM_SIM is HIGH
  sys_gprs_date,     \* system status bit SYS_GPRS_DATE is HIGH
  gprs_date_avail    \* gprs_date_time.update_time_aval

connectVars == <<gc_cmd, gc_phase, gc_retry, gc_timeout>>
statusVars == <<gs_phase, gs_retry, gs_timeout>>
gprsBits == <<sys_gsm_sim, sys_gprs_date>>
gprsVars == <<gprs_state, connectVars, statusVars, sess_age, gprsBits, gprs_date_avail>>

GprsState == {"IDLE", "AT_INIT", "CONNECT", "CONN_STS", "SESSION_IDLE"}
GprsCommand == {"CPIN", "IMEI", "CFUN", "CREG", "CSQ", "CGATT", "CCLK"}

GprsTypeOK ==
  /\ gprs_state \in GprsState
  /\ gc_cmd \in GprsCommand
  /\ gc_phase \in Phase
  /\ gc_retry \in 0..RetryCnt
  /\ gc_timeout \in 0..RspTimeout
  /\ gs_phase \in Phase
  /\ gs_retry \in 0..RetryCnt
  /\ gs_timeout \in 0..RspTimeout
  /\ sess_age \in 0..SessIdle
  /\ sys_gsm_sim \in BOOLEAN
  /\ sys_gprs_date \in BOOLEAN
  /\ gprs_date_avail \in BOOLEAN

\* Statics at power-up; update_startup_statuses has cleared the SIM bit and set
\* the date bit.
GprsInit ==
  /\ gprs_state = "IDLE"
  /\ gc_cmd = "CPIN" /\ gc_phase = "CMD" /\ gc_retry = 0 /\ gc_timeout = 0
  /\ gs_phase = "CMD" /\ gs_retry = 0 /\ gs_timeout = 0
  /\ sess_age = 0
  /\ sys_gsm_sim = FALSE
  /\ sys_gprs_date = TRUE
  /\ gprs_date_avail = FALSE

-----------------------------------------------------------------------------
(***************************************************************************)
(* gprs_connect: the pieces its seven commands are made of.                *)
(***************************************************************************)
SendConnect(ret) ==
  /\ gc_phase = "CMD"
  /\ ret = "CON_IN_PRG"
  /\ gc_phase' = "RSP"
  /\ UNCHANGED <<gc_cmd, gc_retry, gc_timeout>>

\* The awaited answer: on to the next command.  CSQ leaves its empty-poll counter.
AcceptConnect(next, ret) ==
  /\ ret = "CON_WAIT"
  /\ gc_cmd' = next
  /\ gc_phase' = "CMD"
  /\ gc_retry' = 0
  /\ gc_timeout' = IF gc_cmd = "CSQ" THEN gc_timeout ELSE 0

KeepPolling(ret) ==
  /\ ret = "CON_IN_PRG"
  /\ gc_timeout' = gc_timeout + 1
  /\ UNCHANGED <<gc_cmd, gc_phase, gc_retry>>

\* MUTANT: giving up does not start over at CPIN.
RetryConnectInPlace(eager, reply, ret) ==
  LET last == LastAttempt(reply, gc_retry, eager) IN
  /\ ret = IF last THEN "CON_FAIL" ELSE "CON_IN_PRG"
  /\ gc_phase' = "CMD"
  /\ gc_retry' = IF last THEN 0 ELSE gc_retry + 1
  /\ gc_timeout' = TimeoutAfterFailure(reply, gc_timeout)
  /\ UNCHANGED gc_cmd

\* MUTANT: failed attempts are not counted.
RetryConnectForever(eager, reply, ret) ==
  /\ ret = "CON_IN_PRG"
  /\ gc_phase' = "CMD"
  /\ gc_timeout' = TimeoutAfterFailure(reply, gc_timeout)
  /\ UNCHANGED <<gc_cmd, gc_retry>>

\* A failed attempt: repeat the command, or give up and start over at CPIN.
RetryConnect(eager, reply, ret) ==
  /\ gc_phase' = "CMD"
  /\ \/ /\ LastAttempt(reply, gc_retry, eager)
        /\ ret = "CON_FAIL"
        /\ gc_cmd' = "CPIN"
        /\ gc_retry' = 0
        /\ gc_timeout' = IF gc_cmd \in {"CPIN", "CFUN"} THEN 0
                         ELSE TimeoutAfterFailure(reply, gc_timeout)
     \/ /\ ~ LastAttempt(reply, gc_retry, eager)
        /\ ret = "CON_IN_PRG"
        /\ gc_retry' = gc_retry + 1
        /\ gc_timeout' = TimeoutAfterFailure(reply, gc_timeout)
        /\ UNCHANGED gc_cmd

\* One call while "cmd" is the current command and "next" the one after it.
Exchange(cmd, next, eager, reply, ret) ==
  /\ gc_cmd = cmd
  /\ \/ SendConnect(ret)
     \/ /\ gc_phase = "RSP"
        /\ \/ Accepted(reply) /\ AcceptConnect(next, ret)
           \/ Waiting(reply, gc_timeout, RspTimeout) /\ KeepPolling(ret)
           \/ /\ AttemptFailed(reply, gc_timeout, RspTimeout)
              /\ RetryConnect(eager, reply, ret)

\* A missing SIM is noticed in two places: here, giving up on CPIN, and in
\* checkforUARTFrameTimeout, when the wrong answer says "SIM not inserted".
ConnectCPIN(reply, ret) ==
  /\ Exchange("CPIN", "IMEI", FALSE, reply, ret)
  /\ \/ sys_gsm_sim' = (sys_gsm_sim \/ ret = "CON_FAIL")
     \/ gc_phase = "RSP" /\ reply = "MATCH_FAIL" /\ sys_gsm_sim' = TRUE
  /\ UNCHANGED <<sys_gprs_date, gprs_date_avail>>

ConnectIMEI(reply, ret) ==
  Exchange("IMEI", "CFUN", TRUE, reply, ret) /\ UNCHANGED <<gprsBits, gprs_date_avail>>

ConnectCFUN(reply, ret) ==
  Exchange("CFUN", "CREG", FALSE, reply, ret) /\ UNCHANGED <<gprsBits, gprs_date_avail>>

ConnectCREG(reply, ret) ==
  Exchange("CREG", "CSQ", FALSE, reply, ret) /\ UNCHANGED <<gprsBits, gprs_date_avail>>

ConnectCSQ(reply, ret) ==
  Exchange("CSQ", "CGATT", TRUE, reply, ret) /\ UNCHANGED <<gprsBits, gprs_date_avail>>

ConnectCGATT(reply, ret) ==
  Exchange("CGATT", "CCLK", FALSE, reply, ret) /\ UNCHANGED <<gprsBits, gprs_date_avail>>

SendCCLK(ret) ==
  /\ SendConnect(ret)
  /\ gprs_date_avail' = FALSE
  /\ UNCHANGED gprsBits

\* The date ends the sequence, whatever it is worth.
AcceptCCLK(date, ret) ==
  /\ ret = "CON_OK"
  /\ gc_cmd' = "CPIN" /\ gc_phase' = "CMD" /\ gc_retry' = 0
  /\ gprs_date_avail' = (gprs_date_avail \/ date = "valid")
  /\ sys_gprs_date' = IF date = "unparsed" THEN sys_gprs_date ELSE date = "out_of_range"
  /\ UNCHANGED <<gc_timeout, sys_gsm_sim>>

MissCCLK(reply, ret) ==
  /\ \/ Waiting(reply, gc_timeout, RspTimeout) /\ KeepPolling(ret)
     \/ AttemptFailed(reply, gc_timeout, RspTimeout) /\ RetryConnect(TRUE, reply, ret)
  /\ sys_gprs_date' = TRUE
  /\ UNCHANGED <<sys_gsm_sim, gprs_date_avail>>

ConnectCCLK(reply, date, ret) ==
  /\ gc_cmd = "CCLK"
  /\ \/ SendCCLK(ret)
     \/ gc_phase = "RSP" /\ Accepted(reply) /\ AcceptCCLK(date, ret)
     \/ gc_phase = "RSP" /\ MissCCLK(reply, ret)

gprs_connect(reply, date, ret) ==
  \/ ConnectCPIN(reply, ret) \/ ConnectIMEI(reply, ret) \/ ConnectCFUN(reply, ret)
  \/ ConnectCREG(reply, ret) \/ ConnectCSQ(reply, ret) \/ ConnectCGATT(reply, ret)
  \/ ConnectCCLK(reply, date, ret)

-----------------------------------------------------------------------------
(***************************************************************************)
(* gprs_connect_status: CCLK again, with counters of its own.              *)
(***************************************************************************)
\* MUTANT: the date of the exchange before stays on offer.
SendStatusStale(ret) ==
  /\ gs_phase = "CMD"
  /\ ret = "CON_IN_PRG"
  /\ gs_phase' = "RSP"
  /\ UNCHANGED <<gs_retry, gs_timeout, gprs_date_avail>>

SendStatus(ret) ==
  /\ gs_phase = "CMD"
  /\ ret = "CON_IN_PRG"
  /\ gs_phase' = "RSP"
  /\ gprs_date_avail' = FALSE
  /\ UNCHANGED <<gs_retry, gs_timeout>>

AcceptStatus(date, ret) ==
  /\ ret = "CON_OK"
  /\ gs_phase' = "CMD"
  /\ gs_retry' = 0
  /\ gprs_date_avail' = (gprs_date_avail \/ date = "valid")
  /\ UNCHANGED gs_timeout

\* MUTANT: giving up does not restart the attempts.
RetryStatusNoReset(reply, ret) ==
  /\ ret = IF LastAttempt(reply, gs_retry, TRUE) THEN "CON_FAIL" ELSE "CON_IN_PRG"
  /\ gs_phase' = "CMD"
  /\ gs_retry' = gs_retry + 1
  /\ gs_timeout' = TimeoutAfterFailure(reply, gs_timeout)
  /\ UNCHANGED gprs_date_avail

RetryStatus(reply, ret) ==
  LET last == LastAttempt(reply, gs_retry, TRUE) IN
  /\ ret = IF last THEN "CON_FAIL" ELSE "CON_IN_PRG"
  /\ gs_phase' = "CMD"
  /\ gs_retry' = IF last THEN 0 ELSE gs_retry + 1
  /\ gs_timeout' = TimeoutAfterFailure(reply, gs_timeout)
  /\ UNCHANGED gprs_date_avail

AwaitStatus(reply, date, ret) ==
  /\ gs_phase = "RSP"
  /\ \/ Accepted(reply) /\ AcceptStatus(date, ret)
     \/ /\ Waiting(reply, gs_timeout, RspTimeout)
        /\ ret = "CON_IN_PRG"
        /\ gs_timeout' = gs_timeout + 1
        /\ UNCHANGED <<gs_phase, gs_retry, gprs_date_avail>>
     \/ AttemptFailed(reply, gs_timeout, RspTimeout) /\ RetryStatus(reply, ret)

gprs_connect_status(reply, date, ret) ==
  SendStatus(ret) \/ AwaitStatus(reply, date, ret)

-----------------------------------------------------------------------------
(***************************************************************************)
(* http_handler: one disjunct per value of gprs.state.                     *)
(***************************************************************************)
SessAged(dt) == IF sess_age + dt >= SessIdle THEN SessIdle ELSE sess_age + dt

HttpIdle(ret) ==
  /\ gprs_state = "IDLE"
  /\ ret = "CON_IN_PRG"
  /\ gprs_state' = "AT_INIT"
  /\ sys_gprs_date' = TRUE
  /\ UNCHANGED <<atVars, connectVars, statusVars, sys_gsm_sim, gprs_date_avail>>

\* The state a finished sub-sequence leads to; a failed one leads to IDLE.
StepTo(done, ret) ==
  gprs_state' = CASE ret = "CON_OK" -> done
                  [] ret = "CON_FAIL" -> "IDLE"
                  [] OTHER -> gprs_state

HttpAtInit(reply, ret) ==
  /\ gprs_state = "AT_INIT"
  /\ modem_initAT(reply)
  /\ ret = at_sts'
  /\ StepTo("CONNECT", ret)
  /\ UNCHANGED <<connectVars, statusVars, gprsBits, gprs_date_avail>>

HttpConnect(reply, date, ret) ==
  /\ gprs_state = "CONNECT"
  /\ gprs_connect(reply, date, ret)
  /\ StepTo("CONN_STS", ret)
  /\ UNCHANGED <<atVars, statusVars>>

HttpConnSts(reply, date, ret) ==
  /\ gprs_state = "CONN_STS"
  /\ gprs_connect_status(reply, date, ret)
  /\ StepTo("SESSION_IDLE", ret)
  /\ UNCHANGED <<atVars, connectVars, gprsBits>>

\* The session timer is read from the clock: it ran on during the GPS slices.
HttpSessionIdle(dt, ret) ==
  /\ gprs_state = "SESSION_IDLE"
  /\ ret = "CON_IN_PRG"
  /\ gprs_state' = IF SessAged(dt) >= SessIdle THEN "CONN_STS" ELSE "SESSION_IDLE"
  /\ UNCHANGED <<atVars, connectVars, statusVars, gprsBits, gprs_date_avail>>

http_handler(reply, date, dt, ret) ==
  \/ HttpIdle(ret)
  \/ HttpAtInit(reply, ret)
  \/ HttpConnect(reply, date, ret)
  \/ HttpConnSts(reply, date, ret)
  \/ HttpSessionIdle(dt, ret)
=============================================================================
