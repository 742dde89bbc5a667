--------------------------- MODULE WebComm_proofs ---------------------------
(***************************************************************************)
(* Proofs about WebComm, and about modem_initAT on its own (MCModemInit),  *)
(* for every value of their constants.                                     *)
(***************************************************************************)
EXTENDS WebComm, MCModemInit, TLAPS

-----------------------------------------------------------------------------
(***************************************************************************)
(* modem_initAT                                                            *)
(***************************************************************************)
AtHome == at_cmd = "AT" /\ at_phase = "CMD" /\ at_retry = 0

\* While an answer is polled, the last call said so.
AtInv == AtTypeOK /\ (at_phase = "RSP" => at_sts = "CON_IN_PRG")

\* What one call of modem_initAT does: it keeps its invariant, and is back at the
\* start when it reports success or failure.
LEMMA AtStep ==
  ASSUME AtInv, NEW reply \in Reply, modem_initAT(reply)
  PROVE  /\ AtInv'
         /\ at_sts' \in {"CON_OK", "CON_FAIL"} => AtHome'
         /\ at_phase' = "RSP" => at_phase = "CMD" \/ (at_phase = "RSP" /\ at_cmd' = at_cmd)
         /\ at_phase = "CMD" => at_phase' = "RSP" /\ at_cmd' = at_cmd
<1> USE RetryCntAssumption, RspTimeoutAssumption, AtTimeoutAssumption
<1> USE DEF AtInv, AtTypeOK, AtHome, AtCommand, Phase, ConStatus, Reply
<1>1. CASE SendAt
  BY <1>1 DEF SendAt
<1>2. ASSUME RetryAt(reply), at_phase = "RSP", at_timeout \in 0..AtTimeout
      PROVE  /\ AtInv'
             /\ at_sts' \in {"CON_OK", "CON_FAIL"} => AtHome'
             /\ at_phase' = "CMD"
  BY <1>2 DEF RetryAt, LastAttempt, TimeoutAfterFailure
<1>3. CASE AwaitAt(reply)
  BY <1>2, <1>3 DEF AwaitAt, Accepted, Waiting
<1>4. CASE AwaitEchoOff(reply)
  BY <1>2, <1>4 DEF AwaitEchoOff, Accepted, Waiting
<1> QED BY <1>1, <1>3, <1>4 DEF modem_initAT

\* The calls of an attempt leave their traces: an empty poll in at_timeout, a question that
\* is open in at_phase.  Between the two polls of "AT" there is the call that sends it again.
CallsTraced ==
  /\ calls \in Nat
  /\ calls <= (IF at_cmd = "AT" THEN 2 * at_timeout ELSE at_timeout)
              + (IF at_phase = "RSP" THEN 1 ELSE 0)
  /\ at_cmd = "ECHO_OFF" => at_timeout <= RspTimeout

AttemptSafe == AtInv /\ CallsTraced

LEMMA NoCallsTraced ==
  ASSUME NEW timeout \in Nat, NEW cmd, NEW phase
  PROVE  0 <= (IF cmd = "AT" THEN 2 * timeout ELSE timeout) + (IF phase = "RSP" THEN 1 ELSE 0)
OBVIOUS

LEMMA AttemptStep ==
  ASSUME AttemptSafe, NEW reply \in Reply, MCCall(reply)
  PROVE  AttemptSafe'
<1> USE RetryCntAssumption, RspTimeoutAssumption, AtTimeoutAssumption
<1>1. AtInv'
  BY AtStep DEF AttemptSafe, MCCall
<1>2. calls' = IF AttemptOver THEN 0 ELSE calls + 1
  BY DEF MCCall
<1>3. /\ at_timeout \in Nat /\ at_timeout' \in Nat /\ at_retry \in Nat
      /\ at_cmd \in AtCommand /\ at_cmd' \in AtCommand
  BY <1>1 DEF AttemptSafe, AtInv, AtTypeOK
<1>4. ASSUME RetryAt(reply)
      PROVE  /\ AttemptOver
             /\ at_cmd' = "ECHO_OFF" => at_cmd = "ECHO_OFF"
             /\ at_timeout' <= at_timeout
  <2>1. at_sts' = "CON_FAIL" \/ at_retry' = at_retry + 1
    BY <1>4 DEF RetryAt
  <2>2. AttemptOver
    BY <1>3, <2>1 DEF AttemptOver
  <2>3. at_cmd' = "AT" \/ at_cmd' = at_cmd
    BY <1>4 DEF RetryAt
  <2>4. at_timeout' <= at_timeout
    BY <1>3, <1>4 DEF RetryAt, TimeoutAfterFailure
  <2> QED BY <2>2, <2>3, <2>4
<1>5. CallsTraced'
  <2> USE DEF CallsTraced, AttemptSafe
  <2>1. CASE AttemptOver
    <3>1. calls' = 0
      BY <1>2, <2>1
    <3>2. at_cmd' = "ECHO_OFF" => at_timeout' <= RspTimeout
      <4>1. CASE RetryAt(reply) \/ SendAt
        BY <1>3, <1>4, <4>1 DEF SendAt
      <4>2. CASE at_timeout' = 0
        BY <4>2
      <4>3. CASE Waiting(reply, at_timeout, RspTimeout) /\ at_timeout' = at_timeout + 1
        BY <1>3, <4>3 DEF Waiting
      <4>4. CASE at_cmd = "AT" /\ at_cmd' = at_cmd
        BY <4>4
      <4>5. CASE AwaitAt(reply)
        BY <4>1, <4>2, <4>4, <4>5 DEF AwaitAt
      <4>6. CASE AwaitEchoOff(reply)
        BY <4>1, <4>2, <4>3, <4>6 DEF AwaitEchoOff
      <4> QED BY <4>1, <4>5, <4>6 DEF MCCall, modem_initAT
    <3>3. 0 <= (IF at_cmd' = "AT" THEN 2 * at_timeout' ELSE at_timeout')
               + (IF at_phase' = "RSP" THEN 1 ELSE 0)
      BY <1>3, NoCallsTraced
    <3> QED BY <3>1, <3>2, <3>3
  <2>2. CASE ~ AttemptOver
    <3>1. calls' = calls + 1 /\ at_cmd' = at_cmd
      BY <1>2, <2>2 DEF AttemptOver
    <3>2. CASE SendAt
      BY <1>3, <3>1, <3>2 DEF SendAt
    <3>3. CASE AwaitAt(reply)
      <4>1. at_cmd = "AT" /\ at_phase = "RSP" /\ at_phase' = "CMD" /\ at_timeout' = at_timeout + 1
        BY <1>4, <2>2, <3>1, <3>3 DEF AwaitAt
      <4> QED BY <1>3, <3>1, <4>1
    <3>4. CASE AwaitEchoOff(reply)
      <4>1. /\ at_cmd = "ECHO_OFF" /\ at_phase = "RSP" /\ at_phase' = "RSP"
            /\ at_timeout' = at_timeout + 1 /\ at_timeout < RspTimeout
        BY <1>4, <2>2, <3>1, <3>4 DEF AwaitEchoOff, Waiting
      <4> QED BY <1>3, <3>1, <4>1
    <3> QED BY <3>2, <3>3, <3>4 DEF MCCall, modem_initAT
  <2> QED BY <2>1, <2>2
<1> QED BY <1>1, <1>5 DEF AttemptSafe

\* An attempt of modem_initAT is over after a number of calls that only the limits of its
\* empty polls bound, for any limits and whatever the modem answers: "AT", which is sent again
\* after every empty poll, in twice as many.
THEOREM AttemptsEnd == MCSpec => []AttemptEnds
<1>1. MCInit => AttemptSafe
  BY RetryCntAssumption, RspTimeoutAssumption, AtTimeoutAssumption
     DEF MCInit, AtInit, AttemptSafe, CallsTraced, AtInv, AtTypeOK, AtCommand, Phase, ConStatus
<1>2. AttemptSafe /\ [MCNext]_mcVars => AttemptSafe'
  <2>1. ASSUME AttemptSafe, UNCHANGED mcVars
        PROVE  AttemptSafe'
    BY <2>1 DEF mcVars, atVars, AttemptSafe, CallsTraced, AtInv, AtTypeOK
  <2> QED BY <2>1, AttemptStep DEF MCNext
<1>3. AttemptSafe => AttemptEnds
  BY RspTimeoutAssumption, AtTimeoutAssumption
     DEF AttemptSafe, CallsTraced, AtInv, AtTypeOK, AtCommand, AttemptEnds
<1> QED BY <1>1, <1>2, <1>3, PTL DEF MCSpec

-----------------------------------------------------------------------------
(***************************************************************************)
(* gprs_connect                                                            *)
(***************************************************************************)
ConnectTypeOK ==
  /\ gc_cmd \in GprsCommand /\ gc_phase \in Phase
  /\ gc_retry \in 0..RetryCnt /\ gc_timeout \in 0..RspTimeout

ConnectHome == gc_cmd = "CPIN" /\ gc_phase = "CMD" /\ gc_retry = 0

\* What one call does to the place in the sequence.
ConnectMoves(ret) ==
  /\ ConnectTypeOK'
  /\ ret \in {"CON_OK", "CON_FAIL"} => ConnectHome'
  /\ gc_phase' = "RSP" => ret = "CON_IN_PRG" /\ gc_cmd' = gc_cmd
  /\ gc_phase = "CMD" => gc_phase' = "RSP"

LEMMA SendConnectMoves ==
  ASSUME ConnectTypeOK, NEW ret \in ConStatus, SendConnect(ret)
  PROVE  ConnectMoves(ret)
BY DEF ConnectTypeOK, ConnectMoves, SendConnect, Phase

LEMMA KeepPollingMoves ==
  ASSUME ConnectTypeOK, NEW ret \in ConStatus, gc_phase = "RSP", gc_timeout < RspTimeout,
         KeepPolling(ret)
  PROVE  ConnectMoves(ret)
BY RspTimeoutAssumption DEF ConnectTypeOK, ConnectMoves, KeepPolling, Phase

LEMMA RetryConnectMoves ==
  ASSUME ConnectTypeOK, NEW ret \in ConStatus, NEW reply \in Reply, NEW eager \in BOOLEAN,
         gc_phase = "RSP", RetryConnect(eager, reply, ret)
  PROVE  ConnectMoves(ret)
BY RetryCntAssumption, RspTimeoutAssumption
   DEF ConnectTypeOK, ConnectHome, ConnectMoves, RetryConnect, LastAttempt, TimeoutAfterFailure,
       Phase, Reply, GprsCommand

LEMMA ExchangeMoves ==
  ASSUME ConnectTypeOK, NEW ret \in ConStatus, NEW reply \in Reply, NEW eager \in BOOLEAN,
         NEW cmd \in GprsCommand, NEW next \in GprsCommand,
         Exchange(cmd, next, eager, reply, ret)
  PROVE  ConnectMoves(ret)
<1>1. CASE SendConnect(ret)
  BY <1>1, SendConnectMoves
<1>2. CASE gc_phase = "RSP" /\ AcceptConnect(next, ret)
  BY <1>2, RetryCntAssumption, RspTimeoutAssumption
     DEF AcceptConnect, ConnectTypeOK, ConnectMoves, Phase
<1>3. CASE gc_phase = "RSP" /\ Waiting(reply, gc_timeout, RspTimeout) /\ KeepPolling(ret)
  BY <1>3, KeepPollingMoves DEF Waiting
<1>4. CASE gc_phase = "RSP" /\ RetryConnect(eager, reply, ret)
  BY <1>4, RetryConnectMoves
<1> QED BY <1>1, <1>2, <1>3, <1>4 DEF Exchange

LEMMA ConnectStep ==
  ASSUME ConnectTypeOK, gprs_date_avail \in BOOLEAN, sys_gsm_sim \in BOOLEAN,
         sys_gprs_date \in BOOLEAN,
         NEW ret \in ConStatus, NEW reply \in Reply, NEW date \in DateKind,
         gprs_connect(reply, date, ret)
  PROVE  /\ ConnectMoves(ret)
         /\ gprs_date_avail' \in BOOLEAN /\ sys_gsm_sim' \in BOOLEAN /\ sys_gprs_date' \in BOOLEAN
<1> USE DEF gprsBits
<1>1. CASE ConnectCPIN(reply, ret)
  BY <1>1, ExchangeMoves DEF ConnectCPIN, GprsCommand
<1>2. CASE ConnectIMEI(reply, ret)
  BY <1>2, ExchangeMoves DEF ConnectIMEI, GprsCommand
<1>3. CASE ConnectCFUN(reply, ret)
  BY <1>3, ExchangeMoves DEF ConnectCFUN, GprsCommand
<1>4. CASE ConnectCREG(reply, ret)
  BY <1>4, ExchangeMoves DEF ConnectCREG, GprsCommand
<1>5. CASE ConnectCSQ(reply, ret)
  BY <1>5, ExchangeMoves DEF ConnectCSQ, GprsCommand
<1>6. CASE ConnectCGATT(reply, ret)
  BY <1>6, ExchangeMoves DEF ConnectCGATT, GprsCommand
<1>7. CASE ConnectCCLK(reply, date, ret)
  <2>1. CASE SendCCLK(ret)
    BY <2>1, SendConnectMoves DEF SendCCLK
  <2>2. CASE gc_phase = "RSP" /\ AcceptCCLK(date, ret)
    <3>1. ConnectMoves(ret)
      BY <2>2, RetryCntAssumption
         DEF AcceptCCLK, ConnectTypeOK, ConnectMoves, ConnectHome, Phase, GprsCommand
    <3>2. /\ gprs_date_avail' = (gprs_date_avail \/ date = "valid")
          /\ sys_gprs_date' = IF date = "unparsed" THEN sys_gprs_date ELSE date = "out_of_range"
          /\ sys_gsm_sim' = sys_gsm_sim
      BY <2>2 DEF AcceptCCLK
    <3>3. (gprs_date_avail \/ date = "valid") \in BOOLEAN
      OBVIOUS
    <3>4. (IF date = "unparsed" THEN sys_gprs_date ELSE date = "out_of_range") \in BOOLEAN
      OBVIOUS
    <3> QED BY <3>1, <3>2, <3>3, <3>4
  <2>3. CASE gc_phase = "RSP" /\ MissCCLK(reply, ret)
    BY <2>3, KeepPollingMoves, RetryConnectMoves DEF MissCCLK, Waiting
  <2> QED BY <1>7, <2>1, <2>2, <2>3 DEF ConnectCCLK
<1> QED BY <1>1, <1>2, <1>3, <1>4, <1>5, <1>6, <1>7 DEF gprs_connect

-----------------------------------------------------------------------------
(***************************************************************************)
(* gprs_connect_status                                                     *)
(***************************************************************************)
StatusTypeOK == gs_phase \in Phase /\ gs_retry \in 0..RetryCnt /\ gs_timeout \in 0..RspTimeout

StatusHome == gs_phase = "CMD" /\ gs_retry = 0

LEMMA StatusStep ==
  ASSUME StatusTypeOK, gprs_date_avail \in BOOLEAN,
         NEW ret \in ConStatus, NEW reply \in Reply, NEW date \in DateKind,
         gprs_connect_status(reply, date, ret)
  PROVE  /\ StatusTypeOK' /\ gprs_date_avail' \in BOOLEAN
         /\ ret \in {"CON_OK", "CON_FAIL"} => StatusHome'
         /\ gs_phase' = "RSP" => ret = "CON_IN_PRG"
         /\ gs_phase = "CMD" => gs_phase' = "RSP"
<1> USE RetryCntAssumption, RspTimeoutAssumption DEF StatusTypeOK, StatusHome, Phase, Reply
<1>1. CASE SendStatus(ret)
  BY <1>1 DEF SendStatus
<1>2. CASE gs_phase = "RSP" /\ AcceptStatus(date, ret)
  BY <1>2 DEF AcceptStatus, DateKind
<1>3. CASE gs_phase = "RSP" /\ RetryStatus(reply, ret)
  BY <1>3 DEF RetryStatus, LastAttempt, TimeoutAfterFailure
<1>4. CASE /\ gs_phase = "RSP"
           /\ Waiting(reply, gs_timeout, RspTimeout)
           /\ ret = "CON_IN_PRG"
           /\ gs_timeout' = gs_timeout + 1
           /\ UNCHANGED <<gs_phase, gs_retry, gprs_date_avail>>
  BY <1>4 DEF Waiting
<1> QED BY <1>1, <1>2, <1>3, <1>4 DEF gprs_connect_status, AwaitStatus

-----------------------------------------------------------------------------
(***************************************************************************)
(* gps_handler                                                             *)
(***************************************************************************)
\* Only a command has an answer to poll.
LinkOK ==
  /\ gps_cmd \in GpsState /\ gps_phase \in Phase
  /\ gps_retry \in 0..RetryCnt /\ gps_timeout \in 0..CbcTimeout
  /\ gps_phase = "RSP" => gps_cmd \in GpsCommand

RecordsOK == NMEA_enabled \in BOOLEAN /\ gga_sts \in BOOLEAN /\ gnss_sts \in BOOLEAN

DatesOK == sys_gps_date \in BOOLEAN /\ gps_date_avail \in BOOLEAN

\* What one call does to the place in the rounds of commands.
GpsMoves ==
  /\ LinkOK'
  /\ gps_phase' = "RSP" => gps_cmd' = gps_cmd
  /\ gps_cmd \in GpsCommand /\ gps_phase = "CMD" => gps_phase' = "RSP"

\* The belief in the stream begins with the call that asks for it.
BeliefBegins ==
  NMEA_enabled' => NMEA_enabled \/ (gps_cmd = "GPGGA_START" /\ gps_phase = "CMD")

\* It ends when the modem has acknowledged the stop, or when the handler starts over.
BeliefEnds(reply) ==
  NMEA_enabled /\ ~ NMEA_enabled' => gps_cmd = "IDLE" \/ (Polls("GPGGA_STOP") /\ Accepted(reply))

LEMMA SendGpsMoves ==
  ASSUME LinkOK, NEW cmd \in GpsCommand, NEW ret \in GpsStatus, SendGps(cmd, ret)
  PROVE  GpsMoves
BY DEF LinkOK, GpsMoves, SendGps, Phase

LEMMA AcceptGpsMoves ==
  ASSUME LinkOK, NEW next \in GpsState, gps_phase = "RSP", AcceptGps(next)
  PROVE  GpsMoves
BY RetryCntAssumption, RspTimeoutAssumption, CbcTimeoutAssumption
   DEF LinkOK, GpsMoves, AcceptGps, Goto, Phase

LEMMA KeepPollingGpsMoves ==
  ASSUME LinkOK, NEW reply \in Reply, NEW limit \in {RspTimeout, CbcTimeout}, NEW ret \in GpsStatus,
         gps_phase = "RSP", KeepPollingGps(reply, limit, ret)
  PROVE  GpsMoves
BY RspTimeoutAssumption, CbcTimeoutAssumption DEF LinkOK, GpsMoves, KeepPollingGps, Waiting, Phase

LEMMA RetryGpsMoves ==
  ASSUME LinkOK, NEW reply \in Reply, NEW limit \in {RspTimeout, CbcTimeout}, NEW ret \in GpsStatus,
         NEW eager \in BOOLEAN, gps_phase = "RSP", RetryGps(reply, limit, eager, ret)
  PROVE  GpsMoves
BY RetryCntAssumption, RspTimeoutAssumption, CbcTimeoutAssumption
   DEF LinkOK, GpsMoves, RetryGps, LastAttempt, TimeoutAfterFailure, Goto, Phase, GpsState, GpsCommand

LEMMA PollMoves ==
  ASSUME LinkOK, NEW reply \in Reply, NEW limit \in {RspTimeout, CbcTimeout}, NEW ret \in GpsStatus,
         NEW eager \in BOOLEAN, gps_phase = "RSP",
         KeepPollingGps(reply, limit, ret) \/ RetryGps(reply, limit, eager, ret)
  PROVE  GpsMoves
BY KeepPollingGpsMoves, RetryGpsMoves

LEMMA EnablingMoves ==
  ASSUME LinkOK, NEW reply \in Reply, NEW ret \in GpsStatus, NEW cmd \in GpsCommand,
         NEW other \in GpsCommand, Enabling(cmd, other, reply, ret)
  PROVE  GpsMoves
<1>1. CASE SendGps(cmd, ret)
  BY <1>1, SendGpsMoves
<1>2. CASE Polls(cmd) /\ AcceptGps("CBC")
  BY <1>2, AcceptGpsMoves DEF Polls, GpsState, GpsCommand
<1>3. CASE Polls(cmd) /\ Goto(other) /\ UNCHANGED <<gps_retry, gps_timeout>>
  BY <1>3 DEF Polls, Goto, LinkOK, GpsMoves, Phase, GpsState
<1>4. CASE /\ Polls(cmd)
           /\ KeepPollingGps(reply, RspTimeout, ret) \/ RetryGps(reply, RspTimeout, FALSE, ret)
  BY <1>4, PollMoves DEF Polls
<1> QED BY <1>1, <1>2, <1>3, <1>4 DEF Enabling

\* What one call of gps_handler does: all but the two states that are not commands
\* leave the AT initialisation alone.
LEMMA GpsStep ==
  ASSUME LinkOK, RecordsOK, DatesOK, AtInv,
         NEW reply \in Reply, NEW parsed \in BOOLEAN, NEW date \in DateKind, NEW ret \in GpsStatus,
         gps_handler(reply, parsed, date, ret)
  PROVE  /\ GpsMoves /\ RecordsOK' /\ DatesOK' /\ BeliefBegins /\ BeliefEnds(reply)
         /\ IF gps_cmd = "AT_INIT" THEN modem_initAT(reply) /\ UNCHANGED NMEA_enabled
            ELSE UNCHANGED atVars
         /\ AtInv'
         /\ AtHome' \/ UNCHANGED atVars \/ gps_cmd' = "AT_INIT"
         /\ gps_cmd = "AT_INIT" /\ UNCHANGED atVars => gps_cmd' = "AT_INIT"
<1> USE DEF gpsRecords, gpsDate
<1>a. ASSUME UNCHANGED atVars PROVE AtInv'
  BY <1>a DEF AtInv, AtTypeOK, atVars
<1>1. CASE GpsIdle(ret)
  <2>1. GpsMoves
    BY <1>1 DEF GpsIdle, Goto, GpsMoves, LinkOK, Phase, GpsState, GpsCommand
  <2> QED BY <1>1, <1>a, <2>1 DEF GpsIdle, RecordsOK, DatesOK, BeliefBegins, BeliefEnds
<1>2. CASE GpsAtInit(reply, ret)
  <2>1. GpsMoves
    BY <1>2 DEF GpsAtInit, Goto, GpsMoves, LinkOK, Phase, GpsState, GpsCommand
  <2>2. RecordsOK' /\ DatesOK' /\ BeliefBegins /\ BeliefEnds(reply) /\ UNCHANGED NMEA_enabled
    BY <1>2 DEF GpsAtInit, RecordsOK, DatesOK, BeliefBegins, BeliefEnds
  <2>3. AtInv' /\ (AtHome' \/ gps_cmd' = "AT_INIT")
    BY <1>2, AtStep DEF GpsAtInit
  <2>4. UNCHANGED atVars => gps_cmd' = "AT_INIT"
    BY <1>2, AtStep DEF GpsAtInit, AtInv, AtTypeOK, Phase, atVars, AtHome
  <2> QED BY <1>2, <2>1, <2>2, <2>3, <2>4 DEF GpsAtInit
<1>3. CASE GpsQueryEnable(reply, ret)
  <2>1. GpsMoves
    BY <1>3, EnablingMoves DEF GpsQueryEnable, GpsCommand
  <2> QED BY <1>3, <1>a, <2>1
          DEF GpsQueryEnable, Enabling, SendGps, Polls, RecordsOK, DatesOK, BeliefBegins, BeliefEnds
<1>4. CASE GpsEnable(reply, ret)
  <2>1. GpsMoves
    BY <1>4, EnablingMoves DEF GpsEnable, GpsCommand
  <2> QED BY <1>4, <1>a, <2>1
          DEF GpsEnable, Enabling, SendGps, Polls, RecordsOK, DatesOK, BeliefBegins, BeliefEnds
<1>5. CASE GpsCBC(reply, ret)
  <2>1. ASSUME SendGps("CBC", ret)
        PROVE  GpsMoves
    BY <2>1, SendGpsMoves DEF GpsCommand
  <2>2. ASSUME Polls("CBC") /\ AcceptGps("LOCATION")
        PROVE  GpsMoves
    BY <2>2, AcceptGpsMoves DEF Polls, GpsState, GpsCommand
  <2>3. ASSUME /\ Polls("CBC")
               /\ KeepPollingGps(reply, CbcTimeout, ret) \/ RetryGps(reply, CbcTimeout, TRUE, ret)
        PROVE  GpsMoves
    BY <2>3, PollMoves DEF Polls
  <2>4. GpsMoves
    BY <1>5, <2>1, <2>2, <2>3 DEF GpsCBC
  <2> QED BY <1>5, <1>a, <2>4 DEF GpsCBC, SendGps, Polls, RecordsOK, DatesOK, BeliefBegins, BeliefEnds
<1>6. CASE GpsLocation(reply, parsed, date, ret)
  <2>1. ASSUME SendLocation(ret)
        PROVE  GpsMoves /\ RecordsOK' /\ DatesOK'
    <3>1. GpsMoves
      BY <2>1, SendGpsMoves DEF SendLocation, GpsCommand
    <3> QED BY <1>6, <2>1, <3>1 DEF GpsLocation, SendLocation, RecordsOK, DatesOK
  <2>2. ASSUME Polls("LOCATION") /\ AcceptLocation(parsed, date, ret)
        PROVE  GpsMoves /\ RecordsOK' /\ DatesOK'
    <3>1. GpsMoves
      BY <2>2, AcceptGpsMoves DEF AcceptLocation, Polls, GpsState, GpsCommand
    <3>2. gnss_sts' \in BOOLEAN
      BY <2>2 DEF AcceptLocation
    <3>3. /\ gps_date_avail' = (gps_date_avail \/ (parsed /\ date = "valid"))
          /\ sys_gps_date' = IF parsed THEN date # "valid" ELSE sys_gps_date
      BY <2>2 DEF AcceptLocation, UpdateGpsDate
    <3>4. (gps_date_avail \/ (parsed /\ date = "valid")) \in BOOLEAN
      OBVIOUS
    <3>5. (IF parsed THEN date # "valid" ELSE sys_gps_date) \in BOOLEAN
      BY DEF DatesOK
    <3> QED BY <1>6, <3>1, <3>2, <3>3, <3>4, <3>5 DEF GpsLocation, RecordsOK, DatesOK
  <2>3. ASSUME Polls("LOCATION") /\ MissLocation(reply, ret)
        PROVE  GpsMoves /\ RecordsOK' /\ DatesOK'
    <3>1. GpsMoves
      BY <2>3, PollMoves DEF MissLocation, Polls
    <3>2. sys_gps_date' \in BOOLEAN
      BY <2>3 DEF MissLocation, DatesOK
    <3> QED BY <1>6, <2>3, <3>1, <3>2 DEF GpsLocation, MissLocation, RecordsOK, DatesOK
  <2>4. GpsMoves /\ RecordsOK' /\ DatesOK'
    BY <1>6, <2>1, <2>2, <2>3 DEF GpsLocation
  <2>5. gps_cmd = "LOCATION" /\ UNCHANGED atVars /\ UNCHANGED NMEA_enabled
    BY <1>6 DEF GpsLocation, SendLocation, SendGps, Polls
  <2> QED BY <1>a, <2>4, <2>5 DEF BeliefBegins, BeliefEnds
<1>7. CASE GpsGPGGAStart(reply, parsed, ret)
  <2>1. ASSUME SendStart(ret)
        PROVE  GpsMoves /\ RecordsOK' /\ BeliefBegins /\ (NMEA_enabled => NMEA_enabled')
    <3>1. GpsMoves
      BY <2>1, SendGpsMoves DEF SendStart, GpsCommand
    <3> QED BY <2>1, <3>1 DEF SendStart, RecordsOK, BeliefBegins, SendGps
  <2>2. ASSUME Polls("GPGGA_START") /\ AcceptStart(parsed, ret)
        PROVE  GpsMoves /\ RecordsOK' /\ BeliefBegins /\ (NMEA_enabled => NMEA_enabled')
    <3>1. GpsMoves
      BY <2>2, AcceptGpsMoves DEF AcceptStart, Polls, GpsState, GpsCommand
    <3> QED BY <2>2, <3>1 DEF AcceptStart, RecordsOK, BeliefBegins
  <2>3. ASSUME /\ Polls("GPGGA_START")
               /\ \/ KeepPollingGps(reply, RspTimeout, ret)
                  \/ RetryGps(reply, RspTimeout, TRUE, ret)
               /\ UNCHANGED <<NMEA_enabled, gpsRecords>>
        PROVE  GpsMoves /\ RecordsOK' /\ BeliefBegins /\ (NMEA_enabled => NMEA_enabled')
    <3>1. GpsMoves
      BY <2>3, PollMoves DEF Polls
    <3> QED BY <2>3, <3>1 DEF RecordsOK, BeliefBegins
  <2>4. GpsMoves /\ RecordsOK' /\ BeliefBegins /\ (NMEA_enabled => NMEA_enabled')
    BY <1>7, <2>1, <2>2, <2>3 DEF GpsGPGGAStart
  <2>5. gps_cmd = "GPGGA_START" /\ UNCHANGED atVars /\ DatesOK'
    BY <1>7 DEF GpsGPGGAStart, SendStart, SendGps, Polls, DatesOK
  <2> QED BY <1>a, <2>4, <2>5 DEF BeliefEnds
<1>8. CASE GpsGPGGAStop(reply, ret)
  <2>1. ASSUME SendGps("GPGGA_STOP", ret)
        PROVE  GpsMoves
    BY <2>1, SendGpsMoves DEF GpsCommand
  <2>2. ASSUME Polls("GPGGA_STOP") /\ AcceptStop(ret)
        PROVE  GpsMoves
    BY <2>2, AcceptGpsMoves DEF AcceptStop, Polls, GpsState, GpsCommand
  <2>3. ASSUME /\ Polls("GPGGA_STOP")
               /\ \/ KeepPollingGps(reply, RspTimeout, ret)
                  \/ RetryGps(reply, RspTimeout, FALSE, ret)
        PROVE  GpsMoves
    BY <2>3, PollMoves DEF Polls
  <2>4. GpsMoves
    BY <1>8, <2>1, <2>2, <2>3 DEF GpsGPGGAStop
  <2>5. /\ RecordsOK' /\ (NMEA_enabled' => NMEA_enabled)
        /\ NMEA_enabled /\ ~ NMEA_enabled' => Polls("GPGGA_STOP") /\ Accepted(reply)
    <3>1. CASE Polls("GPGGA_STOP") /\ Accepted(reply) /\ AcceptStop(ret)
      <4>1. NMEA_enabled' = FALSE
        BY <3>1 DEF AcceptStop
      <4>2. (gga_sts' = FALSE /\ gnss_sts' = FALSE) \/ UNCHANGED <<gga_sts, gnss_sts>>
        BY <3>1 DEF AcceptStop
      <4>3. RecordsOK'
        BY <4>1, <4>2 DEF RecordsOK
      <4> QED BY <3>1, <4>1, <4>3
    <3>2. CASE UNCHANGED <<NMEA_enabled, gpsRecords>>
      <4>1. RecordsOK'
        BY <3>2 DEF RecordsOK
      <4> QED BY <3>2, <4>1
    <3> QED BY <1>8, <3>1, <3>2 DEF GpsGPGGAStop
  <2>6. gps_cmd = "GPGGA_STOP" /\ UNCHANGED atVars /\ DatesOK'
    BY <1>8 DEF GpsGPGGAStop, SendGps, Polls, DatesOK
  <2> QED BY <1>a, <2>4, <2>5, <2>6 DEF BeliefBegins, BeliefEnds
<1> QED BY <1>1, <1>2, <1>3, <1>4, <1>5, <1>6, <1>7, <1>8 DEF gps_handler

-----------------------------------------------------------------------------
(***************************************************************************)
(* http_handler                                                            *)
(***************************************************************************)
\* GprsTypeOK but for the session timer, which is the business of the caller.
HttpTypeOK ==
  /\ gprs_state \in GprsState
  /\ ConnectTypeOK /\ StatusTypeOK
  /\ sys_gsm_sim \in BOOLEAN /\ sys_gprs_date \in BOOLEAN /\ gprs_date_avail \in BOOLEAN

\* What one call does to the two sequences: one that waits for an answer is the one
\* the state is about, and it has just asked or was waiting already.
HttpMoves(ret) ==
  /\ gc_phase' = "RSP" => ret = "CON_IN_PRG" /\ gprs_state = "CONNECT" /\ gc_cmd' = gc_cmd
  /\ gs_phase' = "RSP" => ret = "CON_IN_PRG" /\ gprs_state = "CONN_STS"
  /\ gprs_state = "CONNECT" /\ gc_phase = "CMD" => gc_phase' = "RSP"
  /\ gprs_state = "CONN_STS" /\ gs_phase = "CMD" => gs_phase' = "RSP"
  /\ gprs_state' = "SESSION_IDLE" => gc_phase' = "CMD" /\ gs_phase' = "CMD"

LEMMA HttpStep ==
  ASSUME HttpTypeOK, RestartFromScratch, AtInv,
         NEW reply \in Reply, NEW date \in DateKind, NEW dt, NEW ret \in ConStatus,
         http_handler(reply, date, dt, ret)
  PROVE  /\ HttpTypeOK' /\ RestartFromScratch' /\ AtInv' /\ HttpMoves(ret)
         /\ IF gprs_state = "AT_INIT" THEN modem_initAT(reply) ELSE UNCHANGED atVars
         /\ AtHome' \/ UNCHANGED atVars \/ gprs_state' = "AT_INIT"
         /\ gprs_state = "AT_INIT" /\ UNCHANGED atVars => gprs_state' = "AT_INIT"
<1> USE DEF HttpTypeOK, GprsState, gprsBits, connectVars, statusVars
<1>a. ASSUME UNCHANGED atVars PROVE AtInv'
  BY <1>a DEF AtInv, AtTypeOK, atVars
<1>b. ASSUME UNCHANGED connectVars PROVE ConnectTypeOK'
  BY <1>b DEF ConnectTypeOK
<1>c. ASSUME UNCHANGED statusVars PROVE StatusTypeOK'
  BY <1>c DEF StatusTypeOK
<1>1. CASE HttpIdle(ret)
  BY <1>1, <1>a, <1>b, <1>c DEF HttpIdle, RestartFromScratch, HttpMoves
<1>2. CASE HttpAtInit(reply, ret)
  <2>1. AtInv' /\ (ret \in {"CON_OK", "CON_FAIL"} => AtHome')
    BY <1>2, AtStep DEF HttpAtInit
  <2>2. gprs_state' = IF ret = "CON_OK" THEN "CONNECT"
                      ELSE IF ret = "CON_FAIL" THEN "IDLE" ELSE "AT_INIT"
    BY <1>2 DEF HttpAtInit, StepTo
  <2>3. AtHome' \/ gprs_state' = "AT_INIT"
    BY <2>1, <2>2
  <2>4. UNCHANGED atVars => gprs_state' = "AT_INIT"
    BY <1>2, <2>1, <2>2, AtStep DEF HttpAtInit, AtInv, AtTypeOK, Phase, atVars, AtHome
  <2>5. gprs_state = "AT_INIT" /\ modem_initAT(reply) /\ UNCHANGED <<connectVars, statusVars>>
    BY <1>2 DEF HttpAtInit
  <2>6. RestartFromScratch' /\ HttpMoves(ret)
    BY <2>2, <2>5 DEF RestartFromScratch, HttpMoves
  <2>7. HttpTypeOK'
    BY <1>2, <1>b, <1>c, <2>2, <2>5 DEF HttpAtInit
  <2> QED BY <2>1, <2>3, <2>4, <2>5, <2>6, <2>7
<1>3. CASE HttpConnect(reply, date, ret)
  <2>1. /\ ConnectMoves(ret)
        /\ gprs_date_avail' \in BOOLEAN /\ sys_gsm_sim' \in BOOLEAN /\ sys_gprs_date' \in BOOLEAN
    BY <1>3, ConnectStep DEF HttpConnect
  <2>2. /\ gprs_state = "CONNECT" /\ UNCHANGED <<atVars, statusVars>>
        /\ gprs_state' = IF ret = "CON_OK" THEN "CONN_STS"
                         ELSE IF ret = "CON_FAIL" THEN "IDLE" ELSE "CONNECT"
    BY <1>3 DEF HttpConnect, StepTo
  <2>3. HttpTypeOK'
    BY <2>1, <2>2, <1>c DEF ConnectMoves
  <2>4. RestartFromScratch' /\ HttpMoves(ret)
    BY <2>1, <2>2
       DEF RestartFromScratch, HttpMoves, ConnectMoves, ConnectHome, StatusTypeOK, Phase
  <2> QED BY <1>a, <2>2, <2>3, <2>4
<1>4. CASE HttpConnSts(reply, date, ret)
  <2>1. /\ StatusTypeOK' /\ gprs_date_avail' \in BOOLEAN
        /\ ret \in {"CON_OK", "CON_FAIL"} => StatusHome'
        /\ gs_phase' = "RSP" => ret = "CON_IN_PRG"
        /\ gs_phase = "CMD" => gs_phase' = "RSP"
    BY <1>4, StatusStep DEF HttpConnSts
  <2>2. /\ gprs_state = "CONN_STS" /\ UNCHANGED <<atVars, connectVars, gprsBits>>
        /\ gprs_state' = IF ret = "CON_OK" THEN "SESSION_IDLE"
                         ELSE IF ret = "CON_FAIL" THEN "IDLE" ELSE "CONN_STS"
    BY <1>4 DEF HttpConnSts, StepTo
  <2>3. HttpTypeOK'
    BY <2>1, <2>2, <1>b
  <2>4. RestartFromScratch' /\ HttpMoves(ret)
    BY <2>1, <2>2 DEF RestartFromScratch, HttpMoves, StatusHome
  <2> QED BY <1>a, <2>2, <2>3, <2>4
<1>5. CASE HttpSessionIdle(dt, ret)
  <2>1. gprs_state = "SESSION_IDLE" /\ gprs_state' \in {"CONN_STS", "SESSION_IDLE"}
    BY <1>5 DEF HttpSessionIdle
  <2>2. UNCHANGED <<atVars, connectVars, statusVars, gprsBits, gprs_date_avail>>
    BY <1>5 DEF HttpSessionIdle
  <2>3. HttpTypeOK'
    BY <2>1, <2>2, <1>b, <1>c
  <2>4. RestartFromScratch' /\ HttpMoves(ret)
    BY <2>1, <2>2 DEF RestartFromScratch, HttpMoves
  <2> QED BY <1>a, <2>1, <2>2, <2>3, <2>4
<1> QED BY <1>1, <1>2, <1>3, <1>4, <1>5 DEF http_handler

-----------------------------------------------------------------------------
(***************************************************************************)
(* The inductive invariant.                                                *)
(***************************************************************************)
ClocksOK ==
  /\ slice_age \in 0..Slice /\ other_diff \in 0..Slice /\ read_timeout \in 0..Slice
  /\ sess_age \in 0..SessIdle

LineOK == nmea \in BOOLEAN /\ wire \in AtCommand \cup GprsCommand \cup GpsCommand \cup {"none"}

PartsOK ==
  /\ AtInv /\ LinkOK /\ RecordsOK /\ DatesOK /\ HttpTypeOK /\ ClocksOK /\ LineOK
  /\ sys_gps_pass \in BOOLEAN
  /\ conn_state \in {"BEGIN", "LOCATION", "UPLOAD"}

\* GPRS has a question open only while it has the link.
GprsQuietOutside == conn_state # "UPLOAD" => gc_phase = "CMD" /\ gs_phase = "CMD"

\* Nothing has run before the modem answered for the first time.
StartFresh == conn_state = "BEGIN" => gps_cmd = "IDLE" /\ gprs_state = "IDLE" /\ ~ NMEA_enabled

IInv ==
  /\ PartsOK
  /\ UploadNotStreaming /\ AnswerBelongs /\ RestartFromScratch /\ AtOwned
  /\ GprsQuietOutside /\ StartFresh

LEMMA PartsTypeOK ==
  ASSUME PartsOK
  PROVE  TypeOK
BY DEF PartsOK, TypeOK, AtInv, AtTypeOK, GprsTypeOK, HttpTypeOK, ConnectTypeOK, StatusTypeOK, GpsTypeOK,
       LinkOK, RecordsOK, DatesOK, WebTypeOK, ClocksOK, LineOK

LEMMA InitIInv ==
  ASSUME Init
  PROVE  IInv
<1> USE RetryCntAssumption, RspTimeoutAssumption, AtTimeoutAssumption, CbcTimeoutAssumption,
        SliceAssumption, SessIdleAssumption DEF Init, AtInit, GprsInit, GpsInit
<1>1. PartsOK
  <2>1. AtInv
    BY DEF AtInv, AtTypeOK, AtCommand, ConStatus, Phase
  <2>2. gprs_state \in GprsState /\ ConnectTypeOK /\ StatusTypeOK
    BY DEF GprsState, ConnectTypeOK, GprsCommand, StatusTypeOK, Phase
  <2>3. LinkOK
    BY DEF LinkOK, GpsState, Phase
  <2>4. RecordsOK /\ DatesOK /\ sys_gps_pass \in BOOLEAN
    BY DEF RecordsOK, DatesOK
  <2>5. sys_gsm_sim \in BOOLEAN /\ sys_gprs_date \in BOOLEAN /\ gprs_date_avail \in BOOLEAN
    OBVIOUS
  <2>6. LineOK
    BY DEF LineOK
  <2>7. ClocksOK
    BY DEF ClocksOK
  <2> QED BY <2>1, <2>2, <2>3, <2>4, <2>5, <2>6, <2>7 DEF PartsOK, HttpTypeOK
<1>2. UploadNotStreaming /\ AnswerBelongs /\ RestartFromScratch /\ AtOwned
  BY DEF UploadNotStreaming, AnswerBelongs, RestartFromScratch, AtOwned
<1> QED BY <1>1, <1>2 DEF IInv, GprsQuietOutside, StartFresh

LEMMA CappedType ==
  ASSUME NEW t \in Nat
  PROVE  Capped(t) \in 0..Slice
BY SliceAssumption DEF Capped

LEMMA ClocksStep ==
  ASSUME ClocksOK, NEW dt \in Periods, SessionClock(dt),
         NEW next, NEW spent \in 0..Slice,
         HandTo(next, dt) \/ StayIn(dt, spent) \/ UNCHANGED timeVars
  PROVE  ClocksOK'
<1> USE SliceAssumption, PeriodsAssumption, SessIdleAssumption DEF ClocksOK
<1>1. dt \in Nat /\ slice_age + dt \in Nat
  OBVIOUS
<1>2. slice_age' \in 0..Slice /\ other_diff' \in 0..Slice /\ read_timeout' \in 0..Slice
  BY <1>1, CappedType DEF HandTo, StayIn, timeVars
<1>3. sess_age' \in 0..SessIdle
  BY <1>1 DEF SessionClock, SessAged
<1> QED BY <1>2, <1>3

LEMMA ModemStep ==
  ASSUME PartsOK, NEW reply \in Reply, Modem(reply)
  PROVE  LineOK'
<1>1. Sent \in AtCommand \cup GprsCommand \cup GpsCommand \cup {"none"}
  BY DEF Sent, PartsOK, AtInv, AtTypeOK, HttpTypeOK, ConnectTypeOK, GprsCommand, GpsUsed
<1>2. wire' \in AtCommand \cup GprsCommand \cup GpsCommand \cup {"none"}
  BY <1>1 DEF Modem, PartsOK, LineOK
<1>3. nmea' \in {nmea, TRUE, FALSE}
  BY DEF Modem
<1> QED BY <1>2, <1>3 DEF LineOK, PartsOK

LEMMA BeginStep ==
  ASSUME IInv, NEW reply \in Reply, NEW dt \in Periods,
         ConnectBegin(reply), SessionClock(dt), Modem(reply)
  PROVE  IInv'
<1> USE DEF IInv
<1>1. /\ AtInv'
      /\ at_sts' = "CON_OK" => AtHome'
  BY AtStep DEF ConnectBegin, PartsOK
<1>2. /\ conn_state = "BEGIN" /\ gps_cmd = "IDLE" /\ gps_phase = "CMD" /\ gprs_state = "IDLE"
      /\ ~ NMEA_enabled
      /\ gc_cmd = "CPIN" /\ gc_phase = "CMD" /\ gc_retry = 0 /\ gs_phase = "CMD" /\ gs_retry = 0
  BY DEF ConnectBegin, StartFresh, PartsOK, LinkOK, GpsCommand, Phase, RestartFromScratch
<1>3. /\ UNCHANGED <<gc_cmd, gc_phase, gc_retry, gc_timeout, gs_phase, gs_retry, gs_timeout>>
      /\ UNCHANGED <<sys_gsm_sim, gprs_date_avail, gps_retry, gps_timeout, NMEA_enabled>>
      /\ UNCHANGED <<gga_sts, gnss_sts, gps_date_avail, timeVars>>
      /\ sys_gps_pass' = TRUE /\ sys_gps_date' = TRUE /\ sys_gprs_date' = TRUE
  BY DEF ConnectBegin, connectVars, statusVars, gpsRecords
<1>4. \/ /\ gps_cmd' = "QUERY_ENABLE" /\ gps_phase' = "CMD" /\ gprs_state' = "CONNECT"
         /\ conn_state' = "LOCATION" /\ AtHome'
      \/ gps_cmd' = "IDLE" /\ gps_phase' = "CMD" /\ gprs_state' = "IDLE" /\ conn_state' = "BEGIN"
  BY <1>1, <1>2 DEF ConnectBegin, Goto
<1>5. PartsOK'
  <2>1. ClocksOK'
    BY <1>3, ClocksStep, SliceAssumption DEF PartsOK
  <2>2. LineOK'
    BY ModemStep
  <2>3. LinkOK'
    BY <1>3, <1>4 DEF PartsOK, LinkOK, GpsState, GpsCommand, Phase
  <2>4. RecordsOK' /\ DatesOK' /\ sys_gps_pass' \in BOOLEAN
    BY <1>3 DEF PartsOK, RecordsOK, DatesOK
  <2>5. ConnectTypeOK' /\ StatusTypeOK' /\ gprs_state' \in GprsState
    BY <1>3, <1>4 DEF PartsOK, HttpTypeOK, ConnectTypeOK, StatusTypeOK, GprsState
  <2>6. sys_gsm_sim' \in BOOLEAN /\ sys_gprs_date' \in BOOLEAN /\ gprs_date_avail' \in BOOLEAN
    BY <1>3 DEF PartsOK, HttpTypeOK
  <2> QED BY <1>1, <1>4, <2>1, <2>2, <2>3, <2>4, <2>5, <2>6 DEF PartsOK, HttpTypeOK
<1>6. UploadNotStreaming' /\ AnswerBelongs' /\ RestartFromScratch' /\ AtOwned'
  BY <1>2, <1>3, <1>4 DEF UploadNotStreaming, AnswerBelongs, RestartFromScratch, AtOwned, AtHome
<1>7. GprsQuietOutside' /\ StartFresh'
  BY <1>2, <1>3, <1>4 DEF GprsQuietOutside, StartFresh
<1> QED BY <1>5, <1>6, <1>7

\* What is sent while GPS, and while GPRS, has the link.
LEMMA SentByGps ==
  ASSUME conn_state = "LOCATION", gps_cmd \in GpsCommand
  PROVE  Sent = IF gps_phase = "CMD" THEN gps_cmd ELSE "none"
BY DEF Sent, AtUsed, GpsUsed, ConnectUsed, StatusUsed, GpsCommand

LEMMA SentByGprs ==
  ASSUME conn_state = "UPLOAD", gprs_state # "AT_INIT"
  PROVE  Sent = IF gprs_state = "CONNECT" /\ gc_phase = "CMD" THEN gc_cmd
                ELSE IF gprs_state = "CONN_STS" /\ gs_phase = "CMD" THEN "CCLK"
                ELSE "none"
BY DEF Sent, AtUsed, GpsUsed, ConnectUsed, StatusUsed

LEMMA LocationStep ==
  ASSUME IInv, NEW reply \in Reply, NEW parsed \in BOOLEAN, NEW date \in DateKind,
         NEW dt \in Periods,
         ConnectLocation(reply, parsed, date, dt), SessionClock(dt), Modem(reply)
  PROVE  IInv'
<1> USE DEF IInv
<1>1. PICK ret \in GpsStatus :
        LET yields == ret \in {"GPS_WAIT", "GPS_PASS"} /\ ~ NMEA_enabled'
            spent == Capped(read_timeout + 1)
        IN /\ gps_handler(reply, parsed, date, ret)
           /\ sys_gps_pass' = IF yields THEN GpsPassBit(ret) ELSE TRUE
           /\ IF yields \/ (SliceOver(spent) /\ ~ NMEA_enabled')
              THEN HandTo("UPLOAD", dt) ELSE StayIn(dt, spent)
  BY DEF ConnectLocation
<1> DEFINE spent == Capped(read_timeout + 1)
<1>2. spent \in 0..Slice
  BY CappedType, SliceAssumption DEF PartsOK, ClocksOK
<1>3. HandTo("UPLOAD", dt) \/ StayIn(dt, spent)
  BY <1>1
<1>4. conn_state = "LOCATION" /\ conn_state' \in {"LOCATION", "UPLOAD"}
  BY <1>3 DEF ConnectLocation, HandTo, StayIn
<1>5. conn_state' = "UPLOAD" => ~ NMEA_enabled'
  BY <1>1, <1>4 DEF StayIn
<1>6. /\ UNCHANGED <<gprs_state, gc_cmd, gc_phase, gc_retry, gc_timeout, gs_phase, gs_retry, gs_timeout>>
      /\ UNCHANGED <<sys_gsm_sim, sys_gprs_date, gprs_date_avail>>
  BY DEF ConnectLocation, connectVars, statusVars, gprsBits
<1>7. /\ GpsMoves /\ RecordsOK' /\ DatesOK' /\ BeliefBegins /\ AtInv'
      /\ AtHome' \/ UNCHANGED atVars \/ gps_cmd' = "AT_INIT"
      /\ gps_cmd = "AT_INIT" /\ UNCHANGED atVars => gps_cmd' = "AT_INIT"
  BY <1>1, GpsStep DEF PartsOK
<1>8. gc_phase' = "CMD" /\ gs_phase' = "CMD"
  BY <1>4, <1>6 DEF GprsQuietOutside
<1>9. PartsOK'
  <2>1. ClocksOK'
    BY <1>2, <1>3, ClocksStep DEF PartsOK
  <2>2. LineOK'
    BY ModemStep
  <2>3. HttpTypeOK'
    BY <1>6 DEF PartsOK, HttpTypeOK, ConnectTypeOK, StatusTypeOK
  <2>4. sys_gps_pass' \in BOOLEAN
    <3>1. GpsPassBit(ret) \in BOOLEAN
      BY DEF GpsPassBit, PartsOK
    <3>2. sys_gps_pass' \in {GpsPassBit(ret), TRUE}
      BY <1>1
    <3> QED BY <3>1, <3>2
  <2> QED BY <1>4, <1>7, <2>1, <2>2, <2>3, <2>4 DEF PartsOK, GpsMoves
<1>10. UploadNotStreaming'
  BY <1>5 DEF UploadNotStreaming
<1>11. AnswerBelongs'
  <2>1. ASSUME gps_phase' = "RSP", NMEA_enabled'
        PROVE  wire' = gps_cmd'
    <3>1. gps_cmd' = gps_cmd /\ gps_cmd \in GpsCommand
      BY <1>7, <2>1 DEF GpsMoves, LinkOK
    <3>2. Sent = IF gps_phase = "CMD" THEN gps_cmd ELSE "none"
      BY <1>4, <3>1, SentByGps
    <3>3. CASE gps_phase = "CMD"
      BY <3>1, <3>2, <3>3 DEF Modem, GpsCommand
    <3>4. CASE gps_phase = "RSP"
      <4>1. NMEA_enabled
        BY <1>7, <2>1, <3>4 DEF BeliefBegins
      <4> QED BY <3>1, <3>2, <3>4, <4>1 DEF AnswerBelongs, Modem
    <3> QED BY <3>3, <3>4 DEF PartsOK, LinkOK, Phase
  <2> QED BY <1>8, <2>1 DEF AnswerBelongs
<1>12. RestartFromScratch'
  BY <1>6 DEF RestartFromScratch
<1>13. AtOwned'
  BY <1>4, <1>6, <1>7 DEF AtOwned, AtHome, atVars
<1>14. GprsQuietOutside' /\ StartFresh'
  BY <1>4, <1>8 DEF GprsQuietOutside, StartFresh
<1> QED BY <1>9, <1>10, <1>11, <1>12, <1>13, <1>14

LEMMA UploadStep ==
  ASSUME IInv, NEW reply \in Reply, NEW date \in DateKind, NEW dt \in Periods,
         ConnectUpload(reply, date, dt), SessionClock(dt), Modem(reply)
  PROVE  IInv'
<1> USE DEF IInv
<1>1. PICK ret \in ConStatus :
        LET spent == Capped(read_timeout + 1)
        IN /\ http_handler(reply, date, dt, ret)
           /\ IF \/ ret \in {"CON_WAIT", "CON_OK"}
                 \/ SliceOver(spent) /\ (ret # "CON_IN_PRG" \/ gprs_state' = "SESSION_IDLE")
              THEN HandTo("LOCATION", dt) ELSE StayIn(dt, spent)
  BY DEF ConnectUpload
<1> DEFINE spent == Capped(read_timeout + 1)
<1>2. spent \in 0..Slice
  BY CappedType, SliceAssumption DEF PartsOK, ClocksOK
<1>3. HandTo("LOCATION", dt) \/ StayIn(dt, spent)
  BY <1>1
<1>4. conn_state = "UPLOAD" /\ conn_state' \in {"LOCATION", "UPLOAD"}
  BY <1>3 DEF ConnectUpload, HandTo, StayIn
<1>5. conn_state' = "LOCATION" => ret # "CON_IN_PRG" \/ gprs_state' = "SESSION_IDLE"
  BY <1>1, <1>4 DEF StayIn
<1>6. /\ UNCHANGED <<gps_cmd, gps_phase, gps_retry, gps_timeout, NMEA_enabled, gga_sts, gnss_sts>>
      /\ UNCHANGED <<sys_gps_pass, sys_gps_date, gps_date_avail>>
  BY DEF ConnectUpload, gpsVars, gpsLink, gpsRecords, gpsDate
<1>7. /\ HttpTypeOK' /\ RestartFromScratch' /\ AtInv' /\ HttpMoves(ret)
      /\ AtHome' \/ UNCHANGED atVars \/ gprs_state' = "AT_INIT"
      /\ gprs_state = "AT_INIT" /\ UNCHANGED atVars => gprs_state' = "AT_INIT"
  BY <1>1, HttpStep DEF PartsOK
<1>8. PartsOK'
  <2>1. ClocksOK'
    BY <1>2, <1>3, ClocksStep DEF PartsOK
  <2>2. LineOK'
    BY ModemStep
  <2>3. LinkOK' /\ RecordsOK' /\ DatesOK'
    BY <1>6 DEF PartsOK, LinkOK, RecordsOK, DatesOK
  <2> QED BY <1>4, <1>6, <1>7, <2>1, <2>2, <2>3 DEF PartsOK
<1>9. ~ NMEA_enabled'
  BY <1>4, <1>6 DEF UploadNotStreaming
<1>10. AnswerBelongs'
  <2>1. ASSUME gc_phase' = "RSP"
        PROVE  wire' = gc_cmd'
    <3>1. gprs_state = "CONNECT" /\ gc_cmd' = gc_cmd /\ gc_cmd \in GprsCommand
      BY <1>7, <2>1 DEF HttpMoves, PartsOK, HttpTypeOK, ConnectTypeOK
    <3>2. Sent = IF gc_phase = "CMD" THEN gc_cmd ELSE "none"
      BY <1>4, <3>1, SentByGprs
    <3>3. CASE gc_phase = "CMD"
      BY <3>1, <3>2, <3>3 DEF Modem, GprsCommand
    <3>4. CASE gc_phase = "RSP"
      BY <3>1, <3>2, <3>4 DEF AnswerBelongs, Modem
    <3> QED BY <3>3, <3>4 DEF PartsOK, HttpTypeOK, ConnectTypeOK, Phase
  <2>2. ASSUME gs_phase' = "RSP"
        PROVE  wire' = "CCLK"
    <3>1. gprs_state = "CONN_STS"
      BY <1>7, <2>2 DEF HttpMoves
    <3>2. Sent = IF gs_phase = "CMD" THEN "CCLK" ELSE "none"
      BY <1>4, <3>1, SentByGprs
    <3>3. CASE gs_phase = "CMD"
      BY <3>2, <3>3 DEF Modem
    <3>4. CASE gs_phase = "RSP"
      BY <3>2, <3>4 DEF AnswerBelongs, Modem
    <3> QED BY <3>3, <3>4 DEF PartsOK, HttpTypeOK, StatusTypeOK, Phase
  <2> QED BY <1>9, <2>1, <2>2 DEF AnswerBelongs
<1>11. AtOwned'
  BY <1>4, <1>6, <1>7 DEF AtOwned, AtHome, atVars
<1>12. GprsQuietOutside' /\ StartFresh' /\ UploadNotStreaming'
  <2>1. conn_state' = "LOCATION" => gc_phase' = "CMD" /\ gs_phase' = "CMD"
    BY <1>5, <1>7 DEF HttpMoves, HttpTypeOK, ConnectTypeOK, StatusTypeOK, Phase
  <2> QED BY <1>4, <1>9, <2>1 DEF GprsQuietOutside, StartFresh, UploadNotStreaming
<1> QED BY <1>7, <1>8, <1>10, <1>11, <1>12

LEMMA TakeDateStep ==
  ASSUME IInv, TakeDate
  PROVE  IInv'
<1> USE DEF IInv
<1>1. /\ UNCHANGED <<at_sts, at_cmd, at_phase, at_retry, at_timeout>>
      /\ UNCHANGED <<gprs_state, gc_cmd, gc_phase, gc_retry, gc_timeout, gs_phase, gs_retry, gs_timeout>>
      /\ UNCHANGED <<sess_age, sys_gsm_sim, sys_gprs_date>>
      /\ UNCHANGED <<gps_cmd, gps_phase, gps_retry, gps_timeout, NMEA_enabled, gga_sts, gnss_sts>>
      /\ UNCHANGED <<sys_gps_pass, sys_gps_date, conn_state, slice_age, other_diff, read_timeout>>
      /\ UNCHANGED <<nmea, wire>>
  BY DEF TakeDate, atVars, connectVars, statusVars, gprsBits, gpsLink, gpsRecords, timeVars, modemVars
<1>2. gprs_date_avail' \in BOOLEAN /\ gps_date_avail' \in BOOLEAN
  BY DEF TakeDate, PartsOK, HttpTypeOK, DatesOK
<1>3. PartsOK'
  <2>1. AtInv' /\ LinkOK' /\ RecordsOK' /\ ClocksOK' /\ LineOK'
    BY <1>1 DEF PartsOK, AtInv, AtTypeOK, LinkOK, RecordsOK, ClocksOK, LineOK
  <2>2. DatesOK' /\ HttpTypeOK'
    BY <1>1, <1>2 DEF PartsOK, DatesOK, HttpTypeOK, ConnectTypeOK, StatusTypeOK
  <2> QED BY <1>1, <2>1, <2>2 DEF PartsOK
<1>4. UploadNotStreaming' /\ AnswerBelongs' /\ RestartFromScratch' /\ AtOwned'
  BY <1>1 DEF UploadNotStreaming, AnswerBelongs, RestartFromScratch, AtOwned
<1>5. GprsQuietOutside' /\ StartFresh'
  BY <1>1 DEF GprsQuietOutside, StartFresh
<1> QED BY <1>3, <1>4, <1>5

LEMMA StutterStep ==
  ASSUME IInv, UNCHANGED vars
  PROVE  IInv'
<1> USE DEF IInv, vars, atVars, gprsVars, connectVars, statusVars, gprsBits, gpsVars, gpsLink, gpsRecords,
        gpsDate, timeVars, modemVars
<1>1. AtInv' /\ LinkOK' /\ RecordsOK' /\ DatesOK'
  BY DEF PartsOK, AtInv, AtTypeOK, LinkOK, RecordsOK, DatesOK
<1>2. HttpTypeOK' /\ ClocksOK' /\ LineOK'
  BY DEF PartsOK, HttpTypeOK, ConnectTypeOK, StatusTypeOK, ClocksOK, LineOK
<1>3. PartsOK'
  BY <1>1, <1>2 DEF PartsOK
<1>4. UploadNotStreaming' /\ AnswerBelongs' /\ RestartFromScratch' /\ AtOwned'
  BY DEF UploadNotStreaming, AnswerBelongs, RestartFromScratch, AtOwned
<1>5. GprsQuietOutside' /\ StartFresh'
  BY DEF GprsQuietOutside, StartFresh
<1> QED BY <1>3, <1>4, <1>5

LEMMA NextIInv ==
  ASSUME IInv, [Next]_vars
  PROVE  IInv'
<1>1. ASSUME NEW reply \in Reply, NEW parsed \in BOOLEAN, NEW date \in Dates, NEW dt \in Periods,
             Tick(reply, parsed, date, dt)
      PROVE  IInv'
  <2>1. date \in DateKind /\ SessionClock(dt) /\ Modem(reply)
    BY <1>1, DatesAssumption DEF Tick
  <2> QED BY <1>1, <2>1, BeginStep, LocationStep, UploadStep DEF Tick
<1> QED BY <1>1, TakeDateStep, StutterStep DEF Next, manage_gps_gprs

LEMMA Inductive == Spec => []IInv
<1>1. Init => IInv
  BY InitIInv
<1>2. IInv /\ [Next]_vars => IInv'
  BY NextIInv
<1> QED BY <1>1, <1>2, PTL DEF Spec

-----------------------------------------------------------------------------
(***************************************************************************)
(* The safety theorems.                                                    *)
(***************************************************************************)
\* Every variable of the time sharing keeps its type, for any number of attempts
\* and any timeouts: no counter of the handlers runs away.
THEOREM TypeCorrect == Spec => []TypeOK
<1>1. IInv => TypeOK
  BY PartsTypeOK DEF IInv
<1> QED BY <1>1, Inductive, PTL

\* GPRS never has the link while gps_handler believes that the modem streams.
THEOREM UploadNeverStreams == Spec => []UploadNotStreaming
<1>1. IInv => UploadNotStreaming
  BY DEF IInv
<1> QED BY <1>1, Inductive, PTL

\* A handler that polls for an answer was the last to send a command.
THEOREM AnswersBelong == Spec => []AnswerBelongs
<1>1. IInv => AnswerBelongs
  BY DEF IInv
<1> QED BY <1>1, Inductive, PTL

\* Each GPRS sequence is at its first command, with all its attempts, whenever
\* http_handler is elsewhere.
THEOREM SequencesRestart == Spec => []RestartFromScratch
<1>1. IInv => RestartFromScratch
  BY DEF IInv
<1> QED BY <1>1, Inductive, PTL

\* The shared AT initialisation is in the middle only while a caller steps it.
THEOREM InitialisationOwned == Spec => []AtOwned
<1>1. IInv => AtOwned
  BY DEF IInv
<1> QED BY <1>1, Inductive, PTL

LEMMA BeliefDroppedStep ==
  ASSUME IInv, [Next]_vars, NMEA_enabled, ~ NMEA_enabled'
  PROVE  gps_cmd = "IDLE" \/ ~ nmea'
<1> USE DEF IInv
<1>1. ASSUME UNCHANGED NMEA_enabled
      PROVE  FALSE
  BY <1>1
<1>2. ~ TakeDate /\ ~ UNCHANGED vars
  BY <1>1 DEF TakeDate, vars, gpsVars
<1>3. PICK reply \in Reply, parsed \in BOOLEAN, date \in Dates, dt \in Periods :
        Tick(reply, parsed, date, dt)
  BY <1>2 DEF Next, manage_gps_gprs
<1>4. ConnectLocation(reply, parsed, date, dt) /\ conn_state = "LOCATION" /\ Modem(reply)
  BY <1>1, <1>3 DEF Tick, ConnectBegin, ConnectUpload, gpsVars, ConnectLocation
<1>5. PICK ret \in GpsStatus : gps_handler(reply, parsed, date, ret)
  BY <1>4 DEF ConnectLocation
<1>6. BeliefEnds(reply)
  BY <1>5, GpsStep, DatesAssumption DEF PartsOK
<1>7. CASE Polls("GPGGA_STOP") /\ Accepted(reply)
  <2>1. gps_cmd = "GPGGA_STOP" /\ gps_phase = "RSP" /\ GpsUsed
    BY <1>4, <1>7 DEF Polls, GpsUsed, GpsCommand
  <2>2. Sent = "none"
    BY <1>4, <2>1, SentByGps DEF GpsUsed
  <2>3. nmea' \in {FALSE}
    BY <1>4, <1>7, <2>1, <2>2 DEF Modem
  <2> QED BY <2>3
<1> QED BY <1>6, <1>7 DEF BeliefEnds

\* gps_handler stops believing in the stream only when it starts over, or when the
\* modem has really stopped.
THEOREM BeliefDroppedRightly == Spec => BeliefDropped
<1>1. IInv /\ [Next]_vars => [NMEA_enabled /\ ~ NMEA_enabled' => gps_cmd = "IDLE" \/ ~ nmea']_vars
  BY BeliefDroppedStep
<1> QED BY <1>1, Inductive, PTL DEF Spec, BeliefDropped

-----------------------------------------------------------------------------
(***************************************************************************)
(* The time sharing implements ModemArbiter.                               *)
(***************************************************************************)
InitAsks == at_phase = "RSP"
GpsAsks == gps_phase = "RSP"
GprsAsks == gc_phase = "RSP" \/ gs_phase = "RSP"

LEMMA OpenMeans ==
  /\ OpenQuestions \subseteq {"init", "gps", "gprs"}
  /\ "init" \in OpenQuestions <=> InitAsks
  /\ "gps" \in OpenQuestions <=> GpsAsks
  /\ "gprs" \in OpenQuestions <=> GprsAsks
BY DEF OpenQuestions, InitAsks, GpsAsks, GprsAsks

LEMMA OpenMeansNext ==
  /\ OpenQuestions' \subseteq {"init", "gps", "gprs"}
  /\ "init" \in OpenQuestions' <=> InitAsks'
  /\ "gps" \in OpenQuestions' <=> GpsAsks'
  /\ "gprs" \in OpenQuestions' <=> GprsAsks'
BY DEF OpenQuestions, InitAsks, GpsAsks, GprsAsks

LEMMA SideMeans ==
  /\ \A c \in AtCommand : SideOf(c) = "init"
  /\ \A c \in GprsCommand : SideOf(c) = "gprs"
  /\ \A c \in GpsCommand : SideOf(c) = "gps"
BY DEF SideOf, AtCommand, GprsCommand, GpsCommand

LEMMA RestMeans ==
  ASSUME InitAsks <=> InitAsks', GpsAsks <=> GpsAsks', GprsAsks <=> GprsAsks', wire' = wire
  PROVE  Arbiter!Rest
<1>1. \A u : u \in OpenQuestions' <=> u \in OpenQuestions
  BY OpenMeans, OpenMeansNext
<1>2. OpenQuestions' = OpenQuestions
  BY <1>1
<1> QED BY <1>2 DEF Arbiter!Rest

\* The steps of the three users, on the mapped line.
LEMMA InitUses ==
  ASSUME UNCHANGED <<gps_phase, gc_phase, gs_phase>>, at_phase \in Phase, at_phase' \in Phase,
         at_phase = "CMD" => at_phase' = "RSP" /\ wire' \in AtCommand,
         at_phase = "RSP" => wire' = wire
  PROVE  Arbiter!Ask("init") \/ Arbiter!Close("init") \/ Arbiter!Rest
<1> USE OpenMeans, OpenMeansNext DEF InitAsks, GpsAsks, GprsAsks
<1>1. CASE at_phase = "CMD"
  BY <1>1, SideMeans DEF Arbiter!Ask
<1>2. CASE at_phase = "RSP" /\ at_phase' = "CMD"
  BY <1>2 DEF Arbiter!Close
<1>3. CASE at_phase = "RSP" /\ at_phase' = "RSP"
  BY <1>3, RestMeans
<1> QED BY <1>1, <1>2, <1>3 DEF Phase

LEMMA GpsUses ==
  ASSUME UNCHANGED <<at_phase, gc_phase, gs_phase>>, gps_phase \in Phase, gps_phase' \in Phase,
         gps_phase = "CMD" /\ gps_phase' = "RSP" => wire' \in GpsCommand,
         gps_phase = "RSP" \/ gps_phase' = "CMD" => wire' = wire
  PROVE  /\ Arbiter!Ask("gps") \/ Arbiter!Close("gps") \/ Arbiter!Rest
         /\ gps_phase = "CMD" /\ gps_phase' = "RSP" => Arbiter!Ask("gps")
<1> USE OpenMeans, OpenMeansNext DEF InitAsks, GpsAsks, GprsAsks
<1>1. ASSUME gps_phase = "CMD" /\ gps_phase' = "RSP"
      PROVE  Arbiter!Ask("gps")
  BY <1>1, SideMeans DEF Arbiter!Ask
<1>2. ASSUME gps_phase = "RSP" /\ gps_phase' = "CMD"
      PROVE  Arbiter!Close("gps")
  BY <1>2 DEF Arbiter!Close
<1>3. ASSUME gps_phase' = gps_phase
      PROVE  Arbiter!Rest
  BY <1>3, RestMeans DEF Phase
<1> QED BY <1>1, <1>2, <1>3 DEF Phase

LEMMA GprsUses ==
  ASSUME UNCHANGED <<at_phase, gps_phase>>,
         ~ GprsAsks /\ GprsAsks' => wire' \in GprsCommand,
         GprsAsks \/ ~ GprsAsks' => wire' = wire
  PROVE  Arbiter!Ask("gprs") \/ Arbiter!Close("gprs") \/ Arbiter!Rest
<1> USE OpenMeans, OpenMeansNext DEF InitAsks, GpsAsks
<1>1. CASE ~ GprsAsks /\ GprsAsks'
  BY <1>1, SideMeans DEF Arbiter!Ask
<1>2. CASE GprsAsks /\ ~ GprsAsks'
  BY <1>2 DEF Arbiter!Close
<1>3. CASE GprsAsks <=> GprsAsks'
  BY <1>3, RestMeans
<1> QED BY <1>1, <1>2, <1>3

\* The initialisation sends AT and ECHO_OFF, whoever steps it.
LEMMA SentByInit ==
  ASSUME AtUsed
  PROVE  Sent = IF at_phase = "CMD" THEN at_cmd ELSE "none"
BY DEF Sent, AtUsed, GpsUsed, ConnectUsed, StatusUsed, GpsCommand

LEMMA InitWire ==
  ASSUME IInv, IInv', AtUsed, NEW reply \in Reply, modem_initAT(reply), Modem(reply),
         UNCHANGED <<gps_phase, gc_phase, gs_phase>>
  PROVE  Arbiter!Ask("init") \/ Arbiter!Close("init") \/ Arbiter!Rest
<1>1. at_cmd \in AtCommand /\ at_phase \in Phase /\ at_phase' \in Phase
  BY DEF IInv, PartsOK, AtInv, AtTypeOK
<1>2. at_phase = "CMD" => at_phase' = "RSP" /\ wire' \in AtCommand
  BY <1>1, AtStep, SentByInit DEF IInv, PartsOK, Modem, AtCommand
<1>3. at_phase = "RSP" => wire' = wire
  BY SentByInit DEF Modem
<1> QED BY <1>1, <1>2, <1>3, InitUses

LEMMA BeginArbiter ==
  ASSUME IInv, IInv', NEW reply \in Reply, NEW dt \in Periods, ConnectBegin(reply), Modem(reply)
  PROVE  Arbiter!ArbiterStep("init")
<1>1. AtUsed /\ modem_initAT(reply) /\ conn_state = "BEGIN"
  BY DEF ConnectBegin, AtUsed
<1>2. gps_phase = "CMD" /\ gps_phase' = "CMD" /\ UNCHANGED <<gc_phase, gs_phase, NMEA_enabled>>
  BY <1>1 DEF ConnectBegin, Goto, connectVars, statusVars, IInv, StartFresh, PartsOK, LinkOK, GpsCommand, Phase
<1>3. Arbiter!Ask("init") \/ Arbiter!Close("init") \/ Arbiter!Rest
  BY <1>1, <1>2, InitWire
<1>4. \/ conn_state' = "BEGIN"
      \/ conn_state' = "LOCATION" /\ at_phase' = "CMD"
  BY <1>1, AtStep DEF ConnectBegin, AtHome, IInv, PartsOK
<1>5. conn_state' = "LOCATION" => Arbiter!HandOver
  BY <1>1, <1>4, OpenMeansNext DEF Arbiter!HandOver, OwnerOf, InitAsks
<1>6. UNCHANGED OwnerOf(conn_state) \/ Arbiter!HandOver
  BY <1>1, <1>4, <1>5
<1>7. Arbiter!MayStream("init") /\ NMEA_enabled' \in BOOLEAN
  BY <1>2 DEF Arbiter!MayStream, IInv, PartsOK, RecordsOK
<1>8. "init" \in Arbiter!UsersOf(OwnerOf(conn_state))
  BY DEF Arbiter!UsersOf
<1> QED BY <1>3, <1>6, <1>7, <1>8 DEF Arbiter!ArbiterStep

LEMMA LocationArbiter ==
  ASSUME IInv, IInv', NEW reply \in Reply, NEW parsed \in BOOLEAN, NEW date \in DateKind,
         NEW dt \in Periods, ConnectLocation(reply, parsed, date, dt), Modem(reply)
  PROVE  Arbiter!ArbiterNext
<1>1. PICK ret \in GpsStatus :
        LET yields == ret \in {"GPS_WAIT", "GPS_PASS"} /\ ~ NMEA_enabled'
            spent == Capped(read_timeout + 1)
        IN /\ gps_handler(reply, parsed, date, ret)
           /\ IF yields \/ (SliceOver(spent) /\ ~ NMEA_enabled')
              THEN HandTo("UPLOAD", dt) ELSE StayIn(dt, spent)
  BY DEF ConnectLocation
<1>2. /\ conn_state = "LOCATION"
      /\ conn_state' = "LOCATION" \/ (conn_state' = "UPLOAD" /\ ~ NMEA_enabled')
  BY <1>1 DEF ConnectLocation, HandTo, StayIn
<1>3. UNCHANGED <<gc_phase, gs_phase>>
  BY DEF ConnectLocation, connectVars, statusVars
<1>4. /\ GpsMoves /\ BeliefBegins
      /\ IF gps_cmd = "AT_INIT" THEN modem_initAT(reply) /\ UNCHANGED NMEA_enabled
         ELSE UNCHANGED atVars
  BY <1>1, GpsStep DEF IInv, PartsOK
<1>5. UNCHANGED OwnerOf(conn_state) \/ Arbiter!HandOver
  BY <1>2 DEF Arbiter!HandOver, OwnerOf
<1>6. {"init", "gps"} \subseteq Arbiter!UsersOf(OwnerOf(conn_state))
  BY <1>2 DEF Arbiter!UsersOf, OwnerOf
<1>7. NMEA_enabled' \in BOOLEAN
  BY DEF IInv, PartsOK, RecordsOK
<1>8. CASE gps_cmd = "AT_INIT"
  <2>1. AtUsed
    BY <1>2, <1>8 DEF AtUsed
  <2>2. gps_phase = "CMD" /\ gps_phase' = "CMD"
    BY <1>4, <1>8 DEF IInv, PartsOK, LinkOK, GpsMoves, GpsCommand, Phase
  <2>3. Arbiter!Ask("init") \/ Arbiter!Close("init") \/ Arbiter!Rest
    BY <1>3, <1>4, <1>8, <2>1, <2>2, InitWire
  <2>4. Arbiter!MayStream("init")
    BY <1>4, <1>8 DEF Arbiter!MayStream
  <2>5. Arbiter!ArbiterStep("init")
    BY <1>5, <1>6, <1>7, <2>3, <2>4 DEF Arbiter!ArbiterStep
  <2> QED BY <2>5 DEF Arbiter!ArbiterNext, Arbiter!User
<1>9. CASE gps_cmd # "AT_INIT"
  <2>1. at_phase' = at_phase
    BY <1>4, <1>9 DEF atVars
  <2>2. gps_phase \in Phase /\ gps_phase' \in Phase
    BY DEF IInv, PartsOK, LinkOK
  <2>3. Sent = IF gps_cmd \in GpsCommand /\ gps_phase = "CMD" THEN gps_cmd ELSE "none"
    BY <1>2, <1>9 DEF Sent, AtUsed, GpsUsed, ConnectUsed, StatusUsed, GpsCommand
  <2>4. gps_phase = "CMD" /\ gps_phase' = "RSP" => wire' \in GpsCommand
    BY <1>4, <2>3 DEF GpsMoves, LinkOK, Modem, GpsCommand
  <2>5. gps_phase = "RSP" \/ gps_phase' = "CMD" => wire' = wire
    BY <1>4, <2>3 DEF GpsMoves, Modem
  <2>6. /\ Arbiter!Ask("gps") \/ Arbiter!Close("gps") \/ Arbiter!Rest
        /\ gps_phase = "CMD" /\ gps_phase' = "RSP" => Arbiter!Ask("gps")
    BY <1>3, <2>1, <2>2, <2>4, <2>5, GpsUses
  <2>7. Arbiter!MayStream("gps")
    BY <1>4, <2>6 DEF BeliefBegins, GpsMoves, GpsCommand, Arbiter!MayStream
  <2>8. Arbiter!ArbiterStep("gps")
    BY <1>5, <1>6, <1>7, <2>6, <2>7 DEF Arbiter!ArbiterStep
  <2> QED BY <2>8 DEF Arbiter!ArbiterNext, Arbiter!User
<1> QED BY <1>8, <1>9

LEMMA UploadArbiter ==
  ASSUME IInv, IInv', NEW reply \in Reply, NEW date \in DateKind, NEW dt \in Periods,
         ConnectUpload(reply, date, dt), Modem(reply)
  PROVE  Arbiter!ArbiterNext
<1>1. PICK ret \in ConStatus : http_handler(reply, date, dt, ret)
  BY DEF ConnectUpload
<1>2. conn_state = "UPLOAD" /\ UNCHANGED <<gps_phase, NMEA_enabled>>
  BY DEF ConnectUpload, gpsVars, gpsLink
<1>3. conn_state' \in {"UPLOAD", "LOCATION"}
  BY <1>2 DEF ConnectUpload, HandTo, StayIn
<1>4. /\ HttpMoves(ret)
      /\ IF gprs_state = "AT_INIT" THEN modem_initAT(reply) ELSE UNCHANGED atVars
  BY <1>1, HttpStep DEF IInv, PartsOK
<1>5. conn_state' = "LOCATION" => ~ GprsAsks'
  BY <1>3 DEF IInv, GprsQuietOutside, GprsAsks
<1>6. UNCHANGED OwnerOf(conn_state) \/ Arbiter!HandOver
  BY <1>2, <1>3, <1>5, OpenMeansNext DEF Arbiter!HandOver, OwnerOf
<1>7. {"init", "gprs"} \subseteq Arbiter!UsersOf(OwnerOf(conn_state))
  BY <1>2 DEF Arbiter!UsersOf, OwnerOf
<1>8. /\ Arbiter!MayStream("init") /\ Arbiter!MayStream("gprs")
      /\ NMEA_enabled' \in BOOLEAN
  BY <1>2 DEF Arbiter!MayStream, IInv, PartsOK, RecordsOK
<1>9. CASE gprs_state = "AT_INIT"
  <2>1. AtUsed
    BY <1>2, <1>9 DEF AtUsed
  <2>2. UNCHANGED <<gc_phase, gs_phase>>
    BY <1>4, <1>9 DEF HttpMoves, IInv, PartsOK, RestartFromScratch, HttpTypeOK, ConnectTypeOK,
                      StatusTypeOK, Phase
  <2>3. Arbiter!Ask("init") \/ Arbiter!Close("init") \/ Arbiter!Rest
    BY <1>2, <1>4, <1>9, <2>1, <2>2, InitWire
  <2>4. Arbiter!ArbiterStep("init")
    BY <1>6, <1>7, <1>8, <2>3 DEF Arbiter!ArbiterStep
  <2> QED BY <2>4 DEF Arbiter!ArbiterNext, Arbiter!User
<1>10. CASE gprs_state # "AT_INIT"
  <2>1. at_phase' = at_phase
    BY <1>4, <1>10 DEF atVars
  <2>2. Sent = IF gprs_state = "CONNECT" /\ gc_phase = "CMD" THEN gc_cmd
               ELSE IF gprs_state = "CONN_STS" /\ gs_phase = "CMD" THEN "CCLK"
               ELSE "none"
    BY <1>2, <1>10, SentByGprs
  <2>3. /\ gc_cmd \in GprsCommand /\ "CCLK" \in GprsCommand
        /\ gc_phase \in Phase /\ gs_phase \in Phase /\ gc_phase' \in Phase /\ gs_phase' \in Phase
    BY DEF IInv, PartsOK, HttpTypeOK, ConnectTypeOK, StatusTypeOK, GprsCommand
  <2>4. /\ gprs_state # "CONNECT" => gc_phase = "CMD"
        /\ gprs_state # "CONN_STS" => gs_phase = "CMD"
    BY DEF IInv, RestartFromScratch
  <2>5. ~ GprsAsks /\ GprsAsks' => wire' \in GprsCommand
    BY <1>4, <2>2, <2>3, <2>4 DEF GprsAsks, HttpMoves, Modem, GprsCommand, Phase
  <2>6. GprsAsks \/ ~ GprsAsks' => wire' = wire
    BY <1>4, <2>2, <2>3, <2>4 DEF GprsAsks, HttpMoves, Modem, Phase
  <2>7. Arbiter!Ask("gprs") \/ Arbiter!Close("gprs") \/ Arbiter!Rest
    BY <1>2, <2>1, <2>5, <2>6, GprsUses
  <2>8. Arbiter!ArbiterStep("gprs")
    BY <1>6, <1>7, <1>8, <2>7 DEF Arbiter!ArbiterStep
  <2> QED BY <2>8 DEF Arbiter!ArbiterNext, Arbiter!User
<1> QED BY <1>9, <1>10

LEMMA ArbiterInitial ==
  ASSUME Init
  PROVE  Arbiter!ArbiterInit
<1>1. at_phase = "CMD" /\ gps_phase = "CMD" /\ gc_phase = "CMD" /\ gs_phase = "CMD"
  BY DEF Init, AtInit, GpsInit, GprsInit
<1>2. OpenQuestions = {}
  BY <1>1, OpenMeans DEF InitAsks, GpsAsks, GprsAsks
<1>3. OwnerOf(conn_state) = "start" /\ SideOf(wire) = "none" /\ NMEA_enabled = FALSE
  BY DEF Init, GpsInit, OwnerOf, SideOf, AtCommand, GprsCommand, GpsCommand
<1> QED BY <1>2, <1>3 DEF Arbiter!ArbiterInit

LEMMA ArbiterSteps ==
  ASSUME IInv, IInv', [Next]_vars
  PROVE  [Arbiter!ArbiterNext]_(Arbiter!arbiterVars)
<1>1. ASSUME NEW reply \in Reply, NEW parsed \in BOOLEAN, NEW date \in Dates, NEW dt \in Periods,
             Tick(reply, parsed, date, dt)
      PROVE  Arbiter!ArbiterNext
  <2>1. date \in DateKind /\ Modem(reply)
    BY <1>1, DatesAssumption DEF Tick
  <2> QED BY <1>1, <2>1, BeginArbiter, LocationArbiter, UploadArbiter
          DEF Tick, Arbiter!ArbiterNext, Arbiter!User
<1>2. ASSUME UNCHANGED <<at_phase, gps_phase, gc_phase, gs_phase, wire, NMEA_enabled, conn_state>>
      PROVE  UNCHANGED Arbiter!arbiterVars
  BY <1>2, RestMeans DEF InitAsks, GpsAsks, GprsAsks, Arbiter!Rest, Arbiter!arbiterVars
<1>3. ASSUME TakeDate
      PROVE  UNCHANGED Arbiter!arbiterVars
  BY <1>2, <1>3 DEF TakeDate, atVars, connectVars, statusVars, gpsLink, modemVars
<1>4. ASSUME UNCHANGED vars
      PROVE  UNCHANGED Arbiter!arbiterVars
  BY <1>2, <1>4 DEF vars, atVars, gprsVars, connectVars, statusVars, gpsVars, gpsLink, modemVars
<1> QED BY <1>1, <1>3, <1>4 DEF Next, manage_gps_gprs

\* The time sharing implements ModemArbiter: whatever the modem answers, the users
\* ask one at a time, the link changes hands only as the arbiter allows, and no
\* belief in a stream is carried into the time of GPRS.
THEOREM LinkIsShared == Spec => SharesTheLink
<1>1. Init => Arbiter!ArbiterInit
  BY ArbiterInitial
<1>2. IInv /\ IInv' /\ [Next]_vars => [Arbiter!ArbiterNext]_(Arbiter!arbiterVars)
  BY ArbiterSteps
<1> QED BY <1>1, <1>2, Inductive, PTL DEF Spec, SharesTheLink, Arbiter!ArbiterSpec
=============================================================================
