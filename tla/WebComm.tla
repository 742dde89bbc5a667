------------------------------ MODULE WebComm ------------------------------
(***************************************************************************)
(* manage_gps_gprs: the 50 ms task that shares the modem link between the  *)
(* GPS and the GPRS side.  Time is counted in scheduler periods of 50 ms;  *)
(* a call comes one period after the previous one, or much later when the  *)
(* superloop was held up.                                                  *)
(*                                                                         *)
(* The modem is the environment: it answers what it likes, or not at all,  *)
(* and streams NMEA records from GPGGA_START to GPGGA_STOP.                *)
(***************************************************************************)
EXTENDS Gprs, Gps

CONSTANTS
  Slice,      \* the 1000 ms after which a slice may be ended, in periods
  Periods,    \* how much time may pass from one call to the next
  Dates       \* what the dates the modem sends may be worth

ASSUME SliceAssumption == Slice \in Nat \ {0}
ASSUME PeriodsAssumption == Periods \subseteq Nat \ {0}
ASSUME DatesAssumption == Dates \subseteq DateKind

VARIABLES
  conn_state,    \* BEGIN, LOCATION (GPS has the link) or UPLOAD (GPRS has it)
  slice_age,     \* time since gps_strt in LOCATION, gprs_strt in UPLOAD
  other_diff,    \* gprs_diff in LOCATION, gps_diff in UPLOAD: how long the slice
                 \* before this one was (the other of the two is overwritten unread)
  read_timeout,  \* gprs_read_timeout in LOCATION, gps_read_timeout in UPLOAD (the
                 \* other of the two is 0)
  nmea,          \* the modem streams
  wire           \* the last command sent

timeVars == <<slice_age, other_diff, read_timeout>>
modemVars == <<nmea, wire>>
vars == <<atVars, gprsVars, gpsVars, conn_state, timeVars, modemVars>>

WebTypeOK ==
  /\ conn_state \in {"BEGIN", "LOCATION", "UPLOAD"}
  /\ slice_age \in 0..Slice
  /\ other_diff \in 0..Slice
  /\ read_timeout \in 0..Slice
  /\ nmea \in BOOLEAN
  /\ wire \in AtCommand \cup GprsCommand \cup GpsCommand \cup {"none"}

\* Every variable holds a value of its type.
TypeOK == AtTypeOK /\ GprsTypeOK /\ GpsTypeOK /\ WebTypeOK

\* init_modem has just reset the modem: it does not stream.
Init ==
  /\ AtInit /\ GprsInit /\ GpsInit
  /\ conn_state = "BEGIN"
  /\ slice_age = 0 /\ other_diff = 0 /\ read_timeout = 0
  /\ nmea = FALSE /\ wire = "none"

-----------------------------------------------------------------------------
(***************************************************************************)
(* The modem.                                                              *)
(***************************************************************************)
AtUsed == conn_state = "BEGIN" \/ (conn_state = "LOCATION" /\ gps_cmd = "AT_INIT")
                               \/ (conn_state = "UPLOAD" /\ gprs_state = "AT_INIT")

GpsUsed == conn_state = "LOCATION" /\ gps_cmd \in GpsCommand
ConnectUsed == conn_state = "UPLOAD" /\ gprs_state = "CONNECT"
StatusUsed == conn_state = "UPLOAD" /\ gprs_state = "CONN_STS"

\* The command this call sends, if it sends one.
Sent ==
  CASE AtUsed /\ at_phase = "CMD" -> at_cmd
    [] GpsUsed /\ gps_phase = "CMD" -> gps_cmd
    [] ConnectUsed /\ gc_phase = "CMD" -> gc_cmd
    [] StatusUsed /\ gs_phase = "CMD" -> "CCLK"
    [] OTHER -> "none"

\* A command to start or stop the stream takes effect or is lost; an acknowledged
\* stop has taken effect.
Modem(reply) ==
  /\ wire' = IF Sent = "none" THEN wire ELSE Sent
  /\ nmea' \in CASE Sent = "GPGGA_START" -> {nmea, TRUE}
                 [] Sent = "GPGGA_STOP" -> {nmea, FALSE}
                 [] GpsUsed /\ Polls("GPGGA_STOP") /\ Accepted(reply) -> {FALSE}
                 [] OTHER -> {nmea}

-----------------------------------------------------------------------------
(***************************************************************************)
(* manage_gps_gprs                                                         *)
(***************************************************************************)
Capped(t) == IF t >= Slice THEN Slice ELSE t

\* The session timer counts from the moment the session becomes idle.
SessionClock(dt) ==
  sess_age' = IF gprs_state = "SESSION_IDLE" /\ gprs_state' = "SESSION_IDLE"
              THEN SessAged(dt) ELSE 0

\* The link changes hands: the clock of the new slice starts.
HandTo(next, dt) ==
  /\ conn_state' = next
  /\ other_diff' = Capped(slice_age + dt)
  /\ slice_age' = 0
  /\ read_timeout' = 0

StayIn(dt, spent) ==
  /\ slice_age' = Capped(slice_age + dt)
  /\ read_timeout' = spent
  /\ UNCHANGED <<conn_state, other_diff>>

SliceOver(spent) == other_diff + spent >= Slice

ConnectBegin(reply) ==
  /\ conn_state = "BEGIN"
  /\ modem_initAT(reply)
  /\ sys_gps_pass' = TRUE /\ sys_gps_date' = TRUE /\ sys_gprs_date' = TRUE
  /\ IF at_sts' = "CON_OK"
     THEN /\ Goto("QUERY_ENABLE")
          /\ gprs_state' = "CONNECT"
          /\ conn_state' = "LOCATION"
     ELSE UNCHANGED <<gps_cmd, gps_phase, gprs_state, conn_state>>
  /\ UNCHANGED <<connectVars, statusVars, sys_gsm_sim, gprs_date_avail, gps_retry, gps_timeout,
                 NMEA_enabled, gpsRecords, gps_date_avail, timeVars>>

\* MUTANT: the end of the slice does not look at NMEA_enabled.
ConnectLocationBlind(reply, parsed, date, dt) ==
  /\ conn_state = "LOCATION"
  /\ \E ret \in GpsStatus :
       LET yields == ret \in {"GPS_WAIT", "GPS_PASS"} /\ ~ NMEA_enabled'
           spent == Capped(read_timeout + 1)
       IN /\ gps_handler(reply, parsed, date, ret)
          /\ sys_gps_pass' = IF yields THEN GpsPassBit(ret) ELSE TRUE
          /\ IF yields \/ SliceOver(spent) THEN HandTo("UPLOAD", dt) ELSE StayIn(dt, spent)
  /\ UNCHANGED <<gprs_state, connectVars, statusVars, gprsBits, gprs_date_avail>>

\* MUTANT: a handler that waits yields, whatever the modem does.
ConnectLocationHasty(reply, parsed, date, dt) ==
  /\ conn_state = "LOCATION"
  /\ \E ret \in GpsStatus :
       LET yields == ret \in {"GPS_WAIT", "GPS_PASS"}
           spent == Capped(read_timeout + 1)
       IN /\ gps_handler(reply, parsed, date, ret)
          /\ sys_gps_pass' = IF yields THEN GpsPassBit(ret) ELSE TRUE
          /\ IF yields \/ (SliceOver(spent) /\ ~ NMEA_enabled')
             THEN HandTo("UPLOAD", dt) ELSE StayIn(dt, spent)
  /\ UNCHANGED <<gprs_state, connectVars, statusVars, gprsBits, gprs_date_avail>>

\* MUTANT: only a finished round yields, a long one never does.
ConnectLocationPatient(reply, parsed, date, dt) ==
  /\ conn_state = "LOCATION"
  /\ \E ret \in GpsStatus :
       LET yields == ret \in {"GPS_WAIT", "GPS_PASS"} /\ ~ NMEA_enabled'
       IN /\ gps_handler(reply, parsed, date, ret)
          /\ sys_gps_pass' = IF yields THEN GpsPassBit(ret) ELSE TRUE
          /\ IF yields THEN HandTo("UPLOAD", dt) ELSE StayIn(dt, Capped(read_timeout + 1))
  /\ UNCHANGED <<gprs_state, connectVars, statusVars, gprsBits, gprs_date_avail>>

\* GPS yields after an enabling or a finished round, or when its time is over; in
\* both cases only while it believes that the modem does not stream.
ConnectLocation(reply, parsed, date, dt) ==
  /\ conn_state = "LOCATION"
  /\ \E ret \in GpsStatus :
       LET yields == ret \in {"GPS_WAIT", "GPS_PASS"} /\ ~ NMEA_enabled'
           spent == Capped(read_timeout + 1)
       IN /\ gps_handler(reply, parsed, date, ret)
          /\ sys_gps_pass' = IF yields THEN GpsPassBit(ret) ELSE TRUE
          /\ IF yields \/ (SliceOver(spent) /\ ~ NMEA_enabled')
             THEN HandTo("UPLOAD", dt) ELSE StayIn(dt, spent)
  /\ UNCHANGED <<gprs_state, connectVars, statusVars, gprsBits, gprs_date_avail>>

\* MUTANT: the end of the slice does not look at what http_handler returned.
ConnectUploadImpatient(reply, date, dt) ==
  /\ conn_state = "UPLOAD"
  /\ \E ret \in ConStatus :
       LET spent == Capped(read_timeout + 1)
       IN /\ http_handler(reply, date, dt, ret)
          /\ IF ret \in {"CON_WAIT", "CON_OK"} \/ SliceOver(spent)
             THEN HandTo("LOCATION", dt) ELSE StayIn(dt, spent)
  /\ UNCHANGED gpsVars

\* GPRS yields after every answer that leads on, or when its time is over and it is
\* idle or has just failed.
ConnectUpload(reply, date, dt) ==
  /\ conn_state = "UPLOAD"
  /\ \E ret \in ConStatus :
       LET yields == ret \in {"CON_WAIT", "CON_OK"}
           spent == Capped(read_timeout + 1)
       IN /\ http_handler(reply, date, dt, ret)
          /\ IF \/ yields
                \/ SliceOver(spent) /\ (ret # "CON_IN_PRG" \/ gprs_state' = "SESSION_IDLE")
             THEN HandTo("LOCATION", dt) ELSE StayIn(dt, spent)
  /\ UNCHANGED gpsVars

\* One call of manage_gps_gprs, dt periods after the one before.
Tick(reply, parsed, date, dt) ==
  /\ \/ ConnectBegin(reply)
     \/ ConnectLocation(reply, parsed, date, dt)
     \/ ConnectUpload(reply, date, dt)
  /\ SessionClock(dt)
  /\ Modem(reply)

\* sync_time_modem, in the one-second task while the RTC is not set: it takes the
\* date GPRS offers, else the one GPS offers.
TakeDate ==
  /\ \/ gprs_date_avail /\ gprs_date_avail' = FALSE /\ UNCHANGED gps_date_avail
     \/ ~ gprs_date_avail /\ gps_date_avail /\ gps_date_avail' = FALSE /\ UNCHANGED gprs_date_avail
  /\ UNCHANGED <<atVars, gprs_state, connectVars, statusVars, sess_age, gprsBits, gpsLink,
                 NMEA_enabled, gpsRecords, sys_gps_pass, sys_gps_date, conn_state, timeVars,
                 modemVars>>

manage_gps_gprs ==
  \E reply \in Reply, parsed \in BOOLEAN, date \in Dates, dt \in Periods :
    Tick(reply, parsed, date, dt)

Next == manage_gps_gprs \/ TakeDate

Spec == Init /\ [][Next]_vars

\* The superloop keeps calling the 50 ms task.
FairSpec == Spec /\ WF_vars(manage_gps_gprs)

\* A GPS command that is polled again and again is answered rightly now and then.
Answered(cmd) ==
  /\ conn_state = "LOCATION" /\ Polls(cmd)
  /\ \E parsed \in BOOLEAN, date \in Dates, dt \in Periods : Tick("MATCH_OK", parsed, date, dt)

AnsweringSpec == FairSpec /\ \A cmd \in GpsCommand : SF_vars(Answered(cmd))

-----------------------------------------------------------------------------
(***************************************************************************)
(* Safety.                                                                 *)
(***************************************************************************)
\* GPRS never has the link while gps_handler believes that the modem streams:
\* the three ways manage_gps_gprs hands the link over all look at NMEA_enabled.
UploadNotStreaming == conn_state = "UPLOAD" => ~ NMEA_enabled

\* Whoever polls for an answer was the last to send a command: GPRS always, GPS
\* whenever it believes that the modem streams.  (A silent GPS may lose the link
\* with its question open.)
AnswerBelongs ==
  /\ gc_phase = "RSP" => wire = gc_cmd
  /\ gs_phase = "RSP" => wire = "CCLK"
  /\ gps_phase = "RSP" /\ NMEA_enabled => wire = gps_cmd

\* The two GPRS sequences keep their place in static variables, over any number of
\* slices and failures.  When http_handler is elsewhere, each is back at its first
\* command with all its attempts.
RestartFromScratch ==
  /\ gprs_state # "CONNECT" => gc_cmd = "CPIN" /\ gc_phase = "CMD" /\ gc_retry = 0
  /\ gprs_state # "CONN_STS" => gs_phase = "CMD" /\ gs_retry = 0

\* The initialisation, which three callers step through, is in the middle only
\* while one of them is in its AT_INIT state.
AtOwned ==
  <<at_cmd, at_phase, at_retry>> # <<"AT", "CMD", 0>> =>
    conn_state = "BEGIN" \/ gps_cmd = "AT_INIT" \/ gprs_state = "AT_INIT"

\* gps_handler stops believing in the stream only when it starts over, or when the
\* modem has really stopped.
BeliefDropped == [][NMEA_enabled /\ ~ NMEA_enabled' => gps_cmd = "IDLE" \/ ~ nmea']_vars

\* A date is offered to the clock only if it came with the last exchange: while the
\* answer to CCLK or to LOCATION is awaited, none is.
DateNotStale ==
  /\ gprs_date_avail => gc_phase = "CMD" \/ gc_cmd # "CCLK"
  /\ gprs_date_avail => gs_phase = "CMD"
  /\ gps_date_avail => ~ Polls("LOCATION")

\* A GPS date on offer is one whose status bit says that it is good, although eight
\* places write the bit and four the offer.
GpsDateAgrees == gps_date_avail => ~ sys_gps_date

-----------------------------------------------------------------------------
(***************************************************************************)
(* What comments say of the program and the program does not do.           *)
(***************************************************************************)
\* GPRS does not get the link before the stream is off (comment in manage_gps_gprs).
UploadModemQuiet == conn_state = "UPLOAD" => ~ nmea

\* With a good GGA record at hand, LOCATION is polled after GPGGA_START (comments on
\* its four branches): the record is then of this round.
GgaFromStart == Polls("LOCATION") /\ gga_sts => NMEA_enabled

\* SYS_GPRS_DATE is HIGH for a bad date, LOW for a good one (table in error.h).
GprsDateAgrees == gprs_date_avail => ~ sys_gprs_date

\* SYS_GSM_SIM is LOW while a SIM is inserted (table in error.h): the sequence is
\* past CPIN only after the modem has reported a SIM that is ready.
SimBitAgrees == gc_cmd # "CPIN" => ~ sys_gsm_sim

-----------------------------------------------------------------------------
(***************************************************************************)
(* Liveness.                                                               *)
(***************************************************************************)
\* However the modem behaves, GPRS gives the link back: every sequence runs out of
\* attempts, and the session is left when the slice is over.
UploadEnds == conn_state = "UPLOAD" ~> conn_state = "LOCATION"

\* GPS gives the link back as well, if the modem answers it now and then.
LocationEnds == conn_state = "LOCATION" ~> conn_state = "UPLOAD"

-----------------------------------------------------------------------------
(***************************************************************************)
(* The time sharing implements ModemArbiter.                               *)
(***************************************************************************)
OwnerOf(state) ==
  CASE state = "BEGIN" -> "start" [] state = "LOCATION" -> "gps" [] state = "UPLOAD" -> "gprs"

SideOf(command) ==
  CASE command \in AtCommand -> "init"
    [] command \in GprsCommand -> "gprs"
    [] command \in GpsCommand -> "gps"
    [] OTHER -> "none"

OpenQuestions ==
  {u \in {"init", "gps", "gprs"} :
     \/ u = "init" /\ at_phase = "RSP"
     \/ u = "gps" /\ gps_phase = "RSP"
     \/ u = "gprs" /\ (gc_phase = "RSP" \/ gs_phase = "RSP")}

Arbiter == INSTANCE ModemArbiter WITH
  owner <- OwnerOf(conn_state), open <- OpenQuestions,
  line <- SideOf(wire), streaming <- NMEA_enabled

\* The link is handed over as the arbiter allows, whatever the modem answers.
SharesTheLink == Arbiter!ArbiterSpec
=============================================================================
