------------------------------- MODULE Gps -------------------------------
(***************************************************************************)
(* The GPS side of the modem link: gps_handler.  It asks for the battery   *)
(* voltage (CBC), the GNSS fix (LOCATION) and the GGA record.  GGA records *)
(* come as an NMEA stream the modem keeps sending from GPGGA_START to      *)
(* GPGGA_STOP.  One call polls or sends at most once; "ret" is what the    *)
(* call returns.                                                           *)
(***************************************************************************)
EXTENDS ModemInit

CONSTANT CbcTimeout    \* CBC_TIMEOUT: empty polls before CBC is repeated

ASSUME CbcTimeoutAssumption == CbcTimeout \in Nat /\ RspTimeout <= CbcTimeout

VARIABLES
  gps_cmd, gps_phase,   \* gps_statuses.gps_handler_state
  gps_retry,            \* gps_retry_cnt
  gps_timeout,          \* timeout
  NMEA_enabled,         \* gps_statuses.NMEA_enabled: the handler's belief that the
                        \* modem streams
  gga_sts, gnss_sts,    \* gps_statuses: the last GGA, GNSS record was good
  sys_gps_pass,         \* system status bit SYS_GPS_PASS is HIGH: no position
  sys_gps_date,         \* system status bit SYS_GPS_DATE is HIGH
  gps_date_avail        \* gps_date_time.update_time_aval

gpsLink == <<gps_cmd, gps_phase, gps_retry, gps_timeout>>
gpsRecords == <<gga_sts, gnss_sts>>
gpsDate == <<sys_gps_date, gps_date_avail>>
gpsVars == <<gpsLink, NMEA_enabled, gpsRecords, sys_gps_pass, gpsDate>>

GpsCommand == {"QUERY_ENABLE", "ENABLE", "CBC", "GPGGA_START", "LOCATION", "GPGGA_STOP"}
GpsState == GpsCommand \cup {"IDLE", "AT_INIT"}
GpsStatus == {"GPS_PASS", "GPS_FAIL", "GPS_IN_PRG", "GPS_WAIT"}

GpsTypeOK ==
  /\ gps_cmd \in GpsState
  /\ gps_phase \in Phase
  /\ gps_retry \in 0..RetryCnt
  /\ gps_timeout \in 0..CbcTimeout
  /\ NMEA_enabled \in BOOLEAN
  /\ gga_sts \in BOOLEAN
  /\ gnss_sts \in BOOLEAN
  /\ sys_gps_pass \in BOOLEAN
  /\ sys_gps_date \in BOOLEAN
  /\ gps_date_avail \in BOOLEAN

\* Statics at power-up; update_startup_statuses has set both bits.
GpsInit ==
  /\ gps_cmd = "IDLE" /\ gps_phase = "CMD" /\ gps_retry = 0 /\ gps_timeout = 0
  /\ NMEA_enabled = FALSE
  /\ gga_sts = FALSE /\ gnss_sts = FALSE
  /\ sys_gps_pass = TRUE /\ sys_gps_date = TRUE
  /\ gps_date_avail = FALSE

-----------------------------------------------------------------------------
(***************************************************************************)
(* The pieces the commands are made of.                                    *)
(***************************************************************************)
Goto(cmd) == gps_cmd' = cmd /\ gps_phase' = "CMD"

SendGps(cmd, ret) ==
  /\ gps_cmd = cmd
  /\ gps_phase = "CMD"
  /\ ret = "GPS_IN_PRG"
  /\ gps_phase' = "RSP"
  /\ UNCHANGED <<gps_cmd, gps_retry, gps_timeout>>

Polls(cmd) == gps_cmd = cmd /\ gps_phase = "RSP"

\* The awaited answer: both counters restart, then comes "next".
AcceptGps(next) ==
  /\ Goto(next)
  /\ gps_retry' = 0
  /\ gps_timeout' = 0

KeepPollingGps(reply, limit, ret) ==
  /\ Waiting(reply, gps_timeout, limit)
  /\ ret = "GPS_IN_PRG"
  /\ gps_timeout' = gps_timeout + 1
  /\ UNCHANGED <<gps_cmd, gps_phase, gps_retry>>

\* A failed attempt: repeat the command, or report it and initialise again.
RetryGps(reply, limit, eager, ret) ==
  /\ AttemptFailed(reply, gps_timeout, limit)
  /\ \/ /\ LastAttempt(reply, gps_retry, eager)
        /\ ret = "GPS_FAIL"
        /\ Goto("AT_INIT")
        /\ gps_retry' = 0
     \/ /\ ~ LastAttempt(reply, gps_retry, eager)
        /\ ret = "GPS_IN_PRG"
        /\ Goto(gps_cmd)
        /\ gps_retry' = gps_retry + 1
  /\ gps_timeout' = IF Polls("GPGGA_STOP") /\ LastAttempt(reply, gps_retry, eager) THEN 0
                    ELSE TimeoutAfterFailure(reply, gps_timeout)

-----------------------------------------------------------------------------
GpsIdle(ret) ==
  /\ gps_cmd = "IDLE"
  /\ ret = "GPS_IN_PRG"
  /\ Goto("AT_INIT")
  /\ gga_sts' = FALSE /\ gnss_sts' = FALSE
  /\ NMEA_enabled' = FALSE
  /\ UNCHANGED <<atVars, gps_retry, gps_timeout, gpsDate>>

GpsAtInit(reply, ret) ==
  /\ gps_cmd = "AT_INIT"
  /\ modem_initAT(reply)
  /\ ret = IF at_sts' = "CON_FAIL" THEN "GPS_FAIL" ELSE "GPS_IN_PRG"
  /\ CASE at_sts' = "CON_OK" -> Goto("QUERY_ENABLE")
       [] at_sts' = "CON_FAIL" -> Goto("IDLE")
       [] OTHER -> UNCHANGED <<gps_cmd, gps_phase>>
  /\ UNCHANGED <<gps_retry, gps_timeout, NMEA_enabled, gpsRecords, gpsDate>>

\* Is the receiver on?  A wrong answer asks the other question at once, and is
\* not counted; an empty poll that ends an attempt is.
Enabling(cmd, other, reply, ret) ==
  /\ \/ SendGps(cmd, ret)
     \/ Polls(cmd) /\ Accepted(reply) /\ ret = "GPS_WAIT" /\ AcceptGps("CBC")
     \/ /\ Polls(cmd) /\ reply = "MATCH_FAIL" /\ ret = "GPS_IN_PRG"
        /\ Goto(other)
        /\ UNCHANGED <<gps_retry, gps_timeout>>
     \/ /\ Polls(cmd) /\ reply = "NO_NEW_MSG"
        /\ KeepPollingGps(reply, RspTimeout, ret) \/ RetryGps(reply, RspTimeout, FALSE, ret)
  /\ UNCHANGED <<atVars, NMEA_enabled, gpsRecords, gpsDate>>

GpsQueryEnable(reply, ret) == Enabling("QUERY_ENABLE", "ENABLE", reply, ret)

GpsEnable(reply, ret) == Enabling("ENABLE", "QUERY_ENABLE", reply, ret)

GpsCBC(reply, ret) ==
  /\ \/ SendGps("CBC", ret)
     \/ Polls("CBC") /\ Accepted(reply) /\ ret = "GPS_IN_PRG" /\ AcceptGps("LOCATION")
     \/ /\ Polls("CBC")
        /\ KeepPollingGps(reply, CbcTimeout, ret) \/ RetryGps(reply, CbcTimeout, TRUE, ret)
  /\ UNCHANGED <<atVars, NMEA_enabled, gpsRecords, gpsDate>>

\* The stream is taken to be on as soon as it is asked for.
SendStart(ret) ==
  /\ SendGps("GPGGA_START", ret)
  /\ NMEA_enabled' = TRUE
  /\ UNCHANGED gpsRecords

\* A GGA record, good or not, is asked to be the last unless the fix is missing.
AcceptStart(parsed, ret) ==
  /\ ret = "GPS_IN_PRG"
  /\ gga_sts' = parsed
  /\ AcceptGps(IF parsed /\ ~ gnss_sts THEN "LOCATION" ELSE "GPGGA_STOP")
  /\ UNCHANGED <<NMEA_enabled, gnss_sts>>

GpsGPGGAStart(reply, parsed, ret) ==
  /\ \/ SendStart(ret)
     \/ Polls("GPGGA_START") /\ Accepted(reply) /\ AcceptStart(parsed, ret)
     \/ /\ Polls("GPGGA_START")
        /\ KeepPollingGps(reply, RspTimeout, ret) \/ RetryGps(reply, RspTimeout, TRUE, ret)
        /\ UNCHANGED <<NMEA_enabled, gpsRecords>>
  /\ UNCHANGED <<atVars, gpsDate>>

\* MUTANT: the date of the round before stays on offer.
SendLocationStale(ret) == SendGps("LOCATION", ret) /\ UNCHANGED <<gnss_sts, gpsDate>>

SendLocation(ret) ==
  /\ SendGps("LOCATION", ret)
  /\ gps_date_avail' = FALSE
  /\ UNCHANGED <<gnss_sts, sys_gps_date>>

\* updateGpsDateTimeToBuff, called for a good record only.
UpdateGpsDate(parsed, date) ==
  /\ gps_date_avail' = (gps_date_avail \/ (parsed /\ date = "valid"))
  /\ sys_gps_date' = IF parsed THEN date # "valid" ELSE sys_gps_date

AcceptLocation(parsed, date, ret) ==
  /\ ret = "GPS_IN_PRG"
  /\ gnss_sts' = parsed
  /\ UpdateGpsDate(parsed, date)
  /\ AcceptGps(IF gga_sts THEN "GPGGA_STOP" ELSE "GPGGA_START")

MissLocation(reply, ret) ==
  /\ \/ KeepPollingGps(reply, RspTimeout, ret) /\ UNCHANGED sys_gps_date
     \/ RetryGps(reply, RspTimeout, TRUE, ret) /\ sys_gps_date' = TRUE
  /\ UNCHANGED <<gnss_sts, gps_date_avail>>

GpsLocation(reply, parsed, date, ret) ==
  /\ \/ SendLocation(ret)
     \/ Polls("LOCATION") /\ Accepted(reply) /\ AcceptLocation(parsed, date, ret)
     \/ Polls("LOCATION") /\ MissLocation(reply, ret)
  /\ UNCHANGED <<atVars, NMEA_enabled, gga_sts>>

\* The stream has stopped: a position if both records are good, another GGA record
\* if only that one is missing, a new round otherwise.
AcceptStop(ret) ==
  /\ NMEA_enabled' = FALSE
  /\ \/ /\ gga_sts /\ gnss_sts
        /\ ret = "GPS_PASS"
        /\ gga_sts' = FALSE /\ gnss_sts' = FALSE
        /\ AcceptGps("CBC")
     \/ /\ ~ gga_sts /\ gnss_sts
        /\ ret = "GPS_IN_PRG"
        /\ AcceptGps("GPGGA_START")
        /\ UNCHANGED gpsRecords
     \/ /\ ~ gnss_sts
        /\ ret = "GPS_WAIT"
        /\ AcceptGps("CBC")
        /\ UNCHANGED gpsRecords

\* MUTANT: the stream is taken to be off as soon as that is asked for.
GpsGPGGAStopAssumed(reply, ret) ==
  /\ \/ Polls("GPGGA_STOP") /\ Accepted(reply) /\ AcceptStop(ret)
     \/ SendGps("GPGGA_STOP", ret) /\ NMEA_enabled' = FALSE /\ UNCHANGED gpsRecords
     \/ /\ Polls("GPGGA_STOP")
        /\ KeepPollingGps(reply, RspTimeout, ret) \/ RetryGps(reply, RspTimeout, FALSE, ret)
        /\ UNCHANGED <<NMEA_enabled, gpsRecords>>
  /\ UNCHANGED <<atVars, gpsDate>>

GpsGPGGAStop(reply, ret) ==
  /\ \/ Polls("GPGGA_STOP") /\ Accepted(reply) /\ AcceptStop(ret)
     \/ /\ \/ SendGps("GPGGA_STOP", ret)
           \/ /\ Polls("GPGGA_STOP")
              /\ \/ KeepPollingGps(reply, RspTimeout, ret)
                 \/ RetryGps(reply, RspTimeout, FALSE, ret)
        /\ UNCHANGED <<NMEA_enabled, gpsRecords>>
  /\ UNCHANGED <<atVars, gpsDate>>

\* The bit SYS_GPS_PASS as gps_handler leaves it; its caller may still raise it.
GpsPassBit(ret) == IF ret = "GPS_PASS" THEN FALSE ELSE sys_gps_pass \/ gps_cmd = "IDLE"

\* One call of gps_handler, but for that bit.
gps_handler(reply, parsed, date, ret) ==
  \/ GpsIdle(ret)
  \/ GpsAtInit(reply, ret)
  \/ GpsQueryEnable(reply, ret) \/ GpsEnable(reply, ret)
  \/ GpsCBC(reply, ret)
  \/ GpsLocation(reply, parsed, date, ret)
  \/ GpsGPGGAStart(reply, parsed, ret) \/ GpsGPGGAStop(reply, ret)
=============================================================================
