-------------------------- MODULE ModemData_proofs --------------------------
(***************************************************************************)
(* Proofs about what the modem's answers bring: the dates that GPRS and    *)
(* GPS offer to the clock (WebComm), the position that is logged           *)
(* (Position), and the calendar that makes local time of a date and finds  *)
(* that it differs from the clock's (Calendar).                            *)
(***************************************************************************)
EXTENDS WebComm_proofs, Position, MCCalendar, WellFoundedInduction

\* The answer to CCLK is awaited by one sequence at a time, so an offer made by either
\* is withdrawn before either asks again; and before the first answer of the modem
\* GPS has offered nothing.
DateInv ==
  /\ DateNotStale /\ GpsDateAgrees
  /\ conn_state = "BEGIN" => ~ gps_date_avail

ConnectOfferFresh == gprs_date_avail => gc_phase = "CMD" \/ gc_cmd # "CCLK"
StatusOfferFresh == gprs_date_avail => gs_phase = "CMD"
GpsOfferGood == gps_date_avail => ~ Polls("LOCATION") /\ ~ sys_gps_date

LEMMA ExchangeOffer ==
  ASSUME ConnectOfferFresh, NEW cmd, NEW next, NEW eager, NEW reply, NEW ret,
         cmd # "CCLK", Exchange(cmd, next, eager, reply, ret), UNCHANGED gprs_date_avail
  PROVE  ConnectOfferFresh'
<1>1. gc_cmd = cmd /\ (gc_cmd' = cmd \/ gc_phase' = "CMD")
  BY DEF Exchange, SendConnect, AcceptConnect, KeepPolling, RetryConnect
<1> QED BY <1>1 DEF ConnectOfferFresh

LEMMA ConnectOffer ==
  ASSUME ConnectOfferFresh, NEW reply, NEW date, NEW ret, gprs_connect(reply, date, ret)
  PROVE  ConnectOfferFresh'
<1>1. CASE ConnectCPIN(reply, ret)
  BY <1>1, ExchangeOffer DEF ConnectCPIN
<1>2. CASE ConnectIMEI(reply, ret) \/ ConnectCFUN(reply, ret) \/ ConnectCREG(reply, ret)
  BY <1>2, ExchangeOffer DEF ConnectIMEI, ConnectCFUN, ConnectCREG
<1>3. CASE ConnectCSQ(reply, ret) \/ ConnectCGATT(reply, ret)
  BY <1>3, ExchangeOffer DEF ConnectCSQ, ConnectCGATT
<1>4. CASE ConnectCCLK(reply, date, ret)
  <2>1. CASE SendCCLK(ret)
    BY <2>1 DEF SendCCLK, ConnectOfferFresh
  <2>2. CASE AcceptCCLK(date, ret)
    BY <2>2 DEF AcceptCCLK, ConnectOfferFresh
  <2>3. CASE gc_phase = "RSP" /\ MissCCLK(reply, ret)
    BY <1>4, <2>3 DEF ConnectCCLK, MissCCLK, ConnectOfferFresh
  <2> QED BY <1>4, <2>1, <2>2, <2>3 DEF ConnectCCLK
<1> QED BY <1>1, <1>2, <1>3, <1>4 DEF gprs_connect

LEMMA StatusOffer ==
  ASSUME StatusOfferFresh, NEW reply, NEW date, NEW ret, gprs_connect_status(reply, date, ret)
  PROVE  StatusOfferFresh'
BY DEF StatusOfferFresh, gprs_connect_status, SendStatus, AwaitStatus, AcceptStatus, RetryStatus

\* The other sequence is at rest while one of them awaits a date.
LEMMA HttpOffer ==
  ASSUME RestartFromScratch, ConnectOfferFresh, StatusOfferFresh,
         NEW reply, NEW date, NEW dt, NEW ret, http_handler(reply, date, dt, ret)
  PROVE  ConnectOfferFresh' /\ StatusOfferFresh'
<1> USE DEF connectVars, statusVars, gprsBits
<1>1. CASE HttpIdle(ret) \/ HttpAtInit(reply, ret) \/ HttpSessionIdle(dt, ret)
  BY <1>1 DEF HttpIdle, HttpAtInit, HttpSessionIdle, ConnectOfferFresh, StatusOfferFresh
<1>2. CASE HttpConnect(reply, date, ret)
  BY <1>2, ConnectOffer DEF HttpConnect, RestartFromScratch, StatusOfferFresh
<1>3. CASE HttpConnSts(reply, date, ret)
  BY <1>3, StatusOffer DEF HttpConnSts, RestartFromScratch, ConnectOfferFresh
<1> QED BY <1>1, <1>2, <1>3 DEF http_handler

\* A handler step away from LOCATION leaves the dates alone, and does not poll there.
LEMMA ElsewhereOffer ==
  ASSUME GpsOfferGood, gps_cmd # "LOCATION", UNCHANGED gpsDate,
         gps_phase' = "CMD" \/ gps_cmd' = gps_cmd
  PROVE  GpsOfferGood'
BY DEF GpsOfferGood, Polls, gpsDate

LEMMA LocationOffer ==
  ASSUME GpsOfferGood, sys_gps_date \in BOOLEAN,
         NEW reply, NEW parsed \in BOOLEAN, NEW date, NEW ret, GpsLocation(reply, parsed, date, ret)
  PROVE  GpsOfferGood'
<1>1. CASE SendLocation(ret)
  BY <1>1 DEF SendLocation, GpsOfferGood
<1>2. CASE Polls("LOCATION") /\ AcceptLocation(parsed, date, ret)
  <2>1. gps_phase' = "CMD" /\ ~ gps_date_avail
    BY <1>2 DEF AcceptLocation, AcceptGps, Goto, GpsOfferGood
  <2>2. gps_date_avail' => parsed /\ date = "valid"
    BY <1>2, <2>1 DEF AcceptLocation, UpdateGpsDate
  <2>3. parsed /\ date = "valid" => ~ sys_gps_date'
    BY <1>2 DEF AcceptLocation, UpdateGpsDate
  <2> QED BY <2>1, <2>2, <2>3 DEF GpsOfferGood, Polls
<1>3. CASE Polls("LOCATION") /\ MissLocation(reply, ret)
  BY <1>3 DEF MissLocation, GpsOfferGood
<1> QED BY <1>1, <1>2, <1>3 DEF GpsLocation

LEMMA GpsOffer ==
  ASSUME GpsOfferGood, sys_gps_date \in BOOLEAN,
         NEW reply, NEW parsed \in BOOLEAN, NEW date, NEW ret, gps_handler(reply, parsed, date, ret)
  PROVE  GpsOfferGood'
<1> USE DEF SendGps, Polls, AcceptGps, KeepPollingGps, RetryGps, Goto
<1>1. CASE GpsIdle(ret)
  BY <1>1, ElsewhereOffer DEF GpsIdle
<1>2. CASE GpsAtInit(reply, ret)
  <2>1. gps_phase' = "CMD" \/ gps_cmd' = gps_cmd
    BY <1>2 DEF GpsAtInit
  <2> QED BY <1>2, <2>1, ElsewhereOffer DEF GpsAtInit
<1>3. CASE GpsQueryEnable(reply, ret) \/ GpsEnable(reply, ret)
  BY <1>3, ElsewhereOffer DEF GpsQueryEnable, GpsEnable, Enabling
<1>4. CASE GpsCBC(reply, ret)
  BY <1>4, ElsewhereOffer DEF GpsCBC
<1>5. CASE GpsLocation(reply, parsed, date, ret)
  BY <1>5, LocationOffer
<1>6. CASE GpsGPGGAStart(reply, parsed, ret)
  BY <1>6, ElsewhereOffer DEF GpsGPGGAStart, SendStart, AcceptStart
<1>7. CASE GpsGPGGAStop(reply, ret)
  <2>1. gps_phase' = "CMD" \/ gps_cmd' = gps_cmd
    BY <1>7 DEF GpsGPGGAStop, AcceptStop
  <2>2. gps_cmd = "GPGGA_STOP" /\ UNCHANGED gpsDate
    BY <1>7 DEF GpsGPGGAStop
  <2> QED BY <2>1, <2>2, ElsewhereOffer
<1> QED BY <1>1, <1>2, <1>3, <1>4, <1>5, <1>6, <1>7 DEF gps_handler

-----------------------------------------------------------------------------
LEMMA DateInvMeans ==
  /\ DateInv <=> /\ ConnectOfferFresh /\ StatusOfferFresh /\ GpsOfferGood
                 /\ conn_state = "BEGIN" => ~ gps_date_avail
  /\ DateInv' <=> /\ ConnectOfferFresh' /\ StatusOfferFresh' /\ GpsOfferGood'
                  /\ conn_state' = "BEGIN" => ~ gps_date_avail'
BY DEF DateInv, DateNotStale, GpsDateAgrees, ConnectOfferFresh, StatusOfferFresh, GpsOfferGood, Polls

LEMMA BeginDates ==
  ASSUME IInv, DateInv, NEW reply, ConnectBegin(reply)
  PROVE  DateInv'
<1>1. /\ UNCHANGED <<gc_cmd, gc_phase, gs_phase, gprs_date_avail, gps_date_avail>>
      /\ ~ gps_date_avail
  BY DateInvMeans DEF ConnectBegin, connectVars, statusVars
<1> QED BY <1>1, DateInvMeans DEF ConnectOfferFresh, StatusOfferFresh, GpsOfferGood

LEMMA LocationDates ==
  ASSUME IInv, DateInv, NEW reply, NEW parsed \in BOOLEAN, NEW date, NEW dt,
         ConnectLocation(reply, parsed, date, dt)
  PROVE  DateInv'
<1>1. PICK ret \in GpsStatus : gps_handler(reply, parsed, date, ret)
  BY DEF ConnectLocation
<1>2. GpsOfferGood'
  BY <1>1, GpsOffer, DateInvMeans DEF IInv, PartsOK, DatesOK
<1>3. UNCHANGED <<gc_cmd, gc_phase, gs_phase, gprs_date_avail>>
  BY DEF ConnectLocation, connectVars, statusVars
<1>4. conn_state' # "BEGIN"
  BY DEF ConnectLocation, HandTo, StayIn
<1> QED BY <1>2, <1>3, <1>4, DateInvMeans DEF ConnectOfferFresh, StatusOfferFresh

LEMMA UploadDates ==
  ASSUME IInv, DateInv, NEW reply, NEW date, NEW dt, ConnectUpload(reply, date, dt)
  PROVE  DateInv'
<1>1. PICK ret \in ConStatus : http_handler(reply, date, dt, ret)
  BY DEF ConnectUpload
<1>2. ConnectOfferFresh' /\ StatusOfferFresh'
  BY <1>1, HttpOffer, DateInvMeans DEF IInv
<1>3. UNCHANGED <<gps_cmd, gps_phase, sys_gps_date, gps_date_avail>>
  BY DEF ConnectUpload, gpsVars, gpsLink, gpsDate
<1>4. conn_state' # "BEGIN"
  BY DEF ConnectUpload, HandTo, StayIn
<1> QED BY <1>2, <1>3, <1>4, DateInvMeans DEF GpsOfferGood, Polls

LEMMA TakenDates ==
  ASSUME DateInv, TakeDate \/ UNCHANGED vars
  PROVE  DateInv'
<1>1. /\ UNCHANGED <<gc_cmd, gc_phase, gs_phase, gps_cmd, gps_phase, sys_gps_date, conn_state>>
      /\ gprs_date_avail' => gprs_date_avail
      /\ gps_date_avail' => gps_date_avail
  BY DEF TakeDate, vars, gprsVars, gpsVars, connectVars, statusVars, gpsLink, gpsDate
<1> QED BY <1>1, DateInvMeans DEF ConnectOfferFresh, StatusOfferFresh, GpsOfferGood, Polls

LEMMA DateStep ==
  ASSUME IInv, DateInv, [Next]_vars
  PROVE  DateInv'
<1>1. ASSUME NEW reply \in Reply, NEW parsed \in BOOLEAN, NEW date \in Dates, NEW dt \in Periods,
             Tick(reply, parsed, date, dt)
      PROVE  DateInv'
  BY <1>1, BeginDates, LocationDates, UploadDates DEF Tick
<1> QED BY <1>1, TakenDates DEF Next, manage_gps_gprs

LEMMA DateInductive == Spec => []DateInv
<1>1. Init => DateInv
  BY DEF Init, GprsInit, GpsInit, DateInv, DateNotStale, GpsDateAgrees, Polls
<1>2. IInv /\ DateInv /\ [Next]_vars => DateInv'
  BY DateStep
<1> QED BY <1>1, <1>2, Inductive, PTL DEF Spec

\* A date on offer came with the last exchange: both sequences that ask for CCLK, and
\* LOCATION, withdraw the offer before they ask, and no other step of the other side
\* makes one meanwhile.
THEOREM DatesFresh == Spec => []DateNotStale
<1>1. DateInv => DateNotStale
  BY DEF DateInv
<1> QED BY <1>1, DateInductive, PTL

\* The status bit of a GPS date on offer says that the date is good.
THEOREM GpsDatesGood == Spec => []GpsDateAgrees
<1>1. DateInv => GpsDateAgrees
  BY DEF DateInv
<1> QED BY <1>1, DateInductive, PTL

-----------------------------------------------------------------------------
(***************************************************************************)
(* Position                                                                *)
(***************************************************************************)
RowTypeOK ==
  /\ records \in 0..MaxRecords
  /\ gns \in [GnsField -> 0..records]
  /\ gga \in [GgaField -> 0..records]
  /\ row \in [RowValue -> SUBSET (0..records)]

\* A record that counts as good is there, and so is a date that counts as offered: it was
\* withdrawn when the next record was asked for.
GoodIsThere ==
  /\ gnss_sts => Whole(gns) /\ gns["latitude"] > 0
  /\ gga_sts => Whole(gga) /\ gga["MSL_altitude"] > 0
  /\ gps_date_avail => Whole(gns)

\* The bit that says so is lowered only when both records are good, and raised again before
\* another record is read.
PassedIsThere ==
  ~ sys_gps_pass =>
    /\ Whole(gns) /\ gns["latitude"] > 0
    /\ Whole(gga) /\ gga["MSL_altitude"] > 0

\* Fields are never taken back.
RowBehind == gns["longitude"] = 0 => row["Longitude"] = {0}

HandlerOK ==
  LinkOK /\ RecordsOK /\ DatesOK /\ AtInv /\ sys_gps_pass \in BOOLEAN /\ GpsOfferGood

PosSafe ==
  HandlerOK /\ RowTypeOK /\ TornInOrder /\ GoodIsThere /\ PassedIsThere /\ RowBehind

\* What one call of gps_handler tells of the record it parses, if any.
ReadsRecord(reply) == Accepted(reply) /\ (Polls("LOCATION") \/ Polls("GPGGA_START"))

LEMMA HandlerReads ==
  ASSUME RecordsOK, DatesOK,
         NEW reply, NEW parsed \in BOOLEAN, NEW date, NEW ret, gps_handler(reply, parsed, date, ret)
  PROVE  /\ Polls("LOCATION") /\ Accepted(reply) =>
              /\ gnss_sts' = parsed /\ gga_sts' = gga_sts /\ ret = "GPS_IN_PRG"
              /\ gps_date_avail' => gps_date_avail \/ parsed
         /\ Polls("GPGGA_START") /\ Accepted(reply) =>
              /\ gga_sts' = parsed /\ gnss_sts' = gnss_sts /\ ret = "GPS_IN_PRG"
              /\ gps_date_avail' = gps_date_avail
         /\ ~ ReadsRecord(reply) =>
              /\ gnss_sts' => gnss_sts
              /\ gga_sts' => gga_sts
              /\ gps_date_avail' => gps_date_avail
              /\ ret = "GPS_PASS" => gga_sts /\ gnss_sts
<1> USE DEF ReadsRecord, Polls, gpsRecords, gpsDate
<1>1. CASE GpsIdle(ret)
  BY <1>1 DEF GpsIdle
<1>2. CASE GpsAtInit(reply, ret)
  BY <1>2 DEF GpsAtInit
<1>3. CASE GpsQueryEnable(reply, ret) \/ GpsEnable(reply, ret)
  <2>1. PICK cmd \in {"QUERY_ENABLE", "ENABLE"}, other \in GpsCommand :
          Enabling(cmd, other, reply, ret)
    BY <1>3 DEF GpsQueryEnable, GpsEnable, GpsCommand
  <2>2. UNCHANGED <<gga_sts, gnss_sts, sys_gps_date, gps_date_avail>> /\ gps_cmd = cmd
    BY <2>1 DEF Enabling, SendGps
  <2>3. ret # "GPS_PASS"
    BY <2>1 DEF Enabling, SendGps, KeepPollingGps, RetryGps
  <2> QED BY <2>2, <2>3
<1>4. CASE GpsCBC(reply, ret)
  <2>1. UNCHANGED <<gga_sts, gnss_sts, sys_gps_date, gps_date_avail>> /\ gps_cmd = "CBC"
    BY <1>4 DEF GpsCBC, SendGps
  <2>2. ret # "GPS_PASS"
    BY <1>4 DEF GpsCBC, SendGps, KeepPollingGps, RetryGps
  <2> QED BY <2>1, <2>2
<1>5. CASE GpsLocation(reply, parsed, date, ret)
  <2>1. gga_sts' = gga_sts /\ gps_cmd = "LOCATION"
    BY <1>5 DEF GpsLocation, SendLocation, SendGps
  <2>2. CASE SendLocation(ret)
    BY <2>1, <2>2 DEF SendLocation, SendGps
  <2>3. CASE Polls("LOCATION") /\ Accepted(reply) /\ AcceptLocation(parsed, date, ret)
    BY <2>1, <2>3 DEF AcceptLocation, UpdateGpsDate
  <2>4. CASE Polls("LOCATION") /\ MissLocation(reply, ret)
    <3>1. ~ Accepted(reply) /\ ret # "GPS_PASS" /\ UNCHANGED <<gnss_sts, gps_date_avail>>
      BY <2>4 DEF MissLocation, KeepPollingGps, RetryGps, Waiting, AttemptFailed, Accepted
    <3> QED BY <2>1, <3>1
  <2> QED BY <1>5, <2>2, <2>3, <2>4 DEF GpsLocation
<1>6. CASE GpsGPGGAStart(reply, parsed, ret)
  <2>1. UNCHANGED <<sys_gps_date, gps_date_avail>> /\ gps_cmd = "GPGGA_START"
    BY <1>6 DEF GpsGPGGAStart, SendStart, SendGps
  <2>2. CASE SendStart(ret)
    BY <2>1, <2>2 DEF SendStart, SendGps
  <2>3. CASE Polls("GPGGA_START") /\ Accepted(reply) /\ AcceptStart(parsed, ret)
    BY <2>1, <2>3 DEF AcceptStart
  <2>4. CASE /\ Polls("GPGGA_START")
             /\ KeepPollingGps(reply, RspTimeout, ret) \/ RetryGps(reply, RspTimeout, TRUE, ret)
             /\ UNCHANGED <<NMEA_enabled, gpsRecords>>
    <3>1. ~ Accepted(reply) /\ ret # "GPS_PASS" /\ UNCHANGED <<gnss_sts, gga_sts>>
      BY <2>4 DEF KeepPollingGps, RetryGps, Waiting, AttemptFailed, Accepted
    <3> QED BY <2>1, <3>1
  <2> QED BY <1>6, <2>2, <2>3, <2>4 DEF GpsGPGGAStart
<1>7. CASE GpsGPGGAStop(reply, ret)
  <2>1. UNCHANGED <<sys_gps_date, gps_date_avail>> /\ gps_cmd = "GPGGA_STOP"
    BY <1>7 DEF GpsGPGGAStop, SendGps
  <2>2. CASE AcceptStop(ret)
    BY <2>1, <2>2 DEF AcceptStop
  <2>3. CASE UNCHANGED <<NMEA_enabled, gpsRecords>> /\ ret # "GPS_PASS"
    BY <2>1, <2>3
  <2> QED BY <1>7, <2>2, <2>3 DEF GpsGPGGAStop, SendGps, KeepPollingGps, RetryGps
<1> QED BY <1>1, <1>2, <1>3, <1>4, <1>5, <1>6, <1>7 DEF gps_handler

-----------------------------------------------------------------------------
\* The fields in their order.
LEMMA FieldOrder ==
  /\ GnsField = {"latitude", "N_S", "longitude", "E_W", "date", "utc_time", "MSL_altitude",
                 "sog", "pdop"}
  /\ GgaField = {"quantity_of_gps", "MSL_altitude", "Geoid_separation"}
  /\ GnsOrder \in [GnsField -> 1..GnsFields]
  /\ GgaOrder \in [GgaField -> 1..GgaFields]
  /\ GnsOrder["latitude"] = 1 /\ GnsOrder["N_S"] = 2
  /\ GnsOrder["longitude"] = 3 /\ GnsOrder["E_W"] = 4
BY DEF GnsField, GgaField, GnsOrder, GgaOrder, GnsFields, GgaFields

\* A new record over an old one: what it does to the type, the order and the age of the
\* fields, and that a whole one leaves nothing of the old.
LEMMA OverlayWorks ==
  ASSUME records \in Nat, records' = records + 1, NEW fields, NEW order,
         NEW last \in Nat, order \in [fields -> 1..last],
         NEW info \in [fields -> 0..records], NEW good \in Nat,
         \A f, g \in fields : order[f] <= order[g] => info[f] >= info[g]
  PROVE  /\ Overlay(info, order, good) \in [fields -> 0..records']
         /\ \A f, g \in fields :
              order[f] <= order[g] => Overlay(info, order, good)[f] >= Overlay(info, order, good)[g]
         /\ \A f \in fields : Overlay(info, order, good)[f] >= info[f]
         /\ good = last => \A f \in fields : Overlay(info, order, good)[f] = records'
<1> DEFINE new == Overlay(info, order, good)
<1>1. DOMAIN order = fields /\ DOMAIN info = fields
  OBVIOUS
<1>2. new = [f \in fields |-> IF order[f] <= good THEN records' ELSE info[f]]
  BY <1>1 DEF Overlay
<1>3. \A f \in fields : new[f] = IF order[f] <= good THEN records' ELSE info[f]
  BY <1>2
<1>4. \A f \in fields : info[f] \in 0..records /\ order[f] \in 1..last
  OBVIOUS
<1> HIDE DEF new
<1>5. new \in [fields -> 0..records']
  BY <1>2, <1>4
<1>6. ASSUME NEW f \in fields, NEW g \in fields, order[f] <= order[g]
      PROVE  new[f] >= new[g]
  <2>1. info[f] >= info[g]
    BY <1>6
  <2> QED BY <1>3, <1>4, <1>6, <2>1
<1>7. \A f \in fields : new[f] >= info[f]
  BY <1>3, <1>4
<1>8. good = last => \A f \in fields : new[f] = records'
  BY <1>3, <1>4
<1> QED BY <1>5, <1>6, <1>7, <1>8 DEF new

LEMMA GnsParsed ==
  ASSUME PosSafe, NEW good \in Nat, records < MaxRecords, records' = records + 1,
         gnss_pkt_parsing(good), UNCHANGED row
  PROVE  /\ RowTypeOK' /\ TornInOrder' /\ RowBehind'
         /\ good = GnsFields => Whole(gns)' /\ gns'["latitude"] > 0
<1> USE DEF PosSafe
<1>1. /\ records \in Nat /\ MaxRecords \in Nat
      /\ gns \in [GnsField -> 0..records] /\ gga \in [GgaField -> 0..records]
      /\ row \in [RowValue -> SUBSET (0..records)]
  BY RecordsAssumption DEF RowTypeOK
<1>2. /\ GnsOrder \in [GnsField -> 1..GnsFields] /\ GnsFields \in Nat
      /\ \A f, g \in GnsField : GnsOrder[f] <= GnsOrder[g] => gns[f] >= gns[g]
  BY FieldOrder DEF GnsFields, TornInOrder
<1>3. /\ gns' \in [GnsField -> 0..records']
      /\ \A f, g \in GnsField : GnsOrder[f] <= GnsOrder[g] => gns'[f] >= gns'[g]
      /\ \A f \in GnsField : gns'[f] >= gns[f]
      /\ good = GnsFields => \A f \in GnsField : gns'[f] = records'
  BY <1>1, <1>2, OverlayWorks DEF gnss_pkt_parsing
<1>4. gga' = gga /\ records' \in 0..MaxRecords /\ 0..records \subseteq 0..records'
  BY <1>1 DEF gnss_pkt_parsing
<1>5. RowTypeOK'
  BY <1>1, <1>3, <1>4 DEF RowTypeOK
<1>6. TornInOrder'
  BY <1>3, <1>4 DEF TornInOrder
<1>7. "longitude" \in GnsField /\ "latitude" \in GnsField
  BY FieldOrder
<1>8. RowBehind'
  BY <1>1, <1>3, <1>7 DEF RowBehind
<1>9. good = GnsFields => Whole(gns)' /\ gns'["latitude"] > 0
  BY <1>1, <1>3, <1>7 DEF Whole
<1> QED BY <1>5, <1>6, <1>8, <1>9

LEMMA GgaParsed ==
  ASSUME PosSafe, NEW good \in Nat, records < MaxRecords, records' = records + 1,
         gga_pkt_parsing(good), UNCHANGED row
  PROVE  /\ RowTypeOK' /\ TornInOrder' /\ RowBehind'
         /\ good = GgaFields => Whole(gga)' /\ gga'["MSL_altitude"] > 0
<1> USE DEF PosSafe
<1>1. /\ records \in Nat /\ MaxRecords \in Nat
      /\ gns \in [GnsField -> 0..records] /\ gga \in [GgaField -> 0..records]
      /\ row \in [RowValue -> SUBSET (0..records)]
  BY RecordsAssumption DEF RowTypeOK
<1>2. /\ GgaOrder \in [GgaField -> 1..GgaFields] /\ GgaFields \in Nat
      /\ \A f, g \in GgaField : GgaOrder[f] <= GgaOrder[g] => gga[f] >= gga[g]
  BY FieldOrder DEF GgaFields, TornInOrder
<1>3. /\ gga' \in [GgaField -> 0..records']
      /\ \A f, g \in GgaField : GgaOrder[f] <= GgaOrder[g] => gga'[f] >= gga'[g]
      /\ good = GgaFields => \A f \in GgaField : gga'[f] = records'
  BY <1>1, <1>2, OverlayWorks DEF gga_pkt_parsing
<1>4. gns' = gns /\ records' \in 0..MaxRecords /\ 0..records \subseteq 0..records'
  BY <1>1 DEF gga_pkt_parsing
<1>5. RowTypeOK'
  BY <1>1, <1>3, <1>4 DEF RowTypeOK
<1>6. TornInOrder'
  BY <1>3, <1>4 DEF TornInOrder
<1>7. RowBehind'
  BY <1>4 DEF RowBehind
<1>8. good = GgaFields => Whole(gga)' /\ gga'["MSL_altitude"] > 0
  BY <1>1, <1>3, FieldOrder DEF Whole
<1> QED BY <1>5, <1>6, <1>7, <1>8

\* A record counts as good only if it was read to its end; it counts no more, or is still
\* there, when the next one is read.
LEMMA LocationCallStep ==
  ASSUME PosSafe, NEW reply \in Reply, NEW good \in 0..GnsFields, NEW date \in DateKind,
         LocationCall(reply, good, date)
  PROVE  PosSafe'
<1> USE DEF PosSafe
<1>1. PICK ret \in GpsStatus :
        /\ Parse(reply, good)
        /\ gps_handler(reply, Parsed(good), date, ret)
        /\ sys_gps_pass' = PassedBit(ret)
        /\ UNCHANGED row
  BY DEF LocationCall
<1>2. Parsed(good) \in BOOLEAN /\ good \in Nat
  BY DEF Parsed, GnsFields
<1>3. HandlerOK'
  <2>1. LinkOK' /\ RecordsOK' /\ DatesOK' /\ AtInv'
    BY <1>1, <1>2, GpsStep DEF HandlerOK, GpsMoves
  <2>2. GpsOfferGood'
    BY <1>1, <1>2, GpsOffer DEF HandlerOK, DatesOK
  <2>3. sys_gps_pass' \in BOOLEAN
    <3>1. GpsPassBit(ret) \in BOOLEAN
      BY DEF GpsPassBit, HandlerOK
    <3> QED BY <1>1, <3>1 DEF PassedBit
  <2> QED BY <2>1, <2>2, <2>3 DEF HandlerOK
<1>4. /\ Polls("LOCATION") /\ Accepted(reply) =>
           /\ gnss_sts' = Parsed(good) /\ gga_sts' = gga_sts /\ ret = "GPS_IN_PRG"
           /\ gps_date_avail' => gps_date_avail \/ Parsed(good)
      /\ Polls("GPGGA_START") /\ Accepted(reply) =>
           /\ gga_sts' = Parsed(good) /\ gnss_sts' = gnss_sts /\ ret = "GPS_IN_PRG"
           /\ gps_date_avail' = gps_date_avail
      /\ ~ ReadsRecord(reply) =>
           /\ gnss_sts' => gnss_sts
           /\ gga_sts' => gga_sts
           /\ gps_date_avail' => gps_date_avail
           /\ ret = "GPS_PASS" => gga_sts /\ gnss_sts
  BY <1>1, <1>2, HandlerReads DEF HandlerOK
<1>5. CASE Polls("LOCATION") /\ Accepted(reply)
  <2>1. /\ records < MaxRecords /\ records' = records + 1
        /\ gnss_pkt_parsing(good) /\ gga' = gga
    BY <1>1, <1>5 DEF Parse, gnss_pkt_parsing, Polls
  <2>2. Parsed(good) <=> good = GnsFields
    BY <1>5 DEF Parsed, Polls
  <2>3. /\ RowTypeOK' /\ TornInOrder' /\ RowBehind'
        /\ Parsed(good) => Whole(gns)' /\ gns'["latitude"] > 0
    BY <1>1, <1>2, <2>1, <2>2, GnsParsed
  <2>4. sys_gps_pass' = TRUE
    BY <1>1, <1>4, <1>5 DEF PassedBit
  <2>5. ~ gps_date_avail
    BY <1>5 DEF HandlerOK, GpsOfferGood
  <2>6. GoodIsThere'
    BY <1>4, <1>5, <2>1, <2>3, <2>5 DEF GoodIsThere, Whole
  <2> QED BY <1>3, <2>3, <2>4, <2>6 DEF PassedIsThere
<1>6. CASE Polls("GPGGA_START") /\ Accepted(reply)
  <2>1. /\ records < MaxRecords /\ records' = records + 1
        /\ gga_pkt_parsing(good) /\ gns' = gns
    BY <1>1, <1>6 DEF Parse, gga_pkt_parsing, Polls
  <2>2. Parsed(good) <=> good = GgaFields
    BY <1>6 DEF Parsed, Polls
  <2>3. /\ RowTypeOK' /\ TornInOrder' /\ RowBehind'
        /\ Parsed(good) => Whole(gga)' /\ gga'["MSL_altitude"] > 0
    BY <1>1, <1>2, <2>1, <2>2, GgaParsed
  <2>4. sys_gps_pass' = TRUE
    BY <1>1, <1>4, <1>6 DEF PassedBit
  <2>5. GoodIsThere'
    BY <1>4, <1>6, <2>1, <2>3 DEF GoodIsThere, Whole
  <2> QED BY <1>3, <2>3, <2>4, <2>5 DEF PassedIsThere
<1>7. CASE ~ ReadsRecord(reply)
  <2>1. UNCHANGED <<records, gns, gga, row>>
    BY <1>1, <1>7 DEF Parse, ReadsRecord
  <2>2. RowTypeOK' /\ TornInOrder' /\ RowBehind'
    BY <2>1 DEF RowTypeOK, TornInOrder, RowBehind
  <2>3. GoodIsThere'
    BY <1>4, <1>7, <2>1 DEF GoodIsThere, Whole
  <2>4. ~ sys_gps_pass' => ret = "GPS_PASS" \/ ~ sys_gps_pass
    BY <1>1 DEF PassedBit, GpsPassBit
  <2>5. PassedIsThere'
    BY <1>4, <1>7, <2>1, <2>4 DEF GoodIsThere, PassedIsThere, Whole
  <2> QED BY <1>3, <2>2, <2>3, <2>5
<1> QED BY <1>5, <1>6, <1>7 DEF ReadsRecord

-----------------------------------------------------------------------------
LEMMA RowCopied ==
  ASSUME PosSafe, get_location
  PROVE  /\ row' \in [RowValue -> SUBSET (0..records)]
         /\ row'["Latitude"] = IF gns["latitude"] # 0 THEN {gns["latitude"], gns["N_S"]}
                               ELSE row["Latitude"]
         /\ row'["Longitude"] = IF gns["longitude"] # 0 THEN {gns["longitude"], gns["E_W"]}
                                ELSE row["Longitude"]
         /\ gns["sog"] # 0 =>
              row'["speed"] = IF gns["sog"] \in NoSpeedRecords THEN row["speed"] ELSE {gns["sog"]}
         /\ gns["pdop"] # 0 =>
              row'["PDOP"] = IF gns["pdop"] \in NoPdopRecords THEN row["PDOP"] ELSE {gns["pdop"]}
         /\ gga["MSL_altitude"] # 0 => row'["msl_altitude"] = {gga["MSL_altitude"]}
         /\ gga["Geoid_separation"] # 0 => row'["geoid_separation"] = {gga["Geoid_separation"]}
<1>1. /\ gns \in [GnsField -> 0..records] /\ gga \in [GgaField -> 0..records]
      /\ row \in [RowValue -> SUBSET (0..records)]
  BY DEF PosSafe, RowTypeOK
<1>2. RowValue = {"Latitude", "Longitude", "speed", "PDOP", "quantity_of_gps", "msl_altitude",
                  "geoid_separation", "ellipsoid_altitude"}
  BY DEF RowValue, GnsValue, GgaValue
<1>3. Copied \in [RowValue -> SUBSET (0..records)]
  <2>1. /\ \A f \in GnsField : gns[f] \in 0..records
        /\ \A f \in GgaField : gga[f] \in 0..records
        /\ \A v \in RowValue : row[v] \in SUBSET (0..records)
    BY <1>1
  <2> QED BY <2>1, FieldOrder DEF Copied
<1>4. Ellipsoid \in SUBSET (0..records)
  BY <1>1, <1>2, <1>3 DEF Ellipsoid
<1>5. row' = [Copied EXCEPT !["ellipsoid_altitude"] = Ellipsoid]
  BY DEF get_location
<1>6. row' \in [RowValue -> SUBSET (0..records)]
  BY <1>3, <1>4, <1>5
<1>7. \A v \in RowValue : v # "ellipsoid_altitude" => row'[v] = Copied[v]
  BY <1>3, <1>5
<1>8. /\ Copied["Latitude"] = IF gns["latitude"] # 0 THEN {gns["latitude"], gns["N_S"]}
                              ELSE row["Latitude"]
      /\ Copied["Longitude"] = IF gns["longitude"] # 0 THEN {gns["longitude"], gns["E_W"]}
                               ELSE row["Longitude"]
  BY <1>2 DEF Copied
<1>9. /\ gns["sog"] # 0 =>
           Copied["speed"] = IF gns["sog"] \in NoSpeedRecords THEN row["speed"] ELSE {gns["sog"]}
      /\ gns["pdop"] # 0 =>
           Copied["PDOP"] = IF gns["pdop"] \in NoPdopRecords THEN row["PDOP"] ELSE {gns["pdop"]}
      /\ gga["MSL_altitude"] # 0 => Copied["msl_altitude"] = {gga["MSL_altitude"]}
      /\ gga["Geoid_separation"] # 0 => Copied["geoid_separation"] = {gga["Geoid_separation"]}
  BY <1>2 DEF Copied
<1> QED BY <1>2, <1>6, <1>7, <1>8, <1>9

\* A row is copied from fields that are no older the earlier they are read.
LEMMA GetLocationStep ==
  ASSUME PosSafe, get_location
  PROVE  PosSafe'
<1> USE DEF PosSafe
<1>1. /\ UNCHANGED <<gps_cmd, gps_phase, gps_retry, gps_timeout, NMEA_enabled, gga_sts, gnss_sts>>
      /\ UNCHANGED <<sys_gps_pass, sys_gps_date, gps_date_avail, atVars, records, gns, gga>>
  BY DEF get_location, gpsVars, gpsLink, gpsRecords, gpsDate
<1>2. HandlerOK'
  BY <1>1 DEF HandlerOK, LinkOK, RecordsOK, DatesOK, AtInv, AtTypeOK, atVars, GpsOfferGood, Polls
<1>3. GoodIsThere' /\ PassedIsThere'
  BY <1>1 DEF GoodIsThere, PassedIsThere, Whole
<1>4. RowTypeOK'
  BY <1>1, RowCopied DEF RowTypeOK
<1>5. /\ gns["latitude"] \in Nat /\ gns["N_S"] \in Nat
      /\ gns["longitude"] \in Nat /\ gns["E_W"] \in Nat
      /\ gns["latitude"] >= gns["N_S"] /\ gns["N_S"] >= gns["longitude"]
      /\ gns["longitude"] >= gns["E_W"]
  BY FieldOrder DEF RowTypeOK, TornInOrder
<1>6. RowBehind'
  BY <1>1, RowCopied DEF RowBehind
<1>7. ASSUME NEW r \in row'["Latitude"], NEW s \in row'["Longitude"]
      PROVE  r >= s
  <2>1. r \in Nat
    BY RowCopied DEF RowValue, GnsValue
  <2>2. CASE gns["longitude"] # 0
    <3>1. r \in {gns["latitude"], gns["N_S"]} /\ s \in {gns["longitude"], gns["E_W"]}
      BY <1>5, <2>2, RowCopied
    <3> QED BY <1>5, <3>1
  <2>3. CASE gns["longitude"] = 0
    BY <2>1, <2>3, RowCopied DEF RowBehind
  <2> QED BY <2>2, <2>3
<1>8. TornInOrder'
  BY <1>1, <1>7 DEF TornInOrder
<1> QED BY <1>2, <1>3, <1>4, <1>6, <1>8

LEMMA PosStep ==
  ASSUME PosSafe, [PosNext]_posVars
  PROVE  PosSafe'
<1>1. CASE UNCHANGED posVars
  <2>1. /\ UNCHANGED <<gps_cmd, gps_phase, gps_retry, gps_timeout, NMEA_enabled, gga_sts, gnss_sts>>
        /\ UNCHANGED <<sys_gps_pass, sys_gps_date, gps_date_avail, atVars, records, gns, gga, row>>
    BY <1>1 DEF posVars, rowVars, gpsVars, gpsLink, gpsRecords, gpsDate
  <2>2. HandlerOK'
    BY <2>1 DEF PosSafe, HandlerOK, LinkOK, RecordsOK, DatesOK, AtInv, AtTypeOK, atVars,
                GpsOfferGood, Polls
  <2>3. GoodIsThere' /\ PassedIsThere' /\ RowTypeOK' /\ TornInOrder' /\ RowBehind'
    BY <2>1 DEF PosSafe, GoodIsThere, PassedIsThere, Whole, RowTypeOK, TornInOrder, RowBehind
  <2> QED BY <2>2, <2>3 DEF PosSafe
<1> QED BY <1>1, LocationCallStep, GetLocationStep DEF PosNext

LEMMA InitPosition ==
  ASSUME PosInit
  PROVE  PosSafe
<1> USE DEF PosInit
<1>1. HandlerOK
  <2>1. AtInv
    BY RetryCntAssumption, AtTimeoutAssumption
       DEF AtInit, AtInv, AtTypeOK, AtCommand, ConStatus, Phase
  <2>2. LinkOK
    BY RetryCntAssumption, CbcTimeoutAssumption DEF GpsInit, LinkOK, GpsState, Phase
  <2>3. RecordsOK /\ DatesOK /\ sys_gps_pass \in BOOLEAN
    BY DEF GpsInit, RecordsOK, DatesOK
  <2>4. GpsOfferGood
    BY DEF GpsInit, GpsOfferGood
  <2> QED BY <2>1, <2>2, <2>3, <2>4 DEF HandlerOK
<1>2. RowTypeOK
  BY RecordsAssumption DEF RowTypeOK
<1>3. GoodIsThere /\ PassedIsThere
  BY DEF GpsInit, GoodIsThere, PassedIsThere
<1>4. "Latitude" \in RowValue /\ "Longitude" \in RowValue
  BY DEF RowValue, GnsValue
<1>5. TornInOrder /\ RowBehind
  BY <1>4 DEF TornInOrder, RowBehind
<1> QED BY <1>1, <1>2, <1>3, <1>5 DEF PosSafe

LEMMA PosInductive == PosSpec => []PosSafe
<1>1. PosSafe /\ [PosNext]_posVars => PosSafe'
  BY PosStep
<1> QED BY <1>1, InitPosition, PTL DEF PosSpec

\* Records that break off tear gps_info only in the order of its parsers, and never while it
\* counts as good or a date is on offer, for any number of records and any limits of the
\* handler's attempts and polls.
THEOREM TornOnlyInOrder == PosSpec => []PosInv
<1>1. ASSUME PosSafe PROVE PosInv
  <2>1. PosTypeOK
    BY <1>1 DEF PosSafe, HandlerOK, LinkOK, RecordsOK, DatesOK, AtInv, RowTypeOK, PosTypeOK, GpsTypeOK
  <2>2. GoodIsWhole
    BY <1>1 DEF PosSafe, GoodIsThere, GoodIsWhole
  <2> QED BY <1>1, <2>1, <2>2 DEF PosSafe, PosInv
<1> QED BY <1>1, PosInductive, PTL

\* A row that get_location logs while SYS_GPS_PASS says that there is a position is of one
\* GNSS record and of one GGA record, but for a speed or PDOP that does not begin with a digit
\* in that very record.
THEOREM PassedRowsWhole == PosSpec => PassedRowWhole
<1> DEFINE OneRecord ==
      /\ \E r \in 1..records : \A v \in GnsValue :
           row'[v] = IF v \in PassedOver(r) THEN row[v] ELSE {r}
      /\ \E r \in 1..records : \A v \in GgaValue \ {"quantity_of_gps"} : row'[v] = {r}
<1>1. ASSUME PosSafe, get_location, ~ sys_gps_pass
      PROVE  OneRecord
  <2>1. /\ Whole(gns) /\ gns["latitude"] \in 1..records
        /\ Whole(gga) /\ gga["MSL_altitude"] \in 1..records
    BY <1>1, FieldOrder DEF PosSafe, PassedIsThere, RowTypeOK
  <2>2. DOMAIN gns = GnsField /\ DOMAIN gga = GgaField
    BY <1>1 DEF PosSafe, RowTypeOK
  <2>3. /\ \A f \in GnsField : gns[f] = gns["latitude"]
        /\ \A f \in GgaField : gga[f] = gga["MSL_altitude"]
    BY <2>1, <2>2, FieldOrder DEF Whole
  <2>4. \A v \in GnsValue :
          row'[v] = IF v \in PassedOver(gns["latitude"]) THEN row[v] ELSE {gns["latitude"]}
    <3>1. /\ gns["N_S"] = gns["latitude"] /\ gns["longitude"] = gns["latitude"]
          /\ gns["E_W"] = gns["latitude"] /\ gns["sog"] = gns["latitude"]
          /\ gns["pdop"] = gns["latitude"] /\ gns["latitude"] # 0
      BY <2>1, <2>3, FieldOrder
    <3> QED BY <1>1, <3>1, RowCopied DEF GnsValue, PassedOver
  <2>5. \A v \in GgaValue \ {"quantity_of_gps"} : row'[v] = {gga["MSL_altitude"]}
    BY <1>1, <2>1, <2>3, RowCopied, FieldOrder DEF GgaValue
  <2> QED BY <2>1, <2>4, <2>5
<1> HIDE DEF OneRecord
<1>2. PosSafe /\ [PosNext]_posVars => [get_location /\ ~ sys_gps_pass => OneRecord]_posVars
  BY <1>1
<1>3. PosSpec => [][get_location /\ ~ sys_gps_pass => OneRecord]_posVars
  BY <1>2, PosInductive, PTL DEF PosSpec
<1> QED BY <1>3 DEF PassedRowWhole, OneRecord
-----------------------------------------------------------------------------
\* A set of natural numbers has a least one: what stands for induction here.
LessThan == {p \in Nat \X Nat : p[1] < p[2]}

LEMMA LeastNatural ==
  ASSUME NEW T, T \subseteq Nat, T # {}
  PROVE  \E x \in T : \A y \in T : x <= y
<1>1. IsWellFoundedOn(LessThan, Nat)
  BY NatLessThanWellFounded DEF OpToRel, LessThan
<1>2. PICK x \in T : \A y \in T : <<y, x>> \notin LessThan
  BY <1>1, WFMin
<1>3. ASSUME NEW y \in T
      PROVE  x <= y
  <2>1. x \in Nat /\ y \in Nat
    OBVIOUS
  <2>2. y < x => <<y, x>> \in LessThan
    BY <2>1 DEF LessThan
  <2> QED BY <1>2, <2>1, <2>2
<1> QED BY <1>3

-----------------------------------------------------------------------------
\* A year has a leap day if it is divisible by four: the other rules are for other centuries.
LEMMA LeapYears ==
  ASSUME NEW year \in 0..99
  PROVE  isLeapYear(year) <=> year % 4 = 0
BY DEF isLeapYear

LEMMA MonthsAgree ==
  ASSUME NEW month \in 1..12, NEW year \in 0..99
  PROVE  getDaysOfMonth(month, year) = MonthLength(month, year)
BY LeapYears DEF getDaysOfMonth, MonthLength

LEMMA MonthLengths ==
  ASSUME NEW month \in 1..12, NEW year \in 0..99
  PROVE  MonthLength(month, year) \in 28..31 /\ MonthLength(12, year) = 31
BY DEF MonthLength

\* The days before a month, and before a year from 0 on.
LeapDay(year) == IF year % 4 = 0 THEN 1 ELSE 0
BeforeMonth(month, year) ==
  <<0, 31, 59 + LeapDay(year), 90 + LeapDay(year), 120 + LeapDay(year), 151 + LeapDay(year),
    181 + LeapDay(year), 212 + LeapDay(year), 243 + LeapDay(year), 273 + LeapDay(year),
    304 + LeapDay(year), 334 + LeapDay(year)>>[month]
BeforeYear(year) == 365 * year + (year + 3) \div 4

LEMMA NextMonth ==
  ASSUME NEW month \in 1..11, NEW year \in 0..99
  PROVE  /\ BeforeMonth(month, year) \in Int
         /\ BeforeMonth(month + 1, year) = BeforeMonth(month, year) + MonthLength(month, year)
BY DEF BeforeMonth, MonthLength, LeapDay

LEMMA NextYear ==
  ASSUME NEW year \in 0..99
  PROVE  /\ BeforeYear(year) \in Nat
         /\ BeforeYear(year + 1) = BeforeYear(year) + 365 + LeapDay(year)
BY DEF BeforeYear, LeapDay

\* DaysToMonth: the function it defines exists, and has these values.
LEMMA MonthsCounted ==
  ASSUME NEW month \in 1..12, NEW year \in 0..99
  PROVE  DaysToMonth(month, year) = BeforeMonth(month, year)
<1> DEFINE Is(f) == f = [m \in 0..11 |-> IF m = 0 THEN 0 ELSE f[m - 1] + getDaysOfMonth(m, year)]
           table == [m \in 0..11 |-> BeforeMonth(m + 1, year)]
           before == CHOOSE f : Is(f)
<1>1. DaysToMonth(month, year) = before[month - 1]
  BY DEF DaysToMonth
<1>2. Is(table)
  <2>1. \A m \in 1..11 : table[m] = table[m - 1] + getDaysOfMonth(m, year)
    BY NextMonth, MonthsAgree
  <2>2. table[0] = 0
    BY DEF BeforeMonth
  <2>3. \A m \in 0..11 :
          table[m] = IF m = 0 THEN 0 ELSE table[m - 1] + getDaysOfMonth(m, year)
    BY <2>1, <2>2
  <2> QED BY <2>3
<1>3. Is(before)
  BY <1>2
<1> HIDE DEF before, table
<1>4. before[0] = 0 /\ \A m \in 1..11 : before[m] = before[m - 1] + MonthLength(m, year)
  BY <1>3, MonthsAgree
<1>5. BeforeMonth(1, year) = 0
  BY DEF BeforeMonth
<1>6. ASSUME NEW m \in 1..11, before[m - 1] = BeforeMonth(m, year)
      PROVE  before[m] = BeforeMonth(m + 1, year)
  BY <1>4, <1>6, NextMonth
<1>7. \A m \in 0..11 : before[m] = BeforeMonth(m + 1, year)
  <2> DEFINE Wrong == {m \in 0..11 : before[m] # BeforeMonth(m + 1, year)}
  <2>1. ASSUME Wrong # {}
        PROVE  FALSE
    <3>1. PICK m \in Wrong : \A n \in Wrong : m <= n
      BY <2>1, LeastNatural
    <3>2. m # 0
      BY <1>4, <1>5, <3>1
    <3>3. m - 1 \notin Wrong /\ m - 1 \in 0..11 /\ m \in 1..11
      BY <3>1, <3>2
    <3> QED BY <1>6, <3>1, <3>3
  <2> QED BY <2>1
<1> QED BY <1>1, <1>7

LEMMA YearsCounted ==
  ASSUME NEW year \in 0..99
  PROVE  DaysToYear(year) = IF year = 0 THEN 0 ELSE BeforeYear(year) - 366
<1> DEFINE Is(f) == f = [y \in 0..99 |-> IF y <= 1 THEN 0
                                         ELSE f[y - 1] + IF isLeapYear(y - 1) THEN 366 ELSE 365]
           Value(y) == IF y = 0 THEN 0 ELSE BeforeYear(y) - 366
           table == [y \in 0..99 |-> Value(y)]
           before == CHOOSE f : Is(f)
<1>1. DaysToYear(year) = before[year]
  BY DEF DaysToYear
<1>2. ASSUME NEW y \in 2..99
      PROVE  Value(y) = Value(y - 1) + IF isLeapYear(y - 1) THEN 366 ELSE 365
  <2>1. y - 1 \in 0..99 /\ (y - 1) + 1 = y
    OBVIOUS
  <2>2. BeforeYear(y) = BeforeYear(y - 1) + 365 + LeapDay(y - 1) /\ BeforeYear(y - 1) \in Nat
    BY <2>1, NextYear
  <2>3. isLeapYear(y - 1) <=> (y - 1) % 4 = 0
    BY <2>1, LeapYears
  <2> QED BY <2>1, <2>2, <2>3 DEF LeapDay
<1>3. Value(0) = 0 /\ Value(1) = 0
  BY DEF BeforeYear
<1> HIDE DEF Value
<1>4. Is(table)
  <2>1. \A y \in 0..99 :
          table[y] = IF y <= 1 THEN 0
                     ELSE table[y - 1] + IF isLeapYear(y - 1) THEN 366 ELSE 365
    BY <1>2, <1>3
  <2> QED BY <2>1
<1>5. Is(before)
  BY <1>4
<1> HIDE DEF before, table
<1>6. ASSUME NEW y \in 2..99, before[y - 1] = Value(y - 1)
      PROVE  before[y] = Value(y)
  BY <1>2, <1>5, <1>6
<1>7. before[0] = Value(0) /\ before[1] = Value(1)
  BY <1>3, <1>5
<1>8. \A y \in 0..99 : before[y] = Value(y)
  <2> DEFINE Wrong == {y \in 0..99 : before[y] # Value(y)}
  <2>1. ASSUME Wrong # {}
        PROVE  FALSE
    <3>a. Wrong \subseteq Nat
      OBVIOUS
    <3> HIDE DEF Wrong
    <3>1. PICK y \in Wrong : \A n \in Wrong : y <= n
      BY <2>1, <3>a, LeastNatural
    <3> USE DEF Wrong
    <3>2. y \notin {0, 1}
      BY <1>7, <3>1
    <3>3. y - 1 \notin Wrong /\ y - 1 \in 0..99 /\ y \in 2..99
      BY <3>1, <3>2
    <3> QED BY <1>6, <3>1, <3>3
  <2> QED BY <2>1
<1> QED BY <1>1, <1>8 DEF Value

-----------------------------------------------------------------------------
(***************************************************************************)
(* The true count of minutes, and what Later makes of it.                  *)
(***************************************************************************)
DayCount(t) == t.dd + BeforeMonth(t.mm, t.yy) + BeforeYear(t.yy)
Count(t) == t.min + 60 * t.hr + 1440 * DayCount(t)

\* A time is its five fields.
LEMMA TimeFields ==
  ASSUME NEW t \in Time
  PROVE  /\ t.yy \in 0..99 /\ t.mm \in 1..12 /\ t.dd \in 1..31 /\ t.hr \in 0..23 /\ t.min \in 0..59
         /\ t = [yy |-> t.yy, mm |-> t.mm, dd |-> t.dd, hr |-> t.hr, min |-> t.min]
BY DEF Time

LEMMA DayCounts ==
  ASSUME NEW t \in Time
  PROVE  DayCount(t) \in Int /\ BeforeMonth(t.mm, t.yy) \in 0..335 /\ BeforeYear(t.yy) \in Nat
<1>1. t.yy \in 0..99 /\ t.mm \in 1..12 /\ t.dd \in 1..31
  BY TimeFields
<1>2. BeforeMonth(t.mm, t.yy) \in 0..335
  <2> DEFINE month == t.mm  year == t.yy
  <2>1. LeapDay(year) \in 0..1
    BY <1>1 DEF LeapDay
  <2>2. month \in 1..12
    BY <1>1
  <2> HIDE DEF month, year
  <2>3. BeforeMonth(month, year) \in 0..335
    BY <2>1, <2>2 DEF BeforeMonth
  <2> QED BY <2>3 DEF month, year
<1>3. BeforeYear(t.yy) \in Nat
  BY <1>1, NextYear
<1>4. t.dd + BeforeMonth(t.mm, t.yy) + BeforeYear(t.yy) \in Int
  <2> DEFINE d == t.dd  m == BeforeMonth(t.mm, t.yy)  y == BeforeYear(t.yy)
  <2>1. d \in Int /\ m \in Int /\ y \in Int
    BY <1>1, <1>2, <1>3
  <2> HIDE DEF d, m, y
  <2>2. d + m + y \in Int
    BY <2>1
  <2> QED BY <2>2 DEF d, m, y
<1> QED BY <1>2, <1>3, <1>4 DEF DayCount

\* The fields that the next day changes, and those that a time of day does.
LEMMA NewDate ==
  ASSUME NEW t \in Time, NEW m, NEW d
  PROVE  /\ [t EXCEPT !.dd = d] = [yy |-> t.yy, mm |-> t.mm, dd |-> d, hr |-> t.hr, min |-> t.min]
         /\ [t EXCEPT !.dd = d, !.mm = m]
              = [yy |-> t.yy, mm |-> m, dd |-> d, hr |-> t.hr, min |-> t.min]
<1>1. DOMAIN t = {"yy", "mm", "dd", "hr", "min"}
  BY DEF Time
<1>2. [t EXCEPT !.dd = d]
        = [yy |-> t.yy, mm |-> t.mm, dd |-> d, hr |-> t.hr, min |-> t.min]
  <2> DEFINE e == [t EXCEPT !.dd = d]
             r == [yy |-> t.yy, mm |-> t.mm, dd |-> d, hr |-> t.hr, min |-> t.min]
  <2>1. DOMAIN e = DOMAIN t /\ e = [f \in DOMAIN e |-> e[f]]
    OBVIOUS
  <2>2. DOMAIN r = DOMAIN t /\ r = [f \in DOMAIN r |-> r[f]]
    BY <1>1
  <2>3. e.yy = t.yy /\ e.mm = t.mm /\ e.dd = d
    BY <1>1
  <2>4. e.hr = t.hr /\ e.min = t.min
    BY <1>1
  <2>5. \A f \in DOMAIN t : e[f] = r[f]
    <3> HIDE DEF e
    <3> QED BY <1>1, <2>3, <2>4
  <2> HIDE DEF e, r
  <2>6. e = r
    BY <2>1, <2>2, <2>5
  <2> QED BY <2>6 DEF e, r
<1>3. [t EXCEPT !.dd = d, !.mm = m]
        = [yy |-> t.yy, mm |-> m, dd |-> d, hr |-> t.hr, min |-> t.min]
  <2> DEFINE e == [t EXCEPT !.dd = d, !.mm = m]
             r == [yy |-> t.yy, mm |-> m, dd |-> d, hr |-> t.hr, min |-> t.min]
  <2>1. DOMAIN e = DOMAIN t /\ e = [f \in DOMAIN e |-> e[f]]
    OBVIOUS
  <2>2. DOMAIN r = DOMAIN t /\ r = [f \in DOMAIN r |-> r[f]]
    BY <1>1
  <2>3. e.yy = t.yy /\ e.mm = m /\ e.dd = d
    BY <1>1
  <2>4. e.hr = t.hr /\ e.min = t.min
    BY <1>1
  <2>5. \A f \in DOMAIN t : e[f] = r[f]
    <3> HIDE DEF e
    <3> QED BY <1>1, <2>3, <2>4
  <2> HIDE DEF e, r
  <2>6. e = r
    BY <2>1, <2>2, <2>5
  <2> QED BY <2>6 DEF e, r
<1> QED BY <1>2, <1>3

LEMMA NewYearDate ==
  \A t, y, m, d : t \in Time =>
    [t EXCEPT !.dd = d, !.mm = m, !.yy = y]
      = [yy |-> y, mm |-> m, dd |-> d, hr |-> t.hr, min |-> t.min]
<1> SUFFICES ASSUME NEW t, NEW y, NEW m, NEW d, t \in Time
             PROVE  [t EXCEPT !.dd = d, !.mm = m, !.yy = y]
                      = [yy |-> y, mm |-> m, dd |-> d, hr |-> t.hr, min |-> t.min]
  OBVIOUS
<1> DEFINE e == [t EXCEPT !.dd = d, !.mm = m, !.yy = y]
           r == [yy |-> y, mm |-> m, dd |-> d, hr |-> t.hr, min |-> t.min]
<1>1. DOMAIN t = {"yy", "mm", "dd", "hr", "min"}
  BY DEF Time
<1>2. DOMAIN e = DOMAIN t /\ e = [f \in DOMAIN e |-> e[f]]
  OBVIOUS
<1>3. DOMAIN r = DOMAIN t /\ r = [f \in DOMAIN r |-> r[f]]
  BY <1>1
<1>4. e.yy = y /\ e.mm = m /\ e.dd = d
  BY <1>1
<1>5. e.hr = t.hr /\ e.min = t.min
  BY <1>1
<1>6. \A f \in DOMAIN t : e[f] = r[f]
  <2> HIDE DEF e
  <2> QED BY <1>1, <1>4, <1>5
<1> HIDE DEF e, r
<1>7. e = r
  BY <1>2, <1>3, <1>6
<1> QED BY <1>7 DEF e, r

LEMMA NewTimeOfDay ==
  \A t, h, m : t \in Time =>
    [t EXCEPT !.hr = h, !.min = m]
      = [yy |-> t.yy, mm |-> t.mm, dd |-> t.dd, hr |-> h, min |-> m]
<1> SUFFICES ASSUME NEW t, NEW h, NEW m, t \in Time
             PROVE  [t EXCEPT !.hr = h, !.min = m]
                      = [yy |-> t.yy, mm |-> t.mm, dd |-> t.dd, hr |-> h, min |-> m]
  OBVIOUS
<1> DEFINE e == [t EXCEPT !.hr = h, !.min = m]
           r == [yy |-> t.yy, mm |-> t.mm, dd |-> t.dd, hr |-> h, min |-> m]
<1>1. DOMAIN t = {"yy", "mm", "dd", "hr", "min"}
  BY DEF Time
<1>2. DOMAIN e = DOMAIN t /\ e = [f \in DOMAIN e |-> e[f]]
  OBVIOUS
<1>3. DOMAIN r = DOMAIN t /\ r = [f \in DOMAIN r |-> r[f]]
  BY <1>1
<1>4. e.yy = t.yy /\ e.mm = t.mm /\ e.dd = t.dd
  BY <1>1
<1>5. e.hr = h /\ e.min = m
  BY <1>1
<1>6. \A f \in DOMAIN t : e[f] = r[f]
  <2> HIDE DEF e
  <2> QED BY <1>1, <1>4, <1>5
<1> HIDE DEF e, r
<1>7. e = r
  BY <1>2, <1>3, <1>6
<1> QED BY <1>7 DEF e, r

LEMMA NextDay ==
  ASSUME NEW t, OfCalendar(t), t.yy \in 0..98
  PROVE  /\ OfCalendar(DayAfter(t)) /\ DayCount(DayAfter(t)) = DayCount(t) + 1
         /\ DayAfter(t).yy \in {t.yy, t.yy + 1}
         /\ DayAfter(t).hr = t.hr /\ DayAfter(t).min = t.min
<1>1. t \in Time /\ t.dd <= MonthLength(t.mm, t.yy)
  BY DEF OfCalendar
<1>2. /\ t.yy \in 0..98 /\ t.mm \in 1..12 /\ t.dd \in 1..31 /\ t.hr \in 0..23 /\ t.min \in 0..59
      /\ t = [yy |-> t.yy, mm |-> t.mm, dd |-> t.dd, hr |-> t.hr, min |-> t.min]
  BY <1>1, TimeFields
<1>3. MonthLength(t.mm, t.yy) \in 28..31 /\ MonthLength(12, t.yy) = 31
  BY <1>2, MonthLengths
<1>4. BeforeMonth(t.mm, t.yy) \in Int /\ BeforeYear(t.yy) \in Int
  BY <1>1, DayCounts
<1>5. CASE t.dd < MonthLength(t.mm, t.yy)
  <2>1. DayAfter(t) = [yy |-> t.yy, mm |-> t.mm, dd |-> t.dd + 1, hr |-> t.hr, min |-> t.min]
    BY <1>1, <1>5, NewDate DEF DayAfter
  <2>2. DayAfter(t) \in Time
    BY <1>2, <1>3, <1>5, <2>1 DEF Time
  <2> QED BY <1>2, <1>3, <1>4, <1>5, <2>1, <2>2 DEF OfCalendar, DayCount
<1>6. CASE ~ (t.dd < MonthLength(t.mm, t.yy)) /\ t.mm < 12
  <2>1. DayAfter(t) = [yy |-> t.yy, mm |-> t.mm + 1, dd |-> 1, hr |-> t.hr, min |-> t.min]
    BY <1>1, <1>6, NewDate DEF DayAfter
  <2>2. DayAfter(t) \in Time
    BY <1>2, <1>6, <2>1 DEF Time
  <2>3. MonthLength(t.mm + 1, t.yy) \in 28..31
    BY <1>2, <1>6, MonthLengths
  <2>4. BeforeMonth(t.mm + 1, t.yy) = BeforeMonth(t.mm, t.yy) + MonthLength(t.mm, t.yy)
    BY <1>2, <1>6, NextMonth
  <2>5. t.dd = MonthLength(t.mm, t.yy)
    BY <1>1, <1>2, <1>3, <1>6
  <2> QED BY <1>2, <1>3, <1>4, <2>1, <2>2, <2>3, <2>4, <2>5 DEF OfCalendar, DayCount
<1>7. CASE ~ (t.dd < MonthLength(t.mm, t.yy)) /\ t.mm = 12
  <2>1. DayAfter(t) = [yy |-> t.yy + 1, mm |-> 1, dd |-> 1, hr |-> t.hr, min |-> t.min]
    <3>1. DayAfter(t) = [t EXCEPT !.dd = 1, !.mm = 1, !.yy = t.yy + 1]
      <4>1. ~ (t.mm < 12)
        BY <1>7
      <4> QED BY <1>7, <4>1 DEF DayAfter
    <3> QED BY <1>1, <3>1, NewYearDate
  <2>2. DayAfter(t) \in Time
    BY <1>2, <2>1 DEF Time
  <2>3. MonthLength(1, t.yy + 1) \in 28..31
    BY <1>2, MonthLengths
  <2>4. /\ BeforeMonth(1, t.yy + 1) = 0
        /\ BeforeMonth(12, t.yy) = 334 + LeapDay(t.yy)
        /\ BeforeYear(t.yy + 1) = BeforeYear(t.yy) + 365 + LeapDay(t.yy)
        /\ LeapDay(t.yy) \in Int
    BY <1>2, NextYear DEF BeforeMonth, LeapDay
  <2>5. t.dd = 31
    BY <1>1, <1>2, <1>3, <1>7
  <2> QED BY <1>2, <1>4, <1>7, <2>1, <2>2, <2>3, <2>4, <2>5 DEF OfCalendar, DayCount
<1> QED BY <1>2, <1>5, <1>6, <1>7

\* A number of minutes, less than two days, is a day, hours and minutes.
LEMMA TimeOfDay ==
  ASSUME NEW total \in 0..2879
  PROVE  /\ (total % 1440) \div 60 \in 0..23 /\ total % 60 \in 0..59
         /\ total = (total % 60) + 60 * ((total % 1440) \div 60)
                     + (IF total >= 1440 THEN 1440 ELSE 0)
<1>1. CASE total < 1440
  <2>1. total % 1440 = total
    BY <1>1
  <2> QED BY <1>1, <2>1
<1>2. CASE total >= 1440
  <2>1. total % 1440 = total - 1440
    BY <1>2
  <2> QED BY <1>2, <2>1
<1> QED BY <1>1, <1>2

\* Less than a day later, the count has gone on by as much.
LEMMA LaterCounts ==
  \A t, minutes :
    OfCalendar(t) /\ t.yy \in 0..98 /\ minutes \in 0..1439 =>
      /\ OfCalendar(Later(t, minutes)) /\ Count(Later(t, minutes)) = Count(t) + minutes
      /\ Later(t, minutes).yy \in {t.yy, t.yy + 1}
<1> SUFFICES ASSUME NEW t, NEW minutes, OfCalendar(t), t.yy \in 0..98, minutes \in 0..1439
             PROVE  /\ OfCalendar(Later(t, minutes))
                    /\ Count(Later(t, minutes)) = Count(t) + minutes
                    /\ Later(t, minutes).yy \in {t.yy, t.yy + 1}
  OBVIOUS
<1> DEFINE total == 60 * t.hr + t.min + minutes
           over == IF total >= 1440 THEN 1 ELSE 0
           day == IF total >= 1440 THEN DayAfter(t) ELSE t
           h == (total % 1440) \div 60
           m == total % 60
           later == [day EXCEPT !.hr = h, !.min = m]
<1>1. t \in Time /\ t.yy \in 0..98 /\ t.hr \in 0..23 /\ t.min \in 0..59
  BY TimeFields DEF OfCalendar
<1>2. total \in 0..2879 /\ over \in 0..1
  <2>1. total \in 0..2879
    <3> DEFINE hr == t.hr  min == t.min
    <3>1. hr \in 0..23 /\ min \in 0..59
      BY <1>1
    <3> HIDE DEF hr, min
    <3>2. 60 * hr + min + minutes \in 0..2879
      BY <3>1
    <3> QED BY <3>2 DEF hr, min
  <2> HIDE DEF total
  <2> QED BY <2>1
<1>3. DayCount(t) \in Int
  BY <1>1, DayCounts
<1>4. OfCalendar(day) /\ day.yy \in {t.yy, t.yy + 1} /\ DayCount(day) = DayCount(t) + over
  <2>1. CASE total >= 1440
    BY <2>1, NextDay
  <2>2. CASE ~ (total >= 1440)
    BY <2>2, <1>3
  <2> QED BY <2>1, <2>2
<1>5. Later(t, minutes) = later
  BY DEF Later
<1> HIDE DEF day
<1>6. h \in 0..23 /\ m \in 0..59 /\ total = m + 60 * h + 1440 * over
  <2> HIDE DEF total
  <2>1. over = 1 <=> total >= 1440
    BY <1>2
  <2>2. 1440 * over = IF total >= 1440 THEN 1440 ELSE 0
    BY <1>2
  <2> HIDE DEF over
  <2>3. total = (total % 60) + 60 * ((total % 1440) \div 60) + 1440 * over
    BY <1>2, <2>2, TimeOfDay
  <2> QED BY <1>2, <2>3, TimeOfDay
<1> HIDE DEF h, m
<1>7. later = [yy |-> day.yy, mm |-> day.mm, dd |-> day.dd, hr |-> h, min |-> m]
  <2>1. day \in Time
    BY <1>4 DEF OfCalendar
  <2> QED BY <2>1, NewTimeOfDay, ZenonT(30)
<1>8. day.yy \in 0..99 /\ day.mm \in 1..12 /\ day.dd \in 1..31
  BY <1>4, TimeFields DEF OfCalendar
<1>9. OfCalendar(later)
  BY <1>4, <1>6, <1>7, <1>8 DEF OfCalendar, Time
<1>10. DayCount(later) = DayCount(day)
  BY <1>7 DEF DayCount
<1>11. Count(later) = m + 60 * h + 1440 * (DayCount(t) + over)
  BY <1>4, <1>7, <1>10 DEF Count
<1>12. Count(t) + minutes = total + 1440 * DayCount(t)
  <2> DEFINE d == DayCount(t)
             hr == t.hr
             min == t.min
  <2>1. d \in Int /\ hr \in Int /\ min \in Int
    BY <1>1, <1>3
  <2>2. Count(t) = min + 60 * hr + 1440 * d /\ total = 60 * hr + min + minutes
    BY DEF Count
  <2> HIDE DEF d, hr, min, total
  <2>3. Count(t) + minutes = total + 1440 * d
    BY <2>1, <2>2
  <2> QED BY <2>3 DEF d
<1> HIDE DEF total, over, later
<1>13. Count(later) = Count(t) + minutes
  BY <1>2, <1>3, <1>6, <1>11, <1>12
<1>14. later.yy = day.yy
  BY <1>7 DEF later
<1> QED BY <1>4, <1>5, <1>9, <1>13, <1>14

-----------------------------------------------------------------------------
\* Five and a half hours carry into the day at most once.
LEMMA ShiftedTime ==
  ASSUME NEW h \in 0..23, NEW m \in 0..59
  PROVE  LET total == 60 * h + m + 330
             hr == h + 5 + (m + 30) \div 60
         IN /\ (m + 30) % 60 = total % 60 /\ hr % 24 = (total % 1440) \div 60
            /\ hr \div 24 = IF total >= 1440 THEN 1 ELSE 0
<1> DEFINE total == 60 * h + m + 330
           hr == h + 5 + (m + 30) \div 60
<1>1. total \in 330..1769 /\ hr \in 5..29
  OBVIOUS
<1>2. (m + 30) % 60 = total % 60
  OBVIOUS
<1>3. total = 60 * hr + ((m + 30) % 60) /\ (m + 30) % 60 \in 0..59
  OBVIOUS
<1> SUFFICES hr % 24 = (total % 1440) \div 60 /\ hr \div 24 = IF total >= 1440 THEN 1 ELSE 0
  BY <1>2
<1> HIDE DEF total, hr
<1>4. CASE hr < 24
  <2>1. total \in 0..1439 /\ total % 1440 = total
    BY <1>1, <1>3, <1>4
  <2>2. total \div 60 = hr
    BY <1>1, <1>3
  <2> QED BY <1>1, <1>4, <2>1, <2>2
<1>5. CASE hr >= 24
  <2>1. total >= 1440 /\ total % 1440 = total - 1440
    BY <1>1, <1>3, <1>5
  <2>2. (total - 1440) \div 60 = hr - 24
    BY <1>1, <1>3
  <2> QED BY <1>1, <1>5, <2>1, <2>2
<1> QED BY <1>1, <1>4, <1>5

\* One more than a number of days, or of months, carries if they were full.
LEMMA Carried ==
  ASSUME NEW unit \in {12, 28, 29, 30, 31}, NEW d \in 1..unit, NEW over \in 0..1
  PROVE  /\ CarryFrom(d + over, unit) = IF d = unit THEN over ELSE 0
         /\ RestOf(d + over, unit) = IF d = unit /\ over = 1 THEN 1 ELSE d + over
<1>1. unit \in {12, 28, 29, 30, 31} /\ unit \in Nat
  OBVIOUS
<1>2. (unit + 1) \div unit = 1 /\ (unit + 1) % unit = 1
  <2>1. unit = 12 \/ unit = 28 \/ unit = 29 \/ unit = 30 \/ unit = 31
    BY <1>1
  <2> QED BY <2>1
<1>3. CASE d = unit /\ over = 1
  <2>1. d + over = unit + 1 /\ d + over > unit
    BY <1>1, <1>3
  <2> QED BY <1>2, <1>3, <2>1 DEF CarryFrom, RestOf
<1>4. CASE ~ (d = unit /\ over = 1)
  <2>1. ~ (d + over > unit)
    BY <1>1, <1>4
  <2> QED BY <1>4, <2>1 DEF CarryFrom, RestOf
<1> QED BY <1>3, <1>4

\* utcTOlocal carries like the calendar.
LEMMA LocalIsLater ==
  ASSUME NEW t, OfCalendar(t), t.yy \in 0..98
  PROVE  utcTOlocal(t) = Later(t, 330)
<1>1. t \in Time /\ t.dd <= MonthLength(t.mm, t.yy)
  BY DEF OfCalendar
<1>2. /\ t.yy \in 0..98 /\ t.mm \in 1..12 /\ t.dd \in 1..31 /\ t.hr \in 0..23 /\ t.min \in 0..59
      /\ t = [yy |-> t.yy, mm |-> t.mm, dd |-> t.dd, hr |-> t.hr, min |-> t.min]
  BY <1>1, TimeFields
<1> DEFINE total == 60 * t.hr + t.min + 330
           min == t.min + 30
           hr == t.hr + 5 + min \div 60
           over == IF total >= 1440 THEN 1 ELSE 0
           DayNum == getDaysOfMonth(t.mm, t.yy)
           dd == t.dd + over
           mm == t.mm + CarryFrom(dd, DayNum)
           date == [yy |-> t.yy + CarryFrom(mm, 12), mm |-> RestOf(mm, 12),
                    dd |-> RestOf(dd, DayNum), hr |-> t.hr, min |-> t.min]
           day == IF total >= 1440 THEN DayAfter(t) ELSE t
<1>3. min % 60 = total % 60 /\ hr % 24 = (total % 1440) \div 60 /\ hr \div 24 = over
  BY <1>2, ShiftedTime
<1>4. utcTOlocal(t) = [min |-> min % 60, hr |-> hr % 24, dd |-> RestOf(dd, DayNum),
                       mm |-> RestOf(mm, 12), yy |-> t.yy + CarryFrom(mm, 12)]
  BY <1>3 DEF utcTOlocal
<1>5. DayNum = MonthLength(t.mm, t.yy) /\ DayNum \in {28, 29, 30, 31} /\ over \in 0..1
  BY <1>2, MonthsAgree, MonthLengths
<1>6. t.dd \in 1..DayNum
  BY <1>1, <1>2, <1>5
<1>7. Later(t, 330) = [day EXCEPT !.hr = (total % 1440) \div 60, !.min = total % 60]
  BY DEF Later
<1> HIDE DEF DayNum
<1>8. /\ CarryFrom(dd, DayNum) = IF t.dd = DayNum THEN over ELSE 0
      /\ RestOf(dd, DayNum) = IF t.dd = DayNum /\ over = 1 THEN 1 ELSE dd
  BY <1>5, <1>6, Carried
<1>9. CarryFrom(dd, DayNum) \in 0..1
  BY <1>5, <1>8
<1>10. /\ CarryFrom(mm, 12) = IF t.mm = 12 THEN CarryFrom(dd, DayNum) ELSE 0
       /\ RestOf(mm, 12) = IF t.mm = 12 /\ CarryFrom(dd, DayNum) = 1 THEN 1 ELSE mm
  BY <1>2, <1>9, Carried
<1>11. day = date
  <2>1. CASE total < 1440
    <3>1. over = 0 /\ dd = t.dd
      BY <1>2, <2>1
    <3>2. mm = t.mm
      BY <1>2, <1>8, <3>1
    <3>3. RestOf(mm, 12) = t.mm /\ RestOf(dd, DayNum) = t.dd /\ t.yy + CarryFrom(mm, 12) = t.yy
      BY <1>2, <1>8, <1>10, <3>1, <3>2
    <3>4. day = t
      BY <1>2, <2>1
    <3> HIDE DEF day, mm, dd
    <3> QED BY <1>2, <3>3, <3>4
  <2>2. CASE total >= 1440 /\ t.dd < DayNum
    <3>1. over = 1 /\ dd = t.dd + 1 /\ t.dd # DayNum
      BY <1>2, <1>5, <2>2
    <3>2. mm = t.mm
      BY <1>2, <1>8, <3>1
    <3>3. /\ RestOf(mm, 12) = t.mm /\ RestOf(dd, DayNum) = t.dd + 1
          /\ t.yy + CarryFrom(mm, 12) = t.yy
      BY <1>2, <1>8, <1>10, <3>1, <3>2
    <3>4. day = [yy |-> t.yy, mm |-> t.mm, dd |-> t.dd + 1, hr |-> t.hr, min |-> t.min]
      <4>1. day = [t EXCEPT !.dd = t.dd + 1]
        BY <1>5, <2>2 DEF DayAfter
      <4> HIDE DEF day
      <4> QED BY <1>1, <4>1, NewDate
    <3> HIDE DEF day, mm, dd
    <3> QED BY <3>3, <3>4
  <2>3. CASE total >= 1440 /\ t.dd = DayNum /\ t.mm < 12
    <3>1. over = 1 /\ CarryFrom(dd, DayNum) = 1 /\ ~ (t.dd < DayNum) /\ t.mm # 12
      BY <1>2, <1>5, <1>8, <2>3
    <3>2. mm = t.mm + 1
      BY <3>1
    <3>3. /\ RestOf(mm, 12) = t.mm + 1 /\ RestOf(dd, DayNum) = 1
          /\ t.yy + CarryFrom(mm, 12) = t.yy
      BY <1>2, <1>8, <1>10, <2>3, <3>1, <3>2
    <3>4. day = [yy |-> t.yy, mm |-> t.mm + 1, dd |-> 1, hr |-> t.hr, min |-> t.min]
      <4>1. day = [t EXCEPT !.dd = 1, !.mm = t.mm + 1]
        BY <1>5, <2>3, <3>1 DEF DayAfter
      <4> HIDE DEF day
      <4> QED BY <1>1, <4>1, NewDate
    <3> HIDE DEF day, mm, dd
    <3> QED BY <3>3, <3>4
  <2>4. CASE total >= 1440 /\ t.dd = DayNum /\ t.mm = 12
    <3>1. over = 1 /\ CarryFrom(dd, DayNum) = 1 /\ ~ (t.dd < DayNum) /\ ~ (t.mm < 12)
      BY <1>2, <1>5, <1>8, <2>4
    <3>2. /\ RestOf(mm, 12) = 1 /\ RestOf(dd, DayNum) = 1
          /\ t.yy + CarryFrom(mm, 12) = t.yy + 1
      BY <1>8, <1>10, <2>4, <3>1
    <3>3. day = [yy |-> t.yy + 1, mm |-> 1, dd |-> 1, hr |-> t.hr, min |-> t.min]
      <4>1. day = [t EXCEPT !.dd = 1, !.mm = 1, !.yy = t.yy + 1]
        BY <1>5, <2>4, <3>1 DEF DayAfter
      <4> HIDE DEF day
      <4> QED BY <1>1, <4>1, NewYearDate
    <3> HIDE DEF day, mm, dd
    <3> QED BY <3>2, <3>3
  <2>5. total \in Int /\ (t.dd < DayNum \/ t.dd = DayNum) /\ (t.mm < 12 \/ t.mm = 12)
    BY <1>2, <1>5, <1>6
  <2> HIDE DEF total, day, date
  <2> QED BY <2>1, <2>2, <2>3, <2>4, <2>5
<1>12. day \in Time
  <2>1. CASE total >= 1440
    BY <1>2, <2>1, NextDay DEF OfCalendar
  <2>2. CASE ~ (total >= 1440)
    BY <1>1, <2>2
  <2> QED BY <2>1, <2>2
<1> HIDE DEF total, min, hr, dd, mm, day
<1>13. [day EXCEPT !.hr = (total % 1440) \div 60, !.min = total % 60]
         = [yy |-> day.yy, mm |-> day.mm, dd |-> day.dd,
            hr |-> (total % 1440) \div 60, min |-> total % 60]
  <2> DEFINE h == (total % 1440) \div 60
             m == total % 60
  <2> HIDE DEF h, m
  <2>1. [day EXCEPT !.hr = h, !.min = m]
          = [yy |-> day.yy, mm |-> day.mm, dd |-> day.dd, hr |-> h, min |-> m]
    BY <1>12, NewTimeOfDay
  <2> QED BY <2>1 DEF h, m
<1>14. /\ day.yy = t.yy + CarryFrom(mm, 12) /\ day.mm = RestOf(mm, 12)
       /\ day.dd = RestOf(dd, DayNum)
  BY <1>11
<1> HIDE DEF date
<1> QED BY <1>3, <1>4, <1>7, <1>13, <1>14

-----------------------------------------------------------------------------
\* A year has 365 days or a few more.
LEMMA CountBounds ==
  ASSUME NEW t \in Time
  PROVE  /\ DayCount(t) \in (365 * t.yy + 1)..(365 * t.yy + 391)
         /\ Count(t) \in (1440 * DayCount(t))..(1440 * DayCount(t) + 1439)
<1>1. t.yy \in 0..99 /\ t.mm \in 1..12 /\ t.dd \in 1..31 /\ t.hr \in 0..23 /\ t.min \in 0..59
  BY TimeFields
<1>2. BeforeMonth(t.mm, t.yy) \in 0..335 /\ DayCount(t) \in Int
  BY DayCounts
<1>3. BeforeYear(t.yy) \in (365 * t.yy)..(365 * t.yy + 25)
  BY <1>1 DEF BeforeYear
<1>4. DayCount(t) \in (365 * t.yy + 1)..(365 * t.yy + 391)
  <2> DEFINE d == t.dd
             m == BeforeMonth(t.mm, t.yy)
             y == BeforeYear(t.yy)
             yy == t.yy
  <2>1. d \in 1..31 /\ m \in 0..335 /\ y \in (365 * yy)..(365 * yy + 25) /\ yy \in 0..99
    BY <1>1, <1>2, <1>3
  <2>2. DayCount(t) = d + m + y
    BY DEF DayCount
  <2> HIDE DEF d, m, y, yy
  <2>3. DayCount(t) \in (365 * yy + 1)..(365 * yy + 391)
    BY <2>1, <2>2
  <2> QED BY <2>3 DEF yy
<1>5. Count(t) \in (1440 * DayCount(t))..(1440 * DayCount(t) + 1439)
  <2> DEFINE d == DayCount(t)
             hr == t.hr
             min == t.min
  <2>1. d \in Int /\ hr \in 0..23 /\ min \in 0..59
    BY <1>1, <1>2
  <2>2. Count(t) = min + 60 * hr + 1440 * d
    BY DEF Count
  <2> HIDE DEF d, hr, min
  <2>3. Count(t) \in (1440 * d)..(1440 * d + 1439)
    BY <2>1, <2>2
  <2> QED BY <2>3 DEF d
<1> QED BY <1>4, <1>5

\* What timestampToMinutes counts: the minutes of the calendar, less a year that year 0 keeps.
LEMMA TimestampCounts ==
  \A t : OfCalendar(t) =>
    timestampToMinutes(t) = Count(t) - (IF t.yy = 0 THEN 0 ELSE 1440 * 366)
<1> SUFFICES ASSUME NEW t, OfCalendar(t)
             PROVE  timestampToMinutes(t) = Count(t) - (IF t.yy = 0 THEN 0 ELSE 1440 * 366)
  OBVIOUS
<1>1. t \in Time
  BY DEF OfCalendar
<1>2. t.yy \in 0..99 /\ t.mm \in 1..12 /\ t.dd \in 1..31 /\ t.hr \in 0..23 /\ t.min \in 0..59
  BY <1>1, TimeFields
<1>3. BeforeMonth(t.mm, t.yy) \in Int /\ BeforeYear(t.yy) \in Int
  BY <1>1, DayCounts
<1>4. /\ DaysToMonth(t.mm, t.yy) = BeforeMonth(t.mm, t.yy)
      /\ DaysToYear(t.yy) = IF t.yy = 0 THEN 0 ELSE BeforeYear(t.yy) - 366
  BY <1>2, MonthsCounted, YearsCounted
<1>5. BeforeYear(0) = 0
  BY DEF BeforeYear
<1>6. CASE t.yy = 0
  <2>1. /\ timestampToMinutes(t)
              = t.min + 60 * t.hr + 1440 * (t.dd + BeforeMonth(t.mm, t.yy) + BeforeYear(t.yy))
        /\ BeforeYear(t.yy) = 0
    BY <1>4, <1>5, <1>6 DEF timestampToMinutes
  <2>2. timestampToMinutes(t) = Count(t)
    BY <2>1 DEF Count, DayCount
  <2>3. Count(t) \in Int
    <3>1. DayCount(t) \in Int
      BY <1>1, DayCounts
    <3> QED BY <1>1, <3>1, CountBounds
  <2> QED BY <1>6, <2>2, <2>3
<1>7. CASE t.yy # 0
  <2> DEFINE m == BeforeMonth(t.mm, t.yy)
             y == BeforeYear(t.yy)
  <2>1. timestampToMinutes(t) = t.min + 60 * t.hr + 1440 * (t.dd + m + (y - 366))
    BY <1>4, <1>7 DEF timestampToMinutes
  <2>2. Count(t) = t.min + 60 * t.hr + 1440 * (t.dd + m + y)
    BY DEF Count, DayCount
  <2>3. m \in Int /\ y \in Int
    BY <1>3
  <2> HIDE DEF m, y
  <2> DEFINE min == t.min
             hr == t.hr
             dd == t.dd
  <2>4. min \in Int /\ hr \in Int /\ dd \in Int
    BY <1>2
  <2>5. timestampToMinutes(t) = min + 60 * hr + 1440 * (dd + m + (y - 366))
    BY <2>1
  <2>6. Count(t) = min + 60 * hr + 1440 * (dd + m + y)
    BY <2>2
  <2> HIDE DEF min, hr, dd
  <2>7. timestampToMinutes(t) = Count(t) - 1440 * 366
    BY <2>3, <2>4, <2>5, <2>6
  <2> QED BY <1>7, <2>7
<1> QED BY <1>6, <1>7

-----------------------------------------------------------------------------
(***************************************************************************)
(* The receiver's time and the clock's are both of the calendar, and stay  *)
(* the same time apart: more than twenty years.                            *)
(***************************************************************************)
Apart == Count(rtc) + 1440 * 8000 <= Count(utc)

CalSafe ==
  /\ OfCalendar(utc) /\ utc.yy \in 23..LastYear
  /\ OfCalendar(rtc)
  /\ Apart

LEMMA Bounds == Lap \in 0..1439 /\ LastYear \in 23..98
BY CalendarAssumption

\* What the invariant says of the two times.
LEMMA TwoTimes ==
  ASSUME CalSafe
  PROVE  /\ OfCalendar(utc) /\ utc \in Time /\ utc.yy \in 23..98 /\ utc.yy <= LastYear
         /\ OfCalendar(rtc) /\ rtc \in Time
         /\ Count(utc) \in Int /\ Count(rtc) \in Int
<1>1. OfCalendar(utc) /\ utc.yy \in 23..LastYear /\ OfCalendar(rtc)
  BY DEF CalSafe
<1>2. utc \in Time /\ rtc \in Time
  BY <1>1 DEF OfCalendar
<1>3. utc.yy \in 23..98 /\ utc.yy <= LastYear
  BY <1>1, Bounds
<1>4. DayCount(utc) \in Int /\ DayCount(rtc) \in Int
  BY <1>2, DayCounts
<1>5. Count(utc) \in Int
  BY <1>2, <1>4, CountBounds
<1>6. Count(rtc) \in Int
  BY <1>2, <1>4, CountBounds
<1> QED BY <1>1, <1>2, <1>3, <1>5, <1>6

LEMMA CalSafeStarts == CalInit => CalSafe
<1> SUFFICES ASSUME CalInit
             PROVE  CalSafe
  OBVIOUS
<1>1. OfCalendar(utc) /\ utc.yy \in 23..LastYear /\ LastYear \in 23..98
  BY CalendarAssumption DEF CalInit
<1>2. PICK on \in OnFor : rtc = Later(PowerUp, on)
  BY DEF CalInit
<1>3. on \in 0..1439
  BY CalendarAssumption
<1>4. PowerUp \in Time /\ PowerUp.yy = 0 /\ OfCalendar(PowerUp)
  <2>1. MonthLength(1, 0) = 31
    BY DEF MonthLength
  <2> QED BY <2>1 DEF PowerUp, Time, OfCalendar
<1>5. OfCalendar(rtc) /\ Count(rtc) = Count(PowerUp) + on
  BY <1>2, <1>3, <1>4, LaterCounts
<1>6. DayCount(PowerUp) \in 1..391 /\ Count(PowerUp) <= 1440 * 391 + 1439 /\ Count(PowerUp) \in Int
  BY <1>4, CountBounds
<1>7. DayCount(utc) \in Int /\ DayCount(utc) >= 8396 /\ Count(utc) \in Int
      /\ Count(utc) >= 1440 * DayCount(utc)
  BY <1>1, CountBounds DEF OfCalendar
<1>8. Apart
  BY <1>3, <1>5, <1>6, <1>7 DEF Apart
<1> QED BY <1>1, <1>5, <1>8 DEF CalSafe

LEMMA CalSafeStays == CalSafe /\ [CalNext]_calVars => CalSafe'
<1> SUFFICES ASSUME CalSafe, [CalNext]_calVars
             PROVE  CalSafe'
  OBVIOUS
<1>1. CASE UNCHANGED calVars
  BY <1>1 DEF CalSafe, Apart, calVars
<1>2. CASE CalNext
  <2>1. utc' = Later(utc, Lap) /\ rtc' = Later(rtc, Lap) /\ Later(utc, Lap).yy <= LastYear
    BY <1>2 DEF CalNext
  <2>2. /\ Lap \in 0..1439 /\ LastYear \in 23..98 /\ utc.yy <= LastYear
        /\ OfCalendar(utc) /\ utc \in Time /\ utc.yy \in 0..98 /\ utc.yy \in 23..98
        /\ OfCalendar(rtc) /\ rtc \in Time
    BY Bounds, TwoTimes
  <2>3. /\ OfCalendar(Later(utc, Lap)) /\ Count(Later(utc, Lap)) = Count(utc) + Lap
        /\ Later(utc, Lap).yy \in {utc.yy, utc.yy + 1}
    BY <2>2, LaterCounts
  <2>4. rtc.yy \in 0..98
    <3>1. /\ DayCount(rtc) \in Int /\ DayCount(rtc) >= 365 * rtc.yy + 1
          /\ Count(rtc) \in Int /\ Count(rtc) >= 1440 * DayCount(rtc) /\ rtc.yy \in 0..99
      BY <2>2, CountBounds, TimeFields
    <3>2. /\ DayCount(utc) \in Int /\ DayCount(utc) <= 365 * 98 + 391
          /\ Count(utc) \in Int /\ Count(utc) <= 1440 * DayCount(utc) + 1439
      BY <2>2, CountBounds
    <3> QED BY <3>1, <3>2 DEF CalSafe, Apart
  <2>5. OfCalendar(Later(rtc, Lap)) /\ Count(Later(rtc, Lap)) = Count(rtc) + Lap
    BY <2>2, <2>4, LaterCounts
  <2>6. Count(utc) \in Int /\ Count(rtc) \in Int
    BY TwoTimes
  <2>7. Apart'
    BY <2>1, <2>2, <2>3, <2>5, <2>6 DEF CalSafe, Apart
  <2>8. utc'.yy \in 23..LastYear
    BY <2>1, <2>2, <2>3
  <2> QED BY <2>1, <2>3, <2>5, <2>7, <2>8 DEF CalSafe
<1> QED BY <1>1, <1>2

LEMMA CalSafeAlways == CalSpec => []CalSafe
BY CalSafeStarts, CalSafeStays, PTL DEF CalSpec

-----------------------------------------------------------------------------
\* The local time of a time after 2000, and what timestampToMinutes makes of it.
LEMMA LocalCounts ==
  \A t : OfCalendar(t) /\ t.yy \in 23..98 =>
    /\ utcTOlocal(t) = Later(t, 330) /\ OfCalendar(utcTOlocal(t))
    /\ utcTOlocal(t).yy \in {t.yy, t.yy + 1}
    /\ timestampToMinutes(utcTOlocal(t)) = Count(t) + 330 - 1440 * 366
<1> SUFFICES ASSUME NEW t, OfCalendar(t), t.yy \in 23..98
             PROVE  /\ utcTOlocal(t) = Later(t, 330) /\ OfCalendar(utcTOlocal(t))
                    /\ utcTOlocal(t).yy \in {t.yy, t.yy + 1}
                    /\ timestampToMinutes(utcTOlocal(t)) = Count(t) + 330 - 1440 * 366
  OBVIOUS
<1>1. t.yy \in 0..98
  OBVIOUS
<1>2. utcTOlocal(t) = Later(t, 330)
  BY <1>1, LocalIsLater
<1>3. /\ OfCalendar(Later(t, 330)) /\ Count(Later(t, 330)) = Count(t) + 330
      /\ Later(t, 330).yy \in {t.yy, t.yy + 1}
  BY <1>1, LaterCounts
<1>4. Later(t, 330).yy # 0
  BY <1>1, <1>3
<1>5. timestampToMinutes(Later(t, 330)) = Count(t) + 330 - 1440 * 366
  <2> DEFINE later == Later(t, 330)
  <2>1. OfCalendar(later) /\ later.yy # 0
    BY <1>3, <1>4
  <2> HIDE DEF later
  <2>2. timestampToMinutes(later) = Count(later) - 1440 * 366
    BY <2>1, TimestampCounts
  <2>3. Count(t) \in Int /\ Count(later) = Count(t) + 330
    <3>1. t \in Time
      BY DEF OfCalendar
    <3>2. DayCount(t) \in Int
      BY <3>1, DayCounts
    <3>3. Count(t) \in Int
      BY <3>1, <3>2, CountBounds
    <3> QED BY <1>3, <3>3 DEF later
  <2> QED BY <2>2, <2>3 DEF later
<1> QED BY <1>2, <1>3, <1>5

LEMMA LocalTime ==
  ASSUME CalSafe
  PROVE  /\ utcTOlocal(utc) = Later(utc, 330) /\ OfCalendar(utcTOlocal(utc))
         /\ utcTOlocal(utc).yy \in {utc.yy, utc.yy + 1} /\ utc.yy \in 23..98
         /\ timestampToMinutes(utcTOlocal(utc)) = Count(utc) + 330 - 1440 * 366
<1>1. OfCalendar(utc) /\ utc.yy \in 23..98
  BY TwoTimes
<1> QED BY <1>1, LocalCounts

LEMMA OfferTaken ==
  ASSUME CalSafe
  PROVE  OfferSetsClock
<1> DEFINE offer == utcTOlocal(utc)
           stop == timestampToMinutes(rtc)
           start == timestampToMinutes(offer)
           minutes == stop - start
           apart == IF minutes < 0 THEN - minutes ELSE minutes
<1>1. start = Count(utc) + 330 - 1440 * 366
  BY LocalTime
<1>2. stop = Count(rtc) - (IF rtc.yy = 0 THEN 0 ELSE 1440 * 366)
  BY TimestampCounts DEF CalSafe
<1>3. Count(utc) \in Int /\ Count(rtc) \in Int
  BY TwoTimes
<1>4. stop \in Int /\ start \in Int /\ start - stop >= 1440
  BY <1>1, <1>2, <1>3 DEF CalSafe, Apart
<1> HIDE DEF stop, start
<1>5. apart \in Int /\ apart >= 1440
  BY <1>4
<1>6. calcTimeDiff(offer, rtc).diffDays = apart \div 1440
  BY DEF calcTimeDiff, stop, start
<1> HIDE DEF apart, offer
<1>7. apart \div 1440 # 0
  BY <1>5
<1> QED BY <1>6, <1>7 DEF OfferSetsClock, Close, offer

LEMMA RightDateOffered ==
  ASSUME CalSafe
  PROVE  Offers
<1> DEFINE local == utcTOlocal(utc)
<1>1. local = Later(utc, 330) /\ local.yy \in {utc.yy, utc.yy + 1} /\ utc.yy \in 23..98
  BY LocalTime
<1>2. utc \in Time /\ local \in Time
  BY LocalTime DEF CalSafe, OfCalendar
<1> HIDE DEF local
<1>3. InRange(utc) <=> utc.yy <= 33
  BY <1>1, <1>2, TimeFields DEF InRange
<1>4. InRange(local) <=> local.yy <= 33
  BY <1>1, <1>2, TimeFields DEF InRange
<1>5. Offered(utc) <=> InRange(utc) /\ InRange(local)
  BY DEF Offered, local
<1>6. local.yy <= 33 => utc.yy <= 33
  BY <1>1
<1> QED BY <1>1, <1>3, <1>4, <1>5, <1>6 DEF Offers

\* A right date of the receiver, on whatever day of whatever year to 2098, becomes local time as
\* the calendar has it (utcTOlocal), is offered up to the end of 2033
\* (updateGpsDateTimeToBuff), and then sets a clock that has run without a date since power-up
\* (sync_time_modem).
THEOREM RightDatesTaken == CalSpec => []RightDateTaken
<1>1. CalSafe => RightDateTaken
  BY LocalTime, OfferTaken, RightDateOffered DEF RightDateTaken, LocalAhead
<1> QED BY <1>1, CalSafeAlways, PTL

\* timestampToMinutes counts every minute of the time between two dates of the receiver, over
\* months, leap days and years.
THEOREM MinutesCounted == CalSpec => MinutesCount
<1>1. ASSUME CalSafe, CalSafe', [CalNext]_calVars
      PROVE  [timestampToMinutes(utcTOlocal(utc)')
                = timestampToMinutes(utcTOlocal(utc)) + Lap]_calVars
  <2>1. CASE UNCHANGED calVars
    BY <2>1
  <2>2. CASE CalNext
    <3>1. utc' = Later(utc, Lap)
      BY <2>2 DEF CalNext
    <3>2. Count(utc') = Count(utc) + Lap /\ Count(utc) \in Int /\ Lap \in Int
      <4>1. OfCalendar(utc) /\ utc.yy \in 0..98 /\ Lap \in 0..1439 /\ Count(utc) \in Int
        BY <1>1, Bounds, TwoTimes
      <4> QED BY <3>1, <4>1, LaterCounts
    <3>3. timestampToMinutes(utcTOlocal(utc)) = Count(utc) + 330 - 1440 * 366
      BY <1>1, LocalTime
    <3>4. timestampToMinutes(utcTOlocal(utc')) = Count(utc') + 330 - 1440 * 366
      <4>1. OfCalendar(utc') /\ utc'.yy \in 23..98
        BY <1>1, Bounds DEF CalSafe
      <4> QED BY <4>1, LocalCounts
    <3> QED BY <3>2, <3>3, <3>4
  <2> QED BY <1>1, <2>1, <2>2
<1> QED BY <1>1, CalSafeAlways, PTL DEF CalSpec, MinutesCount
=============================================================================
