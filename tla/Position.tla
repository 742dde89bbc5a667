------------------------------ MODULE Position ------------------------------
(***************************************************************************)
(* From the modem's records to the logged position.  gnss_pkt_parsing and  *)
(* gga_pkt_parsing write a record's fields into gps_info one after another *)
(* and stop at the first ill-formed one: what they wrote stays, so         *)
(* gps_info may be torn.  Every second, whatever the handler is doing,     *)
(* get_location copies gps_info into the row to be logged.                 *)
(*                                                                         *)
(* A field holds the number of the record it was taken from, 0 before the  *)
(* first; what the texts of a good field say is left out, but for          *)
(* altitudes, separations and satellites that read zero, and for a speed   *)
(* or a PDOP that get_location passes over because it does not begin with  *)
(* a digit.                                                                *)
(***************************************************************************)
EXTENDS Gps

CONSTANTS
  MaxRecords,       \* bound: records the modem gives
  ZeroRecords,      \* the records whose heights and satellites read zero
  NoSpeedRecords,   \* the records whose speed does not begin with a digit
  NoPdopRecords     \* the records whose PDOP does not begin with a digit

ASSUME RecordsAssumption ==
  /\ MaxRecords \in Nat
  /\ ZeroRecords \cup NoSpeedRecords \cup NoPdopRecords \subseteq 1..MaxRecords

VARIABLES
  records,       \* records parsed so far
  gns, gga,      \* gps_info: gns_info and gga_info, in the order of the parsers
  row            \* ram_data: for each value, the records it is made of

rowVars == <<records, gns, gga, row>>
posVars == <<gpsVars, atVars, rowVars>>

\* The place of each field in its parser's order.
GnsOrder == [latitude |-> 1, N_S |-> 2, longitude |-> 3, E_W |-> 4, date |-> 5,
             utc_time |-> 6, MSL_altitude |-> 7, sog |-> 8, pdop |-> 9]
GgaOrder == [quantity_of_gps |-> 1, MSL_altitude |-> 2, Geoid_separation |-> 3]
GnsField == DOMAIN GnsOrder
GgaField == DOMAIN GgaOrder
GnsFields == 9
GgaFields == 3

GnsValue == {"Latitude", "Longitude", "speed", "PDOP"}
GgaValue == {"quantity_of_gps", "msl_altitude", "geoid_separation"}
RowValue == GnsValue \cup GgaValue \cup {"ellipsoid_altitude"}

PosTypeOK ==
  /\ GpsTypeOK /\ AtTypeOK
  /\ records \in 0..MaxRecords
  /\ gns \in [GnsField -> 0..records]
  /\ gga \in [GgaField -> 0..records]
  /\ row \in [RowValue -> SUBSET (0..records)]

PosInit ==
  /\ GpsInit /\ AtInit
  /\ records = 0
  /\ gns = [f \in GnsField |-> 0]
  /\ gga = [f \in GgaField |-> 0]
  /\ row = [v \in RowValue |-> {0}]

-----------------------------------------------------------------------------
\* The first "good" fields of the new record go where the old ones were.
Overlay(info, order, good) ==
  [f \in DOMAIN order |-> IF order[f] <= good THEN records' ELSE info[f]]

\* Nothing is read from a record without a fix or with a comma missing: good = 0.
gnss_pkt_parsing(good) == gns' = Overlay(gns, GnsOrder, good) /\ UNCHANGED gga

\* Nor is one without a fix, or whose checksum is wrong or that of the empty record.
gga_pkt_parsing(good) == gga' = Overlay(gga, GgaOrder, good) /\ UNCHANGED gns

\* The record that this call of gps_handler parses, if it parses one.
Parse(reply, good) ==
  \/ /\ Polls("LOCATION") /\ Accepted(reply)
     /\ records < MaxRecords /\ records' = records + 1
     /\ good <= GnsFields /\ gnss_pkt_parsing(good)
  \/ /\ Polls("GPGGA_START") /\ Accepted(reply)
     /\ records < MaxRecords /\ records' = records + 1
     /\ good <= GgaFields /\ gga_pkt_parsing(good)
  \/ /\ ~ (Accepted(reply) /\ (Polls("LOCATION") \/ Polls("GPGGA_START")))
     /\ good = 0
     /\ UNCHANGED <<records, gns, gga>>

\* MUTANT: a record counts as good once its date and time are read.
ParsedDate(good) ==
  IF gps_cmd = "LOCATION" THEN good >= GnsOrder["utc_time"] ELSE good = GgaFields

\* A parser returns 1 when it has read every field.
Parsed(good) ==
  good = IF gps_cmd = "LOCATION" THEN GnsFields ELSE GgaFields

\* MUTANT: the bit is left as the handler has set it.
PassedBitKept(ret) == GpsPassBit(ret)

\* The GPS side of manage_gps_gprs: no position unless the handler has yielded.
PassedBit(ret) ==
  IF ret \in {"GPS_WAIT", "GPS_PASS"} /\ ~ NMEA_enabled' THEN GpsPassBit(ret) ELSE TRUE

LocationCall(reply, good, date) ==
  \E ret \in GpsStatus :
    /\ Parse(reply, good)
    /\ gps_handler(reply, Parsed(good), date, ret)
    /\ sys_gps_pass' = PassedBit(ret)
    /\ UNCHANGED row

\* Does a value of this record read other than zero?
NonZero(record) == record # 0 /\ record \notin ZeroRecords

\* Each value of the row is replaced if its text is there, speed and PDOP only if the text
\* begins with a digit, the number of satellites if it is not zero.
Copied ==
  [v \in RowValue |->
     CASE v = "Latitude" /\ gns.latitude # 0 -> {gns.latitude, gns.N_S}
       [] v = "Longitude" /\ gns.longitude # 0 -> {gns.longitude, gns.E_W}
       [] v = "speed" /\ gns.sog \notin NoSpeedRecords \cup {0} -> {gns.sog}
       [] v = "PDOP" /\ gns.pdop \notin NoPdopRecords \cup {0} -> {gns.pdop}
       [] v = "quantity_of_gps" /\ NonZero(gga.quantity_of_gps) -> {gga.quantity_of_gps}
       [] v = "msl_altitude" /\ gga.MSL_altitude # 0 -> {gga.MSL_altitude}
       [] v = "geoid_separation" /\ gga.Geoid_separation # 0 -> {gga.Geoid_separation}
       [] OTHER -> row[v]]

\* The sum of the two heights of the row, if neither is zero.
Ellipsoid ==
  LET terms == Copied["msl_altitude"] \cup Copied["geoid_separation"]
  IN IF \A r \in terms : NonZero(r) THEN terms ELSE row["ellipsoid_altitude"]

get_location ==
  /\ row' = [Copied EXCEPT !["ellipsoid_altitude"] = Ellipsoid]
  /\ UNCHANGED <<gpsVars, atVars, records, gns, gga>>

PosNext ==
  \/ \E reply \in Reply, good \in 0..GnsFields, date \in DateKind :
       LocationCall(reply, good, date)
  \/ get_location

PosSpec == PosInit /\ [][PosNext]_posVars

-----------------------------------------------------------------------------
(***************************************************************************)
(* Properties.                                                             *)
(***************************************************************************)
Whole(info) == \A f, g \in DOMAIN info : info[f] = info[g]

\* A torn gps_info is torn in the parsers' order: no field is older than one that is
\* read after it.  So a logged latitude is never older than the longitude beside it.
TornInOrder ==
  /\ \A f, g \in GnsField : GnsOrder[f] <= GnsOrder[g] => gns[f] >= gns[g]
  /\ \A f, g \in GgaField : GgaOrder[f] <= GgaOrder[g] => gga[f] >= gga[g]
  /\ \A r \in row["Latitude"], s \in row["Longitude"] : r >= s

\* While a record counts as good, its fields are all there and all its own; and while
\* a date is on offer, it is the date and the time of one record.
GoodIsWhole ==
  /\ gnss_sts => Whole(gns)
  /\ gga_sts => Whole(gga)
  /\ gps_date_avail => Whole(gns)

\* Records that break off tear gps_info only so far, and never while it counts as good.
PosInv == PosTypeOK /\ TornInOrder /\ GoodIsWhole

\* The values that get_location passes over in a record: those of an older one stay.
PassedOver(record) ==
  {v \in {"speed"} : record \in NoSpeedRecords} \cup {v \in {"PDOP"} : record \in NoPdopRecords}

\* A row logged while SYS_GPS_PASS says that there is a position is not torn: its
\* values are of one GNSS record and of one GGA record, but for a speed or PDOP that does
\* not begin with a digit in that very record.  (The two records may be of different
\* rounds, and a satellite count of zero leaves an earlier one.)
PassedRowWhole ==
  [][get_location /\ ~ sys_gps_pass =>
       /\ \E r \in 1..records : \A v \in GnsValue :
            row'[v] = IF v \in PassedOver(r) THEN row[v] ELSE {r}
       /\ \E r \in 1..records :
            \A v \in GgaValue \ {"quantity_of_gps"} : row'[v] = {r}]_posVars
=============================================================================
