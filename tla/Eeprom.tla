------------------------------- MODULE Eeprom -------------------------------
(***************************************************************************)
(* The date of the log, e2p_date: it names the file that records go to,    *)
(* follows the clock while the clock is set, and is kept in the flash so   *)
(* that the log goes on in the same file after a restart.  The clock has   *)
(* no battery: it is unset after every restart, until the modem offers a   *)
(* date.                                                                   *)
(*                                                                         *)
(* A date is a quarter of a day.  Dates are numbered; Year is the number   *)
(* of quarters in a year.                                                  *)
(***************************************************************************)
EXTENDS Integers

CONSTANTS
  LastDate,   \* bound: the last quarter
  Year        \* quarters in a year: day, month and QQ of two dates Year apart agree

ASSUME DateAssumption == LastDate \in Nat /\ Year \in Nat /\ Year > 1

VARIABLES
  now,            \* the time
  rtc_set,        \* the clock runs right; otherwise it shows a year before 2023
  ram_time,       \* ram_data.time: the time the record is of
  e2p_date,       \* the date of the log
  nvs,            \* the record in the flash
  e2p_read_date,  \* the record was good at start-up
  booted,         \* what was read at start-up
  nvs_failed      \* writing it has failed some time

flashVars == <<nvs, nvs_failed>>
dateVars == <<ram_time, e2p_date, e2p_read_date, booted>>
clockVars == <<now, rtc_set>>
e2pVars == <<clockVars, dateVars, flashVars>>

Date == 0..LastDate
\* A record that was never written (all bytes are 0, which sums up right), and one that was
\* written by something else and does not sum up.
Zero == -1
Spoilt == -2
Record == Date \cup {Zero, Spoilt}
\* A clock that is not set.
Unset == -1

E2pTypeOK ==
  /\ now \in Date /\ rtc_set \in BOOLEAN
  /\ ram_time \in Date \cup {Unset}
  /\ e2p_date \in Record /\ nvs \in Record /\ booted \in Record
  /\ e2p_read_date \in BOOLEAN /\ nvs_failed \in BOOLEAN

\* init_config: eepromReadDate.
eepromReadDate(record) ==
  /\ e2p_date = record /\ booted = record
  /\ e2p_read_date = (record # Spoilt)

E2pInit ==
  /\ now = 0 /\ rtc_set = FALSE /\ ram_time = Unset
  /\ nvs \in {Zero, Spoilt}
  /\ eepromReadDate(nvs)
  /\ nvs_failed = FALSE

-----------------------------------------------------------------------------
\* The program runs every second: it sees every quarter.
TimePasses ==
  /\ rtc_set => ram_time = now
  /\ now < LastDate /\ now' = now + 1
  /\ UNCHANGED <<rtc_set, dateVars, flashVars>>

\* eepromWriteDate, without error and with one: nobody learns of it, nobody tries again.
eepromWriteDate ==
  \/ nvs' = e2p_date' /\ UNCHANGED nvs_failed
  \/ nvs_failed' = TRUE /\ UNCHANGED nvs

\* MUTANT: one date is like another.
SameAlways(a, b) == a >= 0 /\ b >= 0

\* date_change_e2p compares day, month and quarter; the branch for the year is never
\* reached.
SameDate(a, b) == a >= 0 /\ b >= 0 /\ a % Year = b % Year

\* MUTANT: the date is not written.
DateChangeUnwritten ==
  /\ e2p_date' = IF e2p_read_date /\ SameDate(e2p_date, ram_time') THEN e2p_date ELSE ram_time'
  /\ UNCHANGED flashVars

date_change_e2p ==
  IF e2p_read_date /\ SameDate(e2p_date, ram_time')
  THEN UNCHANGED <<e2p_date, flashVars>>
  ELSE e2p_date' = ram_time' /\ eepromWriteDate

\* sync_time_modem: check_RTC_time reads the clock.  A date on offer is taken only when the
\* clock is not set, and shows from the next call on.
sync_time_modem ==
  /\ ram_time' = IF rtc_set THEN now ELSE Unset
  /\ IF rtc_set THEN date_change_e2p /\ UNCHANGED rtc_set
                ELSE rtc_set' \in BOOLEAN /\ UNCHANGED <<e2p_date, flashVars>>
  /\ UNCHANGED <<now, e2p_read_date, booted>>

\* A restart: the clock and the memory are lost.
Reboot ==
  /\ rtc_set' = FALSE /\ ram_time' = Unset
  /\ e2p_date' = nvs /\ booted' = nvs /\ e2p_read_date' = (nvs # Spoilt)
  /\ UNCHANGED <<now, nvs, nvs_failed>>

-----------------------------------------------------------------------------
\* What a restart would find is the date of the log, unless writing to the
\* flash has failed.
DateSurvives == ~ nvs_failed => nvs = e2p_date
=============================================================================
