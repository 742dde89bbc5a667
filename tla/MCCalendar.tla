----------------------------- MODULE MCCalendar -----------------------------
(***************************************************************************)
(* A GPS receiver that sends the right time every now and then, to a       *)
(* program whose clock has been running since it was powered up at the     *)
(* start of 2000 (rtc_setTime in init_peripherals) and has never been set. *)
(*                                                                         *)
(* The reference calendar is a table of month lengths and one leap year in *)
(* four, right from 2000 to 2099.                                          *)
(***************************************************************************)
EXTENDS Calendar

CONSTANTS
  Lap,        \* minutes from one date of the receiver to the next
  FirstDay,   \* the receiver's first date, at 00:00
  LastYear,   \* the receiver's last year
  OnFor       \* minutes since power-up at the first date

MonthLength(month, year) ==
  <<31, IF year % 4 = 0 THEN 29 ELSE 28, 31, 30, 31, 30, 31, 31, 30, 31, 30, 31>>[month]

Time == [yy : 0..99, mm : 1..12, dd : 1..31, hr : 0..23, min : 0..59]
OfCalendar(t) == t \in Time /\ t.dd <= MonthLength(t.mm, t.yy)

\* The receiver's dates are of the years the program knows, and of the same century; there
\* is a date a day, and the first comes within a day.
ASSUME CalendarAssumption ==
  /\ Lap \in 1..1439 /\ OnFor \subseteq 0..1439
  /\ OfCalendar(FirstDay) /\ LastYear \in 23..98 /\ FirstDay.yy \in 23..LastYear

VARIABLES utc, rtc

calVars == <<utc, rtc>>

DayAfter(t) ==
  IF t.dd < MonthLength(t.mm, t.yy) THEN [t EXCEPT !.dd = @ + 1]
  ELSE IF t.mm < 12 THEN [t EXCEPT !.dd = 1, !.mm = @ + 1]
  ELSE [t EXCEPT !.dd = 1, !.mm = 1, !.yy = @ + 1]

\* The time "minutes" later, less than a day.
Later(t, minutes) ==
  LET total == 60 * t.hr + t.min + minutes
      day == IF total >= 1440 THEN DayAfter(t) ELSE t
  IN [day EXCEPT !.hr = (total % 1440) \div 60, !.min = total % 60]

PowerUp == [yy |-> 0, mm |-> 1, dd |-> 1, hr |-> 0, min |-> 0]

\* The logger may have been powered up some minutes before the first date.
CalInit == utc = FirstDay /\ rtc \in {Later(PowerUp, on) : on \in OnFor}

CalNext ==
  /\ Later(utc, Lap).yy <= LastYear
  /\ utc' = Later(utc, Lap)
  /\ rtc' = Later(rtc, Lap)

CalSpec == CalInit /\ [][CalNext]_calVars

MCFirstDay == [yy |-> 23, mm |-> 1, dd |-> 1, hr |-> 0, min |-> 0]

-----------------------------------------------------------------------------
\* Local time is five and a half hours ahead, on whatever day and in whatever month
\* and year that is: utcTOlocal carries like the calendar.
LocalAhead == utcTOlocal(utc) = Later(utc, 330)

\* A right date is offered to the clock, up to the evening of the last day of 2033,
\* when it is 2034 already.
Offers == Offered(utc) <=> Later(utc, 330).yy <= 33

\* A date on offer sets the clock of a program that has been running since power-up
\* without a date: however long that was, and even if it shows the right time of day,
\* sync_time_modem does not take it for right already.
OfferSetsClock == ~ Close(utcTOlocal(utc), rtc)

\* A right date of the receiver makes its way to the clock, as local time.
RightDateTaken == LocalAhead /\ Offers /\ OfferSetsClock

\* The count of minutes that sync_time_modem compares goes as the time goes, over
\* months, leap days and years.
MinutesCount ==
  [][timestampToMinutes(utcTOlocal(utc)') = timestampToMinutes(utcTOlocal(utc)) + Lap]_calVars
=============================================================================
