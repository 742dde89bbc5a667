------------------------------ MODULE Calendar ------------------------------
(***************************************************************************)
(* Dates and times: the shift of a GPS date from UTC to local time, which  *)
(* carries minutes, hours, days, months and years by hand, the test of its *)
(* range, and the difference of two times by which sync_time_modem decides *)
(* whether a date on offer is worth setting the clock.  Years have two     *)
(* digits, 0 is 2000.  Seconds take part in none of this.                  *)
(***************************************************************************)
EXTENDS Integers

\* MUTANT: no leap years.
LeapYearNever(year) == year = 400

isLeapYear(year) == (year % 4 = 0 /\ year % 100 # 0) \/ year % 400 = 0

\* utcTOlocal has the same table written out, without the 0.
getDaysOfMonth(month, year) ==
  CASE month = 2 -> IF isLeapYear(year) THEN 29 ELSE 28
    [] month \in {1, 3, 5, 7, 8, 10, 12} -> 31
    [] month \in {4, 6, 9, 11} -> 30
    [] OTHER -> 0

-----------------------------------------------------------------------------
\* MUTANT: a full unit is carried as well.
CarryFromFull(n, unit) == n \div unit

\* What is carried into the next unit, and what is left, once "unit" is full: days
\* and months count from 1, so a full one is carried only when it is exceeded.
CarryFrom(n, unit) == IF n > unit THEN n \div unit ELSE 0

RestOf(n, unit) == IF n > unit THEN n % unit ELSE n

utcTOlocal(t) ==
  LET min == t.min + 30
      hr == t.hr + 5 + min \div 60
      dd == t.dd + hr \div 24
      DayNum == getDaysOfMonth(t.mm, t.yy)
      mm == t.mm + CarryFrom(dd, DayNum)
  IN [min |-> min % 60, hr |-> hr % 24, dd |-> RestOf(dd, DayNum), mm |-> RestOf(mm, 12),
      yy |-> t.yy + CarryFrom(mm, 12)]

\* The years the program believes in: DEFAULT_YEAR and the YEAR_OFFSET after it.
InRange(t) ==
  /\ t.yy \in 23..33 /\ t.mm \in 1..12 /\ t.dd \in 1..31
  /\ t.hr \in 0..23 /\ t.min \in 0..59

\* updateGpsDateTimeToBuff puts a UTC date on offer if it is in range before and after
\* the shift.
Offered(utc) == InRange(utc) /\ InRange(utcTOlocal(utc))

-----------------------------------------------------------------------------
\* MUTANT: the month itself counts as over.
DaysThroughMonth(month, year) ==
  LET before[m \in 0..12] == IF m = 0 THEN 0 ELSE before[m - 1] + getDaysOfMonth(m, year)
  IN before[month]

\* Whole days before the month in its year, and before the year from year 1 on.
DaysToMonth(month, year) ==
  LET before[m \in 0..11] == IF m = 0 THEN 0 ELSE before[m - 1] + getDaysOfMonth(m, year)
  IN before[month - 1]

DaysToYear(year) ==
  LET before[y \in 0..99] ==
        IF y <= 1 THEN 0 ELSE before[y - 1] + IF isLeapYear(y - 1) THEN 366 ELSE 365
  IN before[year]

timestampToMinutes(t) ==
  t.min + 60 * t.hr + 1440 * (t.dd + DaysToMonth(t.mm, t.yy) + DaysToYear(t.yy))

\* The days, hours and minutes between two times, whichever is the earlier.
calcTimeDiff(start, stop) ==
  LET minutes == timestampToMinutes(stop) - timestampToMinutes(start)
      apart == IF minutes < 0 THEN - minutes ELSE minutes
  IN [diffDays |-> apart \div 1440, diffHrs |-> (apart % 1440) \div 60, diffMins |-> apart % 60]

\* sync_time_modem leaves the clock as it is.
Close(offer, rtc) ==
  LET diff == calcTimeDiff(offer, rtc)
  IN diff.diffMins \in 1..10 /\ diff.diffHrs = 0 /\ diff.diffDays = 0
=============================================================================
