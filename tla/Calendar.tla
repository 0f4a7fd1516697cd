------------------------------- MODULE Calendar -------------------------------
(***************************************************************************)
(* The vendor's Time library and BCD conversions, as the clock drivers use *)
(* them (both external), the rules of daylight saving time that the        *)
(* drivers' header quotes, and the fields of a formatted time.             *)
(*                                                                         *)
(* Dates are those of 2000 to 2038: a leap year every four years, and a    *)
(* Unix time that is a positive int32_t.                                   *)
(***************************************************************************)
EXTENDS Integers, Sequences

CONSTANT
  Instants       (* Unix times at which something happens                  *)

FIRST_SECOND == 946684800      \* 1 January 2000
LAST_SECOND32 == 2147483647    \* the largest int32_t

ASSUME InstantsAssumption ==
  \A t \in Instants : t \in Int /\ t >= FIRST_SECOND /\ t <= LAST_SECOND32

HOUR_SECONDS == 3600
DAY_SECONDS == 24 * HOUR_SECONDS
MARCH == 3
NOVEMBER == 11

NoTime == [ss |-> 0, mn |-> 0, hh |-> 0, md |-> 0, wd |-> 0, mo |-> 0, yy |-> 0]

Leap(y) == y % 4 = 0
DaysBeforeMonth == <<0, 31, 59, 90, 120, 151, 181, 212, 243, 273, 304, 334, 365>>
MonthStart(y, m) ==
  IF m \in 1 .. 13 THEN DaysBeforeMonth[m] + (IF Leap(y) /\ m > 2 THEN 1 ELSE 0) ELSE 0
YearStart(y) == 365 * (y - 1970) + ((y - 1969) \div 4)
DayNumber(y, m, d) == YearStart(y) + MonthStart(y, m) + d - 1

(* 1 January 1970 was a Thursday; the library counts from Monday = 0.      *)
WeekDay(day) == (day + 3) % 7

Time_dateToEpoch(d) ==
  DayNumber(d.yy, d.mo, d.md) * DAY_SECONDS + d.hh * HOUR_SECONDS + d.mn * 60 + d.ss

Time_epochToDate(t) ==
  LET day == t \div DAY_SECONDS
      y == 1970 + (4 * day + 2) \div 1461
      m == CHOOSE n \in 1 .. 12 :
             /\ YearStart(y) + MonthStart(y, n) <= day
             /\ day < YearStart(y) + MonthStart(y, n + 1)
  IN  [yy |-> y, mo |-> m, md |-> day - YearStart(y) - MonthStart(y, m) + 1,
       wd |-> WeekDay(day), hh |-> (t % DAY_SECONDS) \div HOUR_SECONDS,
       mn |-> (t % HOUR_SECONDS) \div 60, ss |-> t % 60]

Dec2Bcd(n) == 16 * (n \div 10) + (n % 10)
Bcd2Dec(n) == 10 * (n \div 16) + (n % 16)

(* What is printed: the digits of each field, in the order they come in.   *)
Two(n) == <<n \div 10, n % 10>>
Four(n) == Two(n \div 100) \o Two(n % 100)
Hour12(h) == CASE h = 0 -> 12 [] h >= 13 -> h - 12 [] OTHER -> h

ClockText(d, mode12) == Two(IF mode12 THEN Hour12(d.hh) ELSE d.hh) \o Two(d.mn) \o Two(d.ss)
DateText(d) == Two(d.mo) \o Two(d.md) \o Four(d.yy)

-----------------------------------------------------------------------------
(* "begins at 2:00 a.m. on the second Sunday of March and ends at 2:00     *)
(* a.m. on the first Sunday of November", in the local time of a zone.     *)
Sunday(y, m, n) ==      \* the day number of the n-th Sunday of a month
  LET first == DayNumber(y, m, 1) IN first + (6 - WeekDay(first)) + 7 * (n - 1)

InDst(t, zone) ==
  LET standard == t + zone * HOUR_SECONDS
      y == Time_epochToDate(standard).yy
  IN  /\ Sunday(y, MARCH, 2) * DAY_SECONDS + 2 * HOUR_SECONDS <= standard
      /\ standard + HOUR_SECONDS < Sunday(y, NOVEMBER, 1) * DAY_SECONDS + 2 * HOUR_SECONDS

LocalTime(t, zone, dst) ==
  t + (zone + IF dst /\ InDst(t, zone) THEN 1 ELSE 0) * HOUR_SECONDS

=============================================================================
