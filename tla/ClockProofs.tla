----------------------------- MODULE ClockProofs -----------------------------
(***************************************************************************)
(* Theorems about the two clock drivers, for every set of instants from    *)
(* 2000 on: once it was given the true time a clock tells it, and scratch  *)
(* memory and clock of the DS1307 keep apart.  The lemmas are about the    *)
(* calendar and the BCD conversions.                                       *)
(***************************************************************************)
EXTENDS Rtc, StmRtc, TLAPS, SequenceTheorems

-----------------------------------------------------------------------------
(* Two digits survive the conversion to BCD and back, and the masks that   *)
(* the drivers put on a register do not cut them.                          *)
LEMMA BcdInverse ==
  ASSUME NEW n \in 0 .. 99
  PROVE  /\ Dec2Bcd(n) \in 0 .. 153 /\ Bcd2Dec(Dec2Bcd(n)) = n
         /\ (n <= 79 => Dec2Bcd(n) < 128)
         /\ (n <= 39 => Dec2Bcd(n) < 64)
         /\ (n <= 19 => Dec2Bcd(n) < 32)
  BY DEF Dec2Bcd, Bcd2Dec

(* The year computed from a day is the one the day lies in.                *)
LEMMA YearOfDay ==
  ASSUME NEW day \in Nat, NEW y, y = 1970 + (4 * day + 2) \div 1461
  PROVE  y \in Nat /\ y >= 1970 /\ YearStart(y) <= day /\ day < YearStart(y + 1)
  BY DEF YearStart

LEMMA YearLength ==
  ASSUME NEW y \in Int
  PROVE  /\ YearStart(y) \in Int
         /\ YearStart(y + 1) = YearStart(y) + (IF Leap(y) THEN 366 ELSE 365)
  BY DEF YearStart, Leap

LEMMA MonthStarts ==
  ASSUME NEW y \in Int, NEW k \in {0, 1}, k = IF Leap(y) THEN 1 ELSE 0
  PROVE  /\ MonthStart(y, 1) = 0 /\ MonthStart(y, 2) = 31 /\ MonthStart(y, 3) = 59 + k
         /\ MonthStart(y, 4) = 90 + k /\ MonthStart(y, 5) = 120 + k
         /\ MonthStart(y, 6) = 151 + k /\ MonthStart(y, 7) = 181 + k
         /\ MonthStart(y, 8) = 212 + k /\ MonthStart(y, 9) = 243 + k
         /\ MonthStart(y, 10) = 273 + k /\ MonthStart(y, 11) = 304 + k
         /\ MonthStart(y, 12) = 334 + k /\ MonthStart(y, 13) = 365 + k
  BY DEF MonthStart, DaysBeforeMonth

(* Every day of a year lies in one of its months, of at most 31 days.      *)
InMonth(y, m, day) ==
  YearStart(y) + MonthStart(y, m) <= day /\ day < YearStart(y) + MonthStart(y, m + 1)

LEMMA MonthOfDay ==
  ASSUME NEW y \in Int, NEW day \in Int, YearStart(y) <= day, day < YearStart(y + 1)
  PROVE  \E m \in 1 .. 12 : InMonth(y, m, day)
<1> DEFINE k == IF Leap(y) THEN 1 ELSE 0
<1>1. k \in {0, 1} OBVIOUS
<1>2. /\ MonthStart(y, 1) = 0 /\ MonthStart(y, 2) = 31 /\ MonthStart(y, 3) = 59 + k
      /\ MonthStart(y, 4) = 90 + k /\ MonthStart(y, 5) = 120 + k
      /\ MonthStart(y, 6) = 151 + k /\ MonthStart(y, 7) = 181 + k
      /\ MonthStart(y, 8) = 212 + k /\ MonthStart(y, 9) = 243 + k
      /\ MonthStart(y, 10) = 273 + k /\ MonthStart(y, 11) = 304 + k
      /\ MonthStart(y, 12) = 334 + k /\ MonthStart(y, 13) = 365 + k
  BY <1>1, MonthStarts
<1>3. day < YearStart(y) + 365 + k /\ YearStart(y) \in Int
  BY YearLength
<1> HIDE DEF k
<1> SUFFICES ASSUME \A m \in 1 .. 12 : ~InMonth(y, m, day) PROVE FALSE
  OBVIOUS
<1>4. /\ ~InMonth(y, 1, day) /\ ~InMonth(y, 2, day) /\ ~InMonth(y, 3, day)
      /\ ~InMonth(y, 4, day) /\ ~InMonth(y, 5, day) /\ ~InMonth(y, 6, day)
      /\ ~InMonth(y, 7, day) /\ ~InMonth(y, 8, day) /\ ~InMonth(y, 9, day)
      /\ ~InMonth(y, 10, day) /\ ~InMonth(y, 11, day) /\ ~InMonth(y, 12, day)
  OBVIOUS
<1> QED BY <1>1, <1>2, <1>3, <1>4 DEF InMonth

LEMMA MonthLength ==
  ASSUME NEW y \in Int, NEW m \in 1 .. 12
  PROVE  /\ MonthStart(y, m) \in 0 .. 335
         /\ MonthStart(y, m + 1) \in MonthStart(y, m) + 28 .. MonthStart(y, m) + 31
<1> DEFINE k == IF Leap(y) THEN 1 ELSE 0
<1>1. k \in {0, 1} OBVIOUS
<1>2. /\ MonthStart(y, 1) = 0 /\ MonthStart(y, 2) = 31 /\ MonthStart(y, 3) = 59 + k
      /\ MonthStart(y, 4) = 90 + k /\ MonthStart(y, 5) = 120 + k
      /\ MonthStart(y, 6) = 151 + k /\ MonthStart(y, 7) = 181 + k
      /\ MonthStart(y, 8) = 212 + k /\ MonthStart(y, 9) = 243 + k
      /\ MonthStart(y, 10) = 273 + k /\ MonthStart(y, 11) = 304 + k
      /\ MonthStart(y, 12) = 334 + k /\ MonthStart(y, 13) = 365 + k
  BY <1>1, MonthStarts
<1> HIDE DEF k
<1>3. m \in {1, 2, 3, 4, 5, 6, 7, 8, 9, 10, 11, 12} OBVIOUS
<1> QED BY <1>1, <1>2, <1>3

(* A time is its day and its hours, minutes and seconds.                   *)
LEMMA SplitDay ==
  ASSUME NEW t \in Nat
  PROVE  /\ t \div DAY_SECONDS \in Nat
         /\ (t % DAY_SECONDS) \div HOUR_SECONDS \in 0 .. 23
         /\ (t % HOUR_SECONDS) \div 60 \in 0 .. 59
         /\ t % 60 \in 0 .. 59
         /\ t = (t \div DAY_SECONDS) * DAY_SECONDS
                  + ((t % DAY_SECONDS) \div HOUR_SECONDS) * HOUR_SECONDS
                  + ((t % HOUR_SECONDS) \div 60) * 60 + (t % 60)
  BY DEF DAY_SECONDS, HOUR_SECONDS

(* The fields of a time are in their ranges and make the time again.       *)
LEMMA EpochFields ==
  ASSUME NEW t \in Nat, NEW d, d = Time_epochToDate(t)
  PROVE  /\ d.ss \in 0 .. 59 /\ d.mn \in 0 .. 59 /\ d.hh \in 0 .. 23
         /\ d.md \in 1 .. 31 /\ d.mo \in 1 .. 12 /\ d.wd = WeekDay(t \div DAY_SECONDS)
         /\ d.yy = 1970 + (4 * (t \div DAY_SECONDS) + 2) \div 1461
         /\ InMonth(d.yy, d.mo, t \div DAY_SECONDS)
         /\ DayNumber(d.yy, d.mo, d.md) = t \div DAY_SECONDS
         /\ Time_dateToEpoch(d) = t
<1> DEFINE day == t \div DAY_SECONDS
           y == 1970 + (4 * day + 2) \div 1461
           m == CHOOSE n \in 1 .. 12 : InMonth(y, n, day)
<1>1. /\ d.yy = y /\ d.mo = m /\ d.md = day - YearStart(y) - MonthStart(y, m) + 1
      /\ d.wd = WeekDay(day) /\ d.hh = (t % DAY_SECONDS) \div HOUR_SECONDS
      /\ d.mn = (t % HOUR_SECONDS) \div 60 /\ d.ss = t % 60
  BY DEF Time_epochToDate, InMonth
<1>2. day \in Nat BY SplitDay
<1>3. y \in Nat /\ YearStart(y) <= day /\ day < YearStart(y + 1)
  BY <1>2, YearOfDay
<1>4. YearStart(y) \in Int BY <1>3, YearLength
<1> HIDE DEF day, y
<1>5. m \in 1 .. 12 /\ InMonth(y, m, day)
  <2>1. \E n \in 1 .. 12 : InMonth(y, n, day) BY <1>2, <1>3, MonthOfDay
  <2> QED BY <2>1
<1> HIDE DEF m
<1>6. /\ MonthStart(y, m) \in 0 .. 335
      /\ MonthStart(y, m + 1) \in MonthStart(y, m) + 28 .. MonthStart(y, m) + 31
  <2>1. y \in Int BY <1>3
  <2>2. m \in 1 .. 12 BY <1>5
  <2> QED BY <2>1, <2>2, MonthLength
<1>7. d.md \in 1 .. 31
  <2>1. day - YearStart(y) - MonthStart(y, m) + 1 \in 1 .. 31
    <3>1. YearStart(y) + MonthStart(y, m) <= day /\ day < YearStart(y) + MonthStart(y, m + 1)
      BY <1>5 DEF InMonth
    <3>2. /\ MonthStart(y, m) \in Int /\ MonthStart(y, m + 1) \in Int
          /\ MonthStart(y, m + 1) <= MonthStart(y, m) + 31
      BY <1>6
    <3> QED BY <3>1, <3>2, <1>2, <1>4
  <2> QED BY <2>1, <1>1
<1>8. DayNumber(d.yy, d.mo, d.md) = day
  BY <1>1, <1>2, <1>4, <1>6 DEF DayNumber
<1>9. Time_dateToEpoch(d) = t
  <2>1. t = day * DAY_SECONDS + d.hh * HOUR_SECONDS + d.mn * 60 + d.ss
    BY <1>1, SplitDay DEF day
  <2> QED BY <2>1, <1>8 DEF Time_dateToEpoch
<1>10. d.hh \in 0 .. 23 /\ d.mn \in 0 .. 59 /\ d.ss \in 0 .. 59
  BY <1>1, SplitDay
<1>11. /\ d.mo \in 1 .. 12 /\ InMonth(d.yy, d.mo, day)
      /\ d.yy = 1970 + (4 * day + 2) \div 1461
  BY <1>1, <1>5 DEF y
<1> QED BY <1>1, <1>7, <1>8, <1>9, <1>10, <1>11 DEF day

-----------------------------------------------------------------------------
(* The days from 2000 to the end of the signed 32-bit seconds.             *)
LEMMA YearsOfDays ==
  ASSUME NEW day, day \in 10957 .. 24855, NEW y, y = 1970 + (4 * day + 2) \div 1461
  PROVE  y \in 2000 .. 2038
<1> DEFINE x == 4 * day + 2
           q == x \div 1461
<1>1. x \in Int /\ x >= 43830 /\ x <= 99422 OBVIOUS
<1>2. y = 1970 + q OBVIOUS
<1> HIDE DEF x
<1>3. q \in Int /\ q >= 30 /\ q <= 68 BY <1>1
<1> HIDE DEF q
<1> QED BY <1>2, <1>3

(* The instants are in years that have two digits behind 2000.             *)
LEMMA InstantFields ==
  ASSUME NEW t \in Instants, NEW d, d = Time_epochToDate(t)
  PROVE  /\ t \in Nat
         /\ d.ss \in 0 .. 59 /\ d.mn \in 0 .. 59 /\ d.hh \in 0 .. 23
         /\ d.md \in 1 .. 31 /\ d.mo \in 1 .. 12 /\ d.yy \in 2000 .. 2038
         /\ d.wd = WeekDay(t \div DAY_SECONDS) /\ Time_dateToEpoch(d) = t
<1>1. t \in Int /\ t >= FIRST_SECOND /\ t <= LAST_SECOND32 BY InstantsAssumption
<1>2. t \in Nat BY <1>1, SMT DEF FIRST_SECOND, LAST_SECOND32
<1>3. t \div DAY_SECONDS \in 10957 .. 24855
  BY <1>1, SMT DEF FIRST_SECOND, LAST_SECOND32, DAY_SECONDS, HOUR_SECONDS
<1>4. /\ d.ss \in 0 .. 59 /\ d.mn \in 0 .. 59 /\ d.hh \in 0 .. 23
      /\ d.md \in 1 .. 31 /\ d.mo \in 1 .. 12 /\ d.wd = WeekDay(t \div DAY_SECONDS)
      /\ d.yy = 1970 + (4 * (t \div DAY_SECONDS) + 2) \div 1461
      /\ Time_dateToEpoch(d) = t
  BY <1>2, EpochFields
<1>5. d.yy \in 2000 .. 2038
  <2>1. d.yy = 1970 + (4 * (t \div DAY_SECONDS) + 2) \div 1461 BY <1>4
  <2> QED BY <1>3, <2>1, YearsOfDays
<1> QED BY <1>2, <1>4, <1>5

LEMMA WeekDayRange ==
  ASSUME NEW day \in Int
  PROVE  WeekDay(day) \in 0 .. 6
  BY DEF WeekDay

(* What is printed of a time depends on its fields only.                   *)
SameFields(g, d) ==
  /\ g.ss = d.ss /\ g.mn = d.mn /\ g.hh = d.hh
  /\ g.md = d.md /\ g.mo = d.mo /\ g.yy = d.yy

LEMMA SameText ==
  ASSUME NEW g, NEW d, SameFields(g, d)
  PROVE  /\ Time_dateToEpoch(g) = Time_dateToEpoch(d)
         /\ ClockText(g, FALSE) = ClockText(d, FALSE)
         /\ DateText(g) = DateText(d)
<1>1. /\ g.ss = d.ss /\ g.mn = d.mn /\ g.hh = d.hh
      /\ g.md = d.md /\ g.mo = d.mo /\ g.yy = d.yy
  BY DEF SameFields
<1> QED BY <1>1 DEF Time_dateToEpoch, ClockText, DateText

-----------------------------------------------------------------------------
(* The clock of the STM32.                                                 *)
TimeFields == [hour : 0 .. 63, minute : 0 .. 127, second : 0 .. 255]
DateFields == [year : 0 .. 255, week_day : 0 .. 7, month : 0 .. 31, month_day : 0 .. 63]

LEMMA BcdNat ==
  ASSUME NEW n \in Nat
  PROVE  Dec2Bcd(n) \in Nat /\ Bcd2Dec(n) \in Nat
  BY DEF Dec2Bcd, Bcd2Dec

(* Any registers, also those that no date makes, count as some time.       *)
LEMMA EpochNat ==
  ASSUME NEW d, d.ss \in Nat, d.mn \in Nat, d.hh \in Nat, d.md \in Nat, d.mo \in Nat,
         d.yy \in Nat, d.yy >= 2000
  PROVE  Time_dateToEpoch(d) \in Nat
<1>1. MonthStart(d.yy, d.mo) \in Nat
  <2>1. CASE d.mo \in 1 .. 13
    <3> DEFINE k == IF Leap(d.yy) THEN 1 ELSE 0
    <3>1. k \in {0, 1} OBVIOUS
    <3>2. \A m \in 1 .. 13 : MonthStart(d.yy, m) \in Nat
      <4> DEFINE y == d.yy
      <4>1. y \in Int OBVIOUS
      <4>2. /\ MonthStart(y, 1) = 0 /\ MonthStart(y, 2) = 31 /\ MonthStart(y, 3) = 59 + k
            /\ MonthStart(y, 4) = 90 + k /\ MonthStart(y, 5) = 120 + k
            /\ MonthStart(y, 6) = 151 + k /\ MonthStart(y, 7) = 181 + k
            /\ MonthStart(y, 8) = 212 + k /\ MonthStart(y, 9) = 243 + k
            /\ MonthStart(y, 10) = 273 + k /\ MonthStart(y, 11) = 304 + k
            /\ MonthStart(y, 12) = 334 + k /\ MonthStart(y, 13) = 365 + k
        BY <3>1, <4>1, MonthStarts
      <4> HIDE DEF k, y
      <4>3. \A m \in 1 .. 13 : MonthStart(y, m) \in Nat BY <3>1, <4>2
      <4> QED BY <4>3 DEF y
    <3> QED BY <2>1, <3>2
  <2>2. CASE d.mo \notin 1 .. 13
    BY <2>2 DEF MonthStart
  <2> QED BY <2>1, <2>2
<1>2. YearStart(d.yy) \in Int /\ YearStart(d.yy) >= 10957
  BY DEF YearStart
<1>3. DayNumber(d.yy, d.mo, d.md) \in Nat
  BY <1>1, <1>2 DEF DayNumber
<1> QED BY <1>3 DEF Time_dateToEpoch, DAY_SECONDS, HOUR_SECONDS

-----------------------------------------------------------------------------
(* The clock of the STM32.                                                 *)

LEMMA StmRegistersTyped ==
  ASSUME NEW t \in Nat, NEW d, d = Time_epochToDate(t)
  PROVE  /\ TimeRegister(d) \in TimeFields
         /\ DateRegister(d) \in DateFields
<1>1. /\ d.ss \in Int /\ d.mn \in Int /\ d.hh \in Int /\ d.md \in Int /\ d.mo \in Int
      /\ d.wd \in Int /\ d.yy \in Int
  <2>1. t \div DAY_SECONDS \in Nat BY SplitDay
  <2>2. d.wd \in Int /\ d.yy \in Int BY <2>1, EpochFields, WeekDayRange
  <2> QED BY <2>2, EpochFields
<1>2. \A n \in Int : /\ Dec2Bcd(n) % 64 \in 0 .. 63 /\ Dec2Bcd(n) % 128 \in 0 .. 127
                     /\ Dec2Bcd(n) % 256 \in 0 .. 255 /\ Dec2Bcd(n) % 8 \in 0 .. 7
                     /\ Dec2Bcd(n) % 32 \in 0 .. 31
  BY DEF Dec2Bcd
<1>3. /\ Dec2Bcd(d.hh) % 64 \in 0 .. 63 /\ Dec2Bcd(d.mn) % 128 \in 0 .. 127
      /\ Dec2Bcd(d.ss) % 256 \in 0 .. 255 /\ Dec2Bcd(d.yy - 2000) % 256 \in 0 .. 255
      /\ Dec2Bcd(d.wd + 1) % 8 \in 0 .. 7 /\ Dec2Bcd(d.mo) % 32 \in 0 .. 31
      /\ Dec2Bcd(d.md) % 64 \in 0 .. 63
  <2>1. d.yy - 2000 \in Int /\ d.wd + 1 \in Int BY <1>1
  <2> QED BY <1>1, <1>2, <2>1
<1> QED BY <1>3 DEF TimeRegister, DateRegister, TimeFields, DateFields

(* What is written is read back.                                           *)
LEMMA StmReads ==
  ASSUME NEW t \in Instants, NEW d, d = Time_epochToDate(t), NEW c,
         c.tr = TimeRegister(d), c.dr = DateRegister(d)
  PROVE  /\ SameFields(stmrtc_get_GMT_time(c), d)
         /\ stmrtc_get_GMT_time(c).wd = d.wd + 1
<1>1. /\ d.ss \in 0 .. 59 /\ d.mn \in 0 .. 59 /\ d.hh \in 0 .. 23
      /\ d.md \in 1 .. 31 /\ d.mo \in 1 .. 12 /\ d.yy - 2000 \in 0 .. 38 /\ d.wd + 1 \in 1 .. 7
  <2>1. t \in Nat /\ d.wd = WeekDay(t \div DAY_SECONDS) BY InstantFields
  <2>2. d.wd \in 0 .. 6 BY <2>1, SplitDay, WeekDayRange
  <2>3. /\ d.ss \in 0 .. 59 /\ d.mn \in 0 .. 59 /\ d.hh \in 0 .. 23
        /\ d.md \in 1 .. 31 /\ d.mo \in 1 .. 12 /\ d.yy \in 2000 .. 2038
    BY InstantFields
  <2> QED BY <2>2, <2>3
<1>2. \A n \in 0 .. 59 : Bcd2Dec(Dec2Bcd(n) % 256) = n /\ Bcd2Dec(Dec2Bcd(n) % 128) = n
  BY DEF Dec2Bcd, Bcd2Dec
<1>3. \A n \in 0 .. 31 : Bcd2Dec(Dec2Bcd(n) % 64) = n
  BY DEF Dec2Bcd, Bcd2Dec
<1>4. \A n \in 0 .. 12 : Bcd2Dec(Dec2Bcd(n) % 32) = n
  BY DEF Dec2Bcd, Bcd2Dec
<1>5. \A n \in 0 .. 7 : Bcd2Dec(Dec2Bcd(n) % 8) = n
  BY DEF Dec2Bcd, Bcd2Dec
<1>6. /\ c.tr.hour = Dec2Bcd(d.hh) % 64 /\ c.tr.minute = Dec2Bcd(d.mn) % 128
      /\ c.tr.second = Dec2Bcd(d.ss) % 256 /\ c.dr.year = Dec2Bcd(d.yy - 2000) % 256
      /\ c.dr.week_day = Dec2Bcd(d.wd + 1) % 8 /\ c.dr.month = Dec2Bcd(d.mo) % 32
      /\ c.dr.month_day = Dec2Bcd(d.md) % 64
  BY DEF TimeRegister, DateRegister
<1>7. /\ Bcd2Dec(c.tr.hour) = d.hh /\ Bcd2Dec(c.tr.minute) = d.mn
      /\ Bcd2Dec(c.tr.second) = d.ss /\ Bcd2Dec(c.dr.year) = d.yy - 2000
      /\ Bcd2Dec(c.dr.week_day) = d.wd + 1 /\ Bcd2Dec(c.dr.month) = d.mo
      /\ Bcd2Dec(c.dr.month_day) = d.md
  BY <1>1, <1>2, <1>3, <1>4, <1>5, <1>6
<1>8. Bcd2Dec(c.dr.year) + 2000 = d.yy
  <2>1. d.yy \in Int BY InstantFields
  <2> QED BY <1>7, <2>1
<1> QED BY <1>7, <1>8 DEF SameFields, stmrtc_get_GMT_time

(* A complete setting writes both registers and leaves them locked.        *)
Shape(A, B) == [tr : A, dr : B, locked : BOOLEAN, initf : BOOLEAN]

StmRegisters == Shape(TimeFields, DateFields)

LEMMA LockedShape ==
  ASSUME NEW A, NEW B, NEW r \in Shape(A, B)
  PROVE  /\ [r EXCEPT !.locked = TRUE] \in Shape(A, B)
         /\ [r EXCEPT !.locked = TRUE].tr = r.tr /\ [r EXCEPT !.locked = TRUE].dr = r.dr
  BY DEF Shape

LEMMA ModeShape ==
  ASSUME NEW A, NEW B, NEW r \in Shape(A, B)
  PROVE  /\ RTC_EnterConfigMode(r) \in Shape(A, B) /\ Open(RTC_EnterConfigMode(r))
         /\ RTC_ExitConfigMode(r) \in Shape(A, B)
         /\ RTC_ExitConfigMode(r).tr = r.tr /\ RTC_ExitConfigMode(r).dr = r.dr
  BY DEF Shape, RTC_EnterConfigMode, RTC_ExitConfigMode, Open

LEMMA TimeShape ==
  ASSUME NEW A, NEW B, NEW r \in Shape(A, B), NEW a \in A
  PROVE  /\ [r EXCEPT !.tr = a] \in Shape(A, B) /\ [r EXCEPT !.tr = a].tr = a
         /\ [r EXCEPT !.tr = a].locked = r.locked /\ [r EXCEPT !.tr = a].initf = r.initf
  BY DEF Shape

LEMMA DateShape ==
  ASSUME NEW A, NEW B, NEW r \in Shape(A, B), NEW b \in B
  PROVE  /\ [r EXCEPT !.dr = b] \in Shape(A, B) /\ [r EXCEPT !.dr = b].dr = b
         /\ [r EXCEPT !.dr = b].tr = r.tr
  BY DEF Shape

LEMMA StmSet ==
  ASSUME NEW A, NEW B, NEW c \in Shape(A, B), NEW d, TimeRegister(d) \in A, DateRegister(d) \in B
  PROVE  /\ stmrtc_set_time(c, d) \in Shape(A, B)
         /\ stmrtc_set_time(c, d).tr = TimeRegister(d)
         /\ stmrtc_set_time(c, d).dr = DateRegister(d)
<1> DEFINE open == RTC_EnterConfigMode(c)
           timed == WriteTR(open, TimeRegister(d))
           dated == WriteDR(timed, DateRegister(d))
<1>1. open \in Shape(A, B) /\ Open(open)
  BY ModeShape
<1> HIDE DEF open
<1>2. timed \in Shape(A, B) /\ Open(timed) /\ timed.tr = TimeRegister(d)
  BY <1>1, TimeShape DEF WriteTR, Open
<1> HIDE DEF timed
<1>3. dated \in Shape(A, B) /\ dated.tr = TimeRegister(d) /\ dated.dr = DateRegister(d)
  BY <1>2, DateShape DEF WriteDR
<1> HIDE DEF dated
<1>4. stmrtc_set_time(c, d) = RTC_ExitConfigMode(dated)
  BY DEF stmrtc_set_time, dated, timed, open
<1> QED BY <1>3, <1>4, ModeShape

(* A clock that was set shows the true time; the date it shows makes the   *)
(* true time again, so that it also shows the true time after any wait.    *)
StmShows(t) ==
  stm.tr = TimeRegister(Time_epochToDate(t)) /\ stm.dr = DateRegister(Time_epochToDate(t))

StmInv == StmTypeOK /\ (stm_told => StmShows(stm_now))

LEMMA StmInitInv == StmInit => StmInv
<1> SUFFICES ASSUME StmInit PROVE StmInv
  OBVIOUS
<1> DEFINE t0 == DayNumber(2000, 1, 1) * DAY_SECONDS
           d == Time_epochToDate(t0)
<1>1. t0 \in Nat
  BY DEF DayNumber, YearStart, MonthStart, DaysBeforeMonth, Leap, DAY_SECONDS, HOUR_SECONDS
<1> HIDE DEF t0
<1>2. /\ TimeRegister(d) \in TimeFields
      /\ DateRegister(d) \in DateFields
  BY <1>1, StmRegistersTyped
<1> HIDE DEF d
<1>3. stm = [tr |-> TimeRegister(d), dr |-> DateRegister(d), locked |-> TRUE, initf |-> FALSE]
  BY DEF StmInit, BackupDomain, d, t0
<1>4. stm \in StmRegisters BY <1>2, <1>3 DEF StmRegisters, Shape
<1> QED BY <1>4 DEF StmInit, StmInv, StmTypeOK, StmRegisters, Shape, TimeFields, DateFields

LEMMA StmTimeTyped ==
  ASSUME stm \in StmRegisters
  PROVE  stmrtc_get_GMT_unix_time \in Nat
<1> DEFINE g == stmrtc_get_GMT_time(stm)
<1>1. /\ stm.tr.hour \in Nat /\ stm.tr.minute \in Nat /\ stm.tr.second \in Nat
      /\ stm.dr.year \in Nat /\ stm.dr.month \in Nat /\ stm.dr.month_day \in Nat
  BY DEF StmRegisters, Shape, TimeFields, DateFields
<1>2. /\ Bcd2Dec(stm.tr.hour) \in Nat /\ Bcd2Dec(stm.tr.minute) \in Nat
      /\ Bcd2Dec(stm.tr.second) \in Nat /\ Bcd2Dec(stm.dr.month) \in Nat
      /\ Bcd2Dec(stm.dr.month_day) \in Nat /\ Bcd2Dec(stm.dr.year) \in Nat
  BY <1>1, BcdNat
<1>3. /\ g.ss \in Nat /\ g.mn \in Nat /\ g.hh \in Nat /\ g.md \in Nat /\ g.mo \in Nat
      /\ g.yy \in Nat /\ g.yy >= 2000
  BY <1>2 DEF stmrtc_get_GMT_time
<1> HIDE DEF g
<1>4. Time_dateToEpoch(g) \in Nat BY <1>3, EpochNat
<1> QED BY <1>4 DEF g, stmrtc_get_GMT_unix_time

LEMMA StmTrueTime ==
  ASSUME NEW t \in Instants, StmShows(t)
  PROVE  stmrtc_get_GMT_unix_time = t
<1> DEFINE d == Time_epochToDate(t)
<1>1. SameFields(stmrtc_get_GMT_time(stm), d) BY StmReads DEF StmShows
<1>2. Time_dateToEpoch(stmrtc_get_GMT_time(stm)) = Time_dateToEpoch(d) BY <1>1, SameText
<1>3. Time_dateToEpoch(d) = t BY InstantFields
<1> QED BY <1>2, <1>3 DEF stmrtc_get_GMT_unix_time

(* The day of the week is counted, not computed from the date.             *)
LEMMA WeekDayCounted ==
  ASSUME NEW m \in Int, NEW n \in Int
  PROVE  /\ Dec2Bcd(WeekDay(n) + 1) % 8 = WeekDay(n) + 1
         /\ ((WeekDay(m) + (n - m)) % 7) = WeekDay(n)
<1>1. \A k \in 1 .. 7 : Dec2Bcd(k) % 8 = k BY DEF Dec2Bcd
<1>2. WeekDay(n) + 1 \in 1 .. 7 BY DEF WeekDay
<1>3. ((WeekDay(m) + (n - m)) % 7) = WeekDay(n) BY DEF WeekDay
<1> QED BY <1>1, <1>2, <1>3

LEMMA StmStepInv == StmInv /\ [StmNext]_stmVars => StmInv'
<1> SUFFICES ASSUME StmInv, [StmNext]_stmVars PROVE StmInv'
  OBVIOUS
<1>1. /\ stm \in StmRegisters /\ DOMAIN stm_local = DOMAIN NoTime
      /\ stm_now \in Instants /\ stm_told \in BOOLEAN
      /\ (stm_told => StmShows(stm_now))
  BY DEF StmInv, StmTypeOK, StmRegisters, Shape, TimeFields, DateFields
<1> SUFFICES /\ stm' \in StmRegisters /\ DOMAIN stm_local' = DOMAIN NoTime
             /\ stm_now' \in Instants /\ stm_told' \in BOOLEAN
             /\ (stm_told' => StmShows(stm_now)')
  BY DEF StmInv, StmTypeOK, StmRegisters, Shape, TimeFields, DateFields
<1>2. CASE StmWait
  <2> DEFINE before == stmrtc_get_GMT_unix_time
  <2>1. PICK t \in Instants :
          /\ t > stm_now /\ stm_now' = t
          /\ stm' = [stm EXCEPT
               !.tr = TimeRegister(Time_epochToDate(before + t - stm_now)),
               !.dr = [DateRegister(Time_epochToDate(before + t - stm_now)) EXCEPT
                 !.week_day = ((stm.dr.week_day - 1 + ((before + t - stm_now) \div DAY_SECONDS
                                 - before \div DAY_SECONDS)) % 7) + 1]]
    BY <1>2 DEF StmWait
  <2>2. stm_conf' = stm_conf /\ stm_local' = stm_local /\ stm_told' = stm_told
    BY <1>2 DEF StmWait
  <2>3. before \in Nat BY <1>1, StmTimeTyped
  <2> HIDE DEF before
  <2> DEFINE e == before + t - stm_now
             d == Time_epochToDate(e)
             w == ((stm.dr.week_day - 1 + (e \div DAY_SECONDS - before \div DAY_SECONDS)) % 7) + 1
  <2>4. e \in Nat /\ t \in Nat /\ stm_now \in Nat
    <3>1. t \in Nat /\ stm_now \in Nat BY <1>1, InstantFields
    <3> QED BY <3>1, <2>1, <2>3
  <2>5. stm.dr.week_day \in Int BY <1>1 DEF StmRegisters, Shape, DateFields
  <2>6. e \div DAY_SECONDS \in Int /\ before \div DAY_SECONDS \in Int
    BY <2>3, <2>4, SplitDay
  <2>7. w \in 0 .. 7 BY <2>5, <2>6
  <2>8. /\ TimeRegister(d) \in TimeFields
        /\ DateRegister(d) \in DateFields
    BY <2>4, StmRegistersTyped
  <2>9. stm' = [stm EXCEPT !.tr = TimeRegister(d), !.dr = [DateRegister(d) EXCEPT !.week_day = w]]
    BY <2>1
  <2>10. stm_told => e = t /\ [DateRegister(d) EXCEPT !.week_day = w] = DateRegister(d)
    <3> SUFFICES ASSUME stm_told
                 PROVE  e = t /\ [DateRegister(d) EXCEPT !.week_day = w] = DateRegister(d)
      OBVIOUS
    <3>1. before = stm_now BY <1>1, StmTrueTime DEF before
    <3>2. e = t BY <3>1, <2>4
    <3>3. stm.dr.week_day = WeekDay(before \div DAY_SECONDS) + 1
      <4>1. stm.dr = DateRegister(Time_epochToDate(stm_now)) BY <1>1 DEF StmShows
      <4>2. stm.dr.week_day = Dec2Bcd(Time_epochToDate(stm_now).wd + 1) % 8
        BY <4>1 DEF DateRegister
      <4>3. Time_epochToDate(stm_now).wd = WeekDay(before \div DAY_SECONDS)
        BY <1>1, <3>1, InstantFields
      <4> QED BY <4>2, <4>3, <2>6, WeekDayCounted
    <3>4. w = WeekDay(e \div DAY_SECONDS) + 1
      <4>1. WeekDay(before \div DAY_SECONDS) \in Int BY <2>6, WeekDayRange
      <4>2. ((WeekDay(before \div DAY_SECONDS) + (e \div DAY_SECONDS - before \div DAY_SECONDS)) % 7)
              = WeekDay(e \div DAY_SECONDS)
        BY <2>6, WeekDayCounted
      <4>3. stm.dr.week_day - 1 = WeekDay(before \div DAY_SECONDS) BY <3>3, <4>1
      <4> QED BY <4>2, <4>3
    <3>5. DateRegister(d).week_day = w
      <4>1. d.wd = WeekDay(e \div DAY_SECONDS) BY <2>4, EpochFields
      <4>2. DateRegister(d).week_day = Dec2Bcd(d.wd + 1) % 8 BY DEF DateRegister
      <4> QED BY <4>1, <4>2, <3>4, <2>6, WeekDayCounted
    <3>6. ASSUME NEW r \in DateFields,
                 NEW v, r.week_day = v
          PROVE  [r EXCEPT !.week_day = v] = r
      BY <3>6 DEF DateFields
    <3> HIDE DEF d, w
    <3> QED BY <3>2, <3>5, <3>6, <2>8
  <2> HIDE DEF d, w, e
  <2>11. [DateRegister(d) EXCEPT !.week_day = w]
           \in DateFields
    BY <2>7, <2>8 DEF DateFields
  <2>12. stm' \in StmRegisters /\ stm'.tr = TimeRegister(d)
           /\ stm'.dr = [DateRegister(d) EXCEPT !.week_day = w]
    <3> DEFINE b == [DateRegister(d) EXCEPT !.week_day = w]
               a == TimeRegister(d)
    <3>1. a \in TimeFields /\ b \in DateFields /\ stm' = [stm EXCEPT !.tr = a, !.dr = b]
      BY <2>8, <2>9, <2>11
    <3> HIDE DEF a, b
    <3>2. stm' \in StmRegisters /\ stm'.tr = a /\ stm'.dr = b
      <4>1. stm \in Shape(TimeFields, DateFields) BY <1>1 DEF StmRegisters
      <4>2. /\ [stm EXCEPT !.tr = a, !.dr = b] \in Shape(TimeFields, DateFields)
            /\ [stm EXCEPT !.tr = a, !.dr = b].tr = a /\ [stm EXCEPT !.tr = a, !.dr = b].dr = b
        BY <3>1, <4>1 DEF Shape
      <4> QED BY <3>1, <4>2 DEF StmRegisters
    <3> QED BY <3>2 DEF a, b
  <2>13. stm_told' => StmShows(stm_now)'
    BY <2>1, <2>2, <2>10, <2>12 DEF StmShows, d
  <2> QED BY <1>1, <2>1, <2>2, <2>12, <2>13
<1>3. CASE stmrtc_get_local_time
  <2>1. UNCHANGED <<stm, stm_conf, stm_now, stm_told>> BY <1>3 DEF stmrtc_get_local_time
  <2>2. \A x : DOMAIN Time_epochToDate(x) = DOMAIN NoTime
    BY DEF Time_epochToDate, NoTime
  <2>3. DOMAIN stm_local' = DOMAIN NoTime BY <1>3, <2>2 DEF stmrtc_get_local_time
  <2> QED BY <1>1, <2>1, <2>3 DEF StmShows
<1>4. ASSUME NEW b \in StmBoots, stmrtc_init(b)
      PROVE  /\ stm' \in StmRegisters /\ DOMAIN stm_local' = DOMAIN NoTime
             /\ stm_now' \in Instants /\ stm_told' \in BOOLEAN
             /\ (stm_told' => StmShows(stm_now)')
  <2>1. stm' = [stm EXCEPT !.locked = TRUE] /\ UNCHANGED <<stm_local, stm_now, stm_told>>
    BY <1>4 DEF stmrtc_init
  <2>2. stm' \in StmRegisters /\ stm'.tr = stm.tr /\ stm'.dr = stm.dr
    BY <1>1, <2>1, LockedShape DEF StmRegisters
  <2> QED BY <1>1, <2>1, <2>2 DEF StmShows
<1>5. CASE stmrtc_set_time_GMT(stm_now)
  <2> DEFINE d == Time_epochToDate(stm_now)
  <2>1. stm' = stmrtc_set_time(stm, d)
    BY <1>5 DEF stmrtc_set_time_GMT
  <2>2. stm_told' \in BOOLEAN /\ UNCHANGED <<stm_conf, stm_local, stm_now>>
    BY <1>5 DEF stmrtc_set_time_GMT
  <2>3. stm_now \in Nat BY <1>1, InstantFields
  <2>4. /\ TimeRegister(d) \in TimeFields
        /\ DateRegister(d) \in DateFields
    BY <2>3, StmRegistersTyped
  <2>5. stm' \in StmRegisters /\ stm'.tr = TimeRegister(d) /\ stm'.dr = DateRegister(d)
    BY <1>1, <2>1, <2>4, StmSet DEF StmRegisters
  <2>6. StmShows(stm_now)' BY <2>2, <2>5 DEF StmShows
  <2> QED BY <1>1, <2>2, <2>5, <2>6
<1>6. CASE UNCHANGED stmVars
  BY <1>1, <1>6 DEF stmVars, StmShows
<1> QED BY <1>2, <1>3, <1>4, <1>5, <1>6 DEF StmNext

LEMMA StmShowsHeader ==
  ASSUME NEW t \in Instants, StmShows(t), stm_now = t
  PROVE  DateHeaderTrue
<1> DEFINE d == Time_epochToDate(t)
           g == stmrtc_get_GMT_time(stm)
<1>1. SameFields(g, d) /\ g.wd = d.wd + 1 BY StmReads DEF StmShows
<1>2. stmrtc_get_GMT_unix_time = t BY StmTrueTime
<1>3. ClockText(g, FALSE) = ClockText(d, FALSE) /\ DateText(g) = DateText(d)
  BY <1>1, SameText
<1>4. stm_days_week[g.wd + 1] = DayNames[d.wd + 1]
  <2>1. d.wd \in 0 .. 6
    <3>1. t \in Nat /\ d.wd = WeekDay(t \div DAY_SECONDS) BY InstantFields
    <3> QED BY <3>1, SplitDay, WeekDayRange
  <2>2. \A k \in 0 .. 6 : stm_days_week[k + 2] = DayNames[k + 1]
    BY DEF stm_days_week, DayNames
  <2>3. g.wd + 1 = d.wd + 2 BY <1>1, <2>1
  <2> QED BY <2>1, <2>2, <2>3
<1>5. g.md = d.md /\ g.mo = d.mo /\ g.yy = d.yy BY <1>1 DEF SameFields
<1>6. stmrtc_get_GMT_time_str(FALSE) = ClockText(d, FALSE) \o DateText(d)
  BY <1>3 DEF stmrtc_get_GMT_time_str, stmrtc_get_local_time_str
<1>7. stmrtc_get_http_gmt_str =
        <<DayNames[d.wd + 1]>> \o Two(d.md) \o <<stm_months_year[d.mo + 1]>> \o Four(d.yy)
          \o ClockText(d, FALSE)
  <2>1. stmrtc_get_http_gmt_str =
          <<stm_days_week[g.wd + 1]>> \o Two(g.md) \o <<stm_months_year[g.mo + 1]>> \o Four(g.yy)
            \o ClockText(g, FALSE)
    BY DEF stmrtc_get_http_gmt_str
  <2> HIDE DEF g, d
  <2> QED BY <1>3, <1>4, <1>5, <2>1
<1> QED BY <1>2, <1>6, <1>7 DEF DateHeaderTrue

(* The registers, the settings and the history variables of the STM32's    *)
(* clock keep their types.                                                 *)
THEOREM StmTypes == StmSpec => []StmTypeOK
<1>1. StmInit => StmInv BY StmInitInv
<1>2. StmInv /\ [StmNext]_stmVars => StmInv' BY StmStepInv
<1>3. StmInv => StmTypeOK BY DEF StmInv
<1> QED BY <1>1, <1>2, <1>3, PTL DEF StmSpec

(* Once it was given the true time, the clock of the STM32 tells it, and   *)
(* every response carries the true date with the name of its day.          *)
THEOREM StmDateHeaderTrue == StmSpec => []DateHeaderTrue
<1>1. StmInit => StmInv BY StmInitInv
<1>2. StmInv /\ [StmNext]_stmVars => StmInv' BY StmStepInv
<1>3. StmInv => DateHeaderTrue
  <2> SUFFICES ASSUME StmInv, stm_told PROVE DateHeaderTrue
    BY DEF DateHeaderTrue
  <2> QED BY StmShowsHeader DEF StmInv, StmTypeOK
<1> QED BY <1>1, <1>2, <1>3, PTL DEF StmSpec

-----------------------------------------------------------------------------
(* The DS1307.  A transfer reaches the registers from its address on; only *)
(* a transfer longer than the rest of the chip comes round to the clock.   *)
LEMMA BusWriteAt ==
  ASSUME NEW c, NEW from \in Registers, NEW values, Len(values) \in Nat, NEW r \in Registers
  PROVE  /\ (from <= r => BusWrite(c, from, values)[r]
                            = IF r - from < Len(values) THEN values[r - from + 1] ELSE c[r])
         /\ (r < from /\ Len(values) <= LAST + 1 - from => BusWrite(c, from, values)[r] = c[r])
<1>1. LAST \in Nat /\ from \in 0 .. LAST /\ r \in 0 .. LAST
  BY RtcAssumption DEF Registers
<1>2. BusWrite(c, from, values)[r] =
        IF (r - from) % (LAST + 1) < Len(values) THEN values[((r - from) % (LAST + 1)) + 1] ELSE c[r]
  BY DEF BusWrite
<1>3. ASSUME from <= r
      PROVE  (r - from) % (LAST + 1) = r - from
  BY <1>1, <1>3
<1>4. ASSUME r < from
      PROVE  (r - from) % (LAST + 1) = r - from + LAST + 1
  BY <1>1, <1>4
<1>5. CASE from <= r BY <1>1, <1>2, <1>3, <1>5
<1>6. CASE r < from BY <1>1, <1>2, <1>4, <1>6
<1> QED BY <1>1, <1>5, <1>6

LEMMA BusWriteTyped ==
  ASSUME NEW c \in [Registers -> 0 .. 255], NEW from \in Registers, NEW values,
         Len(values) \in Nat, \A k \in 1 .. Len(values) : values[k] \in 0 .. 255
  PROVE  BusWrite(c, from, values) \in [Registers -> 0 .. 255]
<1> SUFFICES ASSUME NEW r \in Registers
             PROVE  (IF (r - from) % (LAST + 1) < Len(values)
                       THEN values[((r - from) % (LAST + 1)) + 1] ELSE c[r]) \in 0 .. 255
  BY DEF BusWrite
<1>1. LAST \in Nat /\ from \in 0 .. LAST /\ r \in 0 .. LAST
  BY RtcAssumption DEF Registers
<1>2. (r - from) % (LAST + 1) \in Nat BY <1>1
<1> DEFINE k == (r - from) % (LAST + 1)
<1> HIDE DEF k
<1>3. k \in Nat BY <1>2 DEF k
<1>4. k < Len(values) => values[k + 1] \in 0 .. 255 BY <1>3
<1> QED BY <1>4 DEF k

LEMMA SevenRegisters ==
  /\ {0, 1, 2, 3, 4, 5, 6, 7, 8} \subseteq Registers
  /\ \A r \in Registers : r \in Nat
  BY RtcAssumption DEF Registers

(* The registers of a chip in the 24-hour mode that show a time.           *)
Shows(c, d) ==
  /\ c[0] = Dec2Bcd(d.ss) /\ c[1] = Dec2Bcd(d.mn) /\ c[2] = Dec2Bcd(d.hh)
  /\ c[4] = Dec2Bcd(d.md) /\ c[5] = Dec2Bcd(d.mo) /\ c[6] = Dec2Bcd(d.yy - 2000)

LEMMA BcdSmall ==
  ASSUME NEW t \in Instants, NEW d, d = Time_epochToDate(t), NEW c, Shows(c, d)
  PROVE  /\ c[0] \in 0 .. 127 /\ c[1] \in 0 .. 127 /\ c[2] \in 0 .. 63
         /\ c[4] \in 0 .. 63 /\ c[5] \in 0 .. 31 /\ c[6] \in 0 .. 63
         /\ Bcd2Dec(c[0]) = d.ss /\ Bcd2Dec(c[1]) = d.mn /\ Bcd2Dec(c[2]) = d.hh
         /\ Bcd2Dec(c[4]) = d.md /\ Bcd2Dec(c[5]) = d.mo /\ Bcd2Dec(c[6]) + 2000 = d.yy
<1>1. /\ d.ss \in 0 .. 59 /\ d.mn \in 0 .. 59 /\ d.hh \in 0 .. 23
      /\ d.md \in 1 .. 31 /\ d.mo \in 1 .. 12 /\ d.yy \in 2000 .. 2038
  BY InstantFields
<1>2. \A n \in 0 .. 59 : Dec2Bcd(n) \in 0 .. 127 /\ Bcd2Dec(Dec2Bcd(n)) = n
  BY DEF Dec2Bcd, Bcd2Dec
<1>3. \A n \in 0 .. 38 : Dec2Bcd(n) \in 0 .. 63
  BY DEF Dec2Bcd
<1>4. \A n \in 0 .. 12 : Dec2Bcd(n) \in 0 .. 31
  BY DEF Dec2Bcd
<1>5. d.yy - 2000 \in 0 .. 38 /\ (d.yy - 2000) + 2000 = d.yy BY <1>1
<1>6. /\ d.hh \in 0 .. 38 /\ d.md \in 0 .. 38 /\ d.mo \in 0 .. 12
      /\ d.hh \in 0 .. 59 /\ d.md \in 0 .. 59 /\ d.mo \in 0 .. 59 /\ d.yy - 2000 \in 0 .. 59
  BY <1>1
<1> QED BY <1>1, <1>2, <1>3, <1>4, <1>5, <1>6, SMTT(30) DEF Shows

(* The driver reads what the chip shows, and so does the chip itself.      *)
LEMMA DriverReads ==
  ASSUME NEW t \in Instants, NEW d, d = Time_epochToDate(t), NEW c, Shows(c, d),
         NEW mode \in BOOLEAN
  PROVE  mode => SameFields(ds1307_get_GMT_time(c, mode), d)
<1>1. /\ c[0] \in 0 .. 127 /\ c[1] \in 0 .. 127 /\ c[2] \in 0 .. 63
      /\ c[4] \in 0 .. 63 /\ c[5] \in 0 .. 31
      /\ Bcd2Dec(c[0]) = d.ss /\ Bcd2Dec(c[1]) = d.mn /\ Bcd2Dec(c[2]) = d.hh
      /\ Bcd2Dec(c[4]) = d.md /\ Bcd2Dec(c[5]) = d.mo /\ Bcd2Dec(c[6]) + 2000 = d.yy
  BY BcdSmall
<1>2. /\ c[0] % 128 = c[0] /\ c[1] % 128 = c[1] /\ c[2] % 64 = c[2]
      /\ c[4] % 64 = c[4] /\ c[5] % 32 = c[5]
  BY <1>1
<1> DEFINE g == ds1307_get_GMT_time(c, mode)
<1>4. /\ g.ss = Bcd2Dec(c[0] % 128) /\ g.mn = Bcd2Dec(c[1] % 128)
      /\ g.md = Bcd2Dec(c[4] % 64) /\ g.mo = Bcd2Dec(c[5] % 32) /\ g.yy = Bcd2Dec(c[6]) + 2000
  BY DEF ds1307_get_GMT_time
<1>5. mode => g.hh = Bcd2Dec(c[2]) BY <1>2 DEF ds1307_get_GMT_time, Hour
<1> SUFFICES ASSUME mode PROVE SameFields(g, d)
  OBVIOUS
<1>6. /\ g.ss = d.ss /\ g.mn = d.mn /\ g.hh = d.hh
      /\ g.md = d.md /\ g.mo = d.mo /\ g.yy = d.yy
  <2> HIDE DEF g
  <2>1. g.ss = d.ss BY <1>1, <1>2, <1>4
  <2>2. g.mn = d.mn BY <1>1, <1>2, <1>4
  <2>3. g.md = d.md BY <1>1, <1>2, <1>4
  <2>4. g.mo = d.mo BY <1>1, <1>2, <1>4
  <2>5. g.hh = d.hh /\ g.yy = d.yy BY <1>1, <1>4, <1>5
  <2> QED BY <2>1, <2>2, <2>3, <2>4, <2>5
<1> QED BY <1>6 DEF SameFields

LEMMA ChipReads ==
  ASSUME NEW t \in Instants, NEW d, d = Time_epochToDate(t), NEW c, Shows(c, d)
  PROVE  SameFields(ChipDate(c), d) /\ ~Has(c[0], CH) /\ ~Has(c[2], MODE_12)
<1>1. /\ c[0] \in 0 .. 127 /\ c[1] \in 0 .. 127 /\ c[2] \in 0 .. 63
      /\ Bcd2Dec(c[0]) = d.ss /\ Bcd2Dec(c[1]) = d.mn /\ Bcd2Dec(c[2]) = d.hh
      /\ Bcd2Dec(c[4]) = d.md /\ Bcd2Dec(c[5]) = d.mo /\ Bcd2Dec(c[6]) + 2000 = d.yy
  BY BcdSmall
<1>2. ~Has(c[0], CH) /\ ~Has(c[2], MODE_12) /\ c[0] % CH = c[0]
  BY <1>1 DEF Has, CH, MODE_12
<1>3. ChipHour(c[2]) = Bcd2Dec(c[2]) BY <1>2 DEF ChipHour
<1>4. 2000 + Bcd2Dec(c[6]) = d.yy
  <2>1. c[6] \in 0 .. 63 BY BcdSmall
  <2>2. Bcd2Dec(c[6]) \in Int BY <2>1, BcdNat
  <2> QED BY <1>1, <2>2
<1>5. /\ ChipDate(c).ss = Bcd2Dec(c[0] % CH) /\ ChipDate(c).mn = Bcd2Dec(c[1])
      /\ ChipDate(c).hh = ChipHour(c[2]) /\ ChipDate(c).md = Bcd2Dec(c[4])
      /\ ChipDate(c).mo = Bcd2Dec(c[5]) /\ ChipDate(c).yy = 2000 + Bcd2Dec(c[6])
  BY DEF ChipDate, NoTime
<1> QED BY <1>1, <1>2, <1>3, <1>4, <1>5 DEF SameFields

LEMMA TuplesJoined ==
  ASSUME NEW a \in Int, NEW b \in Int, NEW h \in Int, NEW w \in Int, NEW e \in Int,
         NEW f \in Int, NEW g \in Int
  PROVE  /\ (<<a, b>> \o <<h>>) \o <<w, e, f, g>> = <<a, b, h, w, e, f, g>>
         /\ (<<a, b>> \o <<>>) \o <<w, e, f, g>> = <<a, b, w, e, f, g>>
<1>1. /\ <<a, b>> \in Seq(Int) /\ <<h>> \in Seq(Int) /\ <<w, e, f, g>> \in Seq(Int)
      /\ <<a, b, h>> \in Seq(Int) /\ <<a, b, h, w, e, f, g>> \in Seq(Int)
      /\ <<a, b, w, e, f, g>> \in Seq(Int)
  OBVIOUS
<1>2. <<a, b>> \o <<h>> = <<a, b, h>>
  <2>1. Len(<<a, b>> \o <<h>>) = 3 /\ <<a, b>> \o <<h>> \in Seq(Int) BY <1>1, ConcatProperties
  <2>2. \A i \in 1 .. 3 : (<<a, b>> \o <<h>>)[i] = <<a, b, h>>[i] BY <1>1, ConcatProperties
  <2> QED BY <1>1, <2>1, <2>2, SeqEqual
<1>3. <<a, b, h>> \o <<w, e, f, g>> = <<a, b, h, w, e, f, g>>
  <2> DEFINE s == <<a, b, h>> \o <<w, e, f, g>>
  <2>1. Len(s) = 7 /\ s \in Seq(Int) BY <1>1, ConcatProperties
  <2>2. \A i \in 1 .. 7 : s[i] = <<a, b, h, w, e, f, g>>[i] BY <1>1, ConcatProperties
  <2> QED BY <1>1, <2>1, <2>2, SeqEqual
<1>4. <<a, b>> \o <<w, e, f, g>> = <<a, b, w, e, f, g>>
  <2> DEFINE s == <<a, b>> \o <<w, e, f, g>>
  <2>1. Len(s) = 6 /\ s \in Seq(Int) BY <1>1, ConcatProperties
  <2>2. \A i \in 1 .. 6 : s[i] = <<a, b, w, e, f, g>>[i] BY <1>1, ConcatProperties
  <2> QED BY <1>1, <2>1, <2>2, SeqEqual
<1>5. <<a, b>> \o <<>> = <<a, b>> BY <1>1, ConcatEmptySeq
<1> QED BY <1>2, <1>3, <1>4, <1>5

IntFields(d) ==
  /\ d.ss \in Int /\ d.mn \in Int /\ d.hh \in Int /\ d.wd \in Int
  /\ d.md \in Int /\ d.mo \in Int /\ d.yy \in Int

LEMMA EpochIntFields ==
  ASSUME NEW t \in Nat
  PROVE  IntFields(Time_epochToDate(t))
<1> DEFINE d == Time_epochToDate(t)
<1>1. t \div DAY_SECONDS \in Nat BY SplitDay
<1>2. d.wd \in Int /\ d.yy \in Int BY <1>1, EpochFields, WeekDayRange
<1>3. /\ d.ss \in Int /\ d.mn \in Int /\ d.hh \in Int /\ d.md \in Int /\ d.mo \in Int
  BY EpochFields
<1> QED BY <1>2, <1>3 DEF IntFields

LEMMA FieldsInOrder ==
  ASSUME NEW d, IntFields(d), NEW mode \in BOOLEAN
  PROVE  Fields(d, mode) =
           IF mode
             THEN <<Dec2Bcd(d.ss) % 128, Dec2Bcd(d.mn) % 128, Dec2Bcd(d.hh) % 64,
                    (Dec2Bcd(d.wd) % 8) + 1, Dec2Bcd(d.md) % 64, Dec2Bcd(d.mo) % 32,
                    Dec2Bcd((d.yy - 2000) % 256) % 256>>
             ELSE <<Dec2Bcd(d.ss) % 128, Dec2Bcd(d.mn) % 128,
                    (Dec2Bcd(d.wd) % 8) + 1, Dec2Bcd(d.md) % 64, Dec2Bcd(d.mo) % 32,
                    Dec2Bcd((d.yy - 2000) % 256) % 256>>
<1> DEFINE a == Dec2Bcd(d.ss) % 128
           b == Dec2Bcd(d.mn) % 128
           h == Dec2Bcd(d.hh) % 64
           w == (Dec2Bcd(d.wd) % 8) + 1
           e == Dec2Bcd(d.md) % 64
           f == Dec2Bcd(d.mo) % 32
           g == Dec2Bcd((d.yy - 2000) % 256) % 256
<1>1. \A n \in Int : Dec2Bcd(n) \in Int BY DEF Dec2Bcd
<1>2. (d.yy - 2000) % 256 \in Int BY DEF IntFields
<1>3. /\ a \in Int /\ b \in Int /\ h \in Int /\ w \in Int /\ e \in Int /\ f \in Int /\ g \in Int
  BY <1>1, <1>2 DEF IntFields
<1>4. Fields(d, mode) = (<<a, b>> \o (IF mode THEN <<h>> ELSE <<>>)) \o <<w, e, f, g>>
  BY DEF Fields
<1> HIDE DEF a, b, h, w, e, f, g
<1>5. Fields(d, mode) = IF mode THEN <<a, b, h, w, e, f, g>> ELSE <<a, b, w, e, f, g>>
  <2>1. /\ (<<a, b>> \o <<h>>) \o <<w, e, f, g>> = <<a, b, h, w, e, f, g>>
        /\ (<<a, b>> \o <<>>) \o <<w, e, f, g>> = <<a, b, w, e, f, g>>
    BY <1>3, TuplesJoined
  <2>2. CASE mode BY <1>4, <2>1, <2>2
  <2>3. CASE ~mode BY <1>4, <2>1, <2>3
  <2> QED BY <2>2, <2>3
<1> QED BY <1>5 DEF a, b, h, w, e, f, g

LEMMA FieldsTyped ==
  ASSUME NEW d, IntFields(d), NEW mode \in BOOLEAN
  PROVE  /\ Len(Fields(d, mode)) \in {6, 7}
         /\ \A k \in 1 .. Len(Fields(d, mode)) : Fields(d, mode)[k] \in 0 .. 255
<1>1. \A n \in Int : /\ Dec2Bcd(n) % 64 \in 0 .. 255 /\ Dec2Bcd(n) % 128 \in 0 .. 255
                     /\ Dec2Bcd(n) % 256 \in 0 .. 255 /\ (Dec2Bcd(n) % 8) + 1 \in 0 .. 255
                     /\ Dec2Bcd(n) % 32 \in 0 .. 255
  BY DEF Dec2Bcd
<1>2. (d.yy - 2000) % 256 \in Int BY DEF IntFields
<1> DEFINE a == Dec2Bcd(d.ss) % 128
           b == Dec2Bcd(d.mn) % 128
           h == Dec2Bcd(d.hh) % 64
           w == (Dec2Bcd(d.wd) % 8) + 1
           e == Dec2Bcd(d.md) % 64
           f == Dec2Bcd(d.mo) % 32
           g == Dec2Bcd((d.yy - 2000) % 256) % 256
<1>3. /\ a \in 0 .. 255 /\ b \in 0 .. 255 /\ h \in 0 .. 255 /\ w \in 0 .. 255
      /\ e \in 0 .. 255 /\ f \in 0 .. 255 /\ g \in 0 .. 255
  BY <1>1, <1>2, SMTT(30) DEF IntFields
<1>4. Fields(d, mode) = IF mode THEN <<a, b, h, w, e, f, g>> ELSE <<a, b, w, e, f, g>>
  BY FieldsInOrder
<1> HIDE DEF a, b, h, w, e, f, g
<1>5. CASE mode
  <2>1. Fields(d, mode) = <<a, b, h, w, e, f, g>> BY <1>4, <1>5
  <2> QED BY <1>3, <2>1
<1>6. CASE ~mode
  <2>1. Fields(d, mode) = <<a, b, w, e, f, g>> BY <1>4, <1>6
  <2> QED BY <1>3, <2>1
<1> QED BY <1>5, <1>6

(* Setting the time in the 24-hour mode.                                   *)
LEMMA SetShows ==
  ASSUME NEW t \in Instants, NEW d, d = Time_epochToDate(t), NEW c, NEW mode \in BOOLEAN
  PROVE  mode => Shows(ds1307_set_time(c, d, mode), d)
<1> DEFINE f == Fields(d, mode)
           A == <<Dec2Bcd(d.ss) % 128, Dec2Bcd(d.mn) % 128, Dec2Bcd(d.hh) % 64,
                  (Dec2Bcd(d.wd) % 8) + 1, Dec2Bcd(d.md) % 64, Dec2Bcd(d.mo) % 32,
                  Dec2Bcd((d.yy - 2000) % 256) % 256>>
           v == ds1307_set_time(c, d, mode)
<1>0. mode => f = A
  <2> DEFINE B == <<Dec2Bcd(d.ss) % 128, Dec2Bcd(d.mn) % 128,
                    (Dec2Bcd(d.wd) % 8) + 1, Dec2Bcd(d.md) % 64, Dec2Bcd(d.mo) % 32,
                    Dec2Bcd((d.yy - 2000) % 256) % 256>>
  <2>1. IntFields(d) BY InstantFields, EpochIntFields
  <2>2. f = IF mode THEN A ELSE B BY <2>1, FieldsInOrder
  <2> HIDE DEF A, B, f
  <2> QED BY <2>2
<1> SUFFICES ASSUME mode PROVE Shows(v, d)
  OBVIOUS
<1>1. /\ Len(f) = 7 /\ f[1] = Dec2Bcd(d.ss) % 128 /\ f[2] = Dec2Bcd(d.mn) % 128
      /\ f[3] = Dec2Bcd(d.hh) % 64 /\ f[5] = Dec2Bcd(d.md) % 64 /\ f[6] = Dec2Bcd(d.mo) % 32
      /\ f[7] = Dec2Bcd((d.yy - 2000) % 256) % 256
  <2>1. f = A BY <1>0
  <2> HIDE DEF f
  <2> QED BY <2>1
<1> HIDE DEF A
<1> HIDE DEF f
<1>2. /\ d.ss \in 0 .. 59 /\ d.mn \in 0 .. 59 /\ d.hh \in 0 .. 23
      /\ d.md \in 1 .. 31 /\ d.mo \in 1 .. 12 /\ d.yy \in 2000 .. 2038
  BY InstantFields
<1>3. /\ \A n \in 0 .. 59 : Dec2Bcd(n) % 128 = Dec2Bcd(n)
      /\ \A n \in 0 .. 38 : Dec2Bcd(n) % 64 = Dec2Bcd(n) /\ Dec2Bcd(n) % 256 = Dec2Bcd(n)
      /\ \A n \in 0 .. 12 : Dec2Bcd(n) % 32 = Dec2Bcd(n)
  BY DEF Dec2Bcd
<1>4. (d.yy - 2000) % 256 = d.yy - 2000 /\ d.yy - 2000 \in 0 .. 38 BY <1>2
<1>5. /\ f[1] = Dec2Bcd(d.ss) /\ f[2] = Dec2Bcd(d.mn) /\ f[3] = Dec2Bcd(d.hh)
      /\ f[5] = Dec2Bcd(d.md) /\ f[6] = Dec2Bcd(d.mo) /\ f[7] = Dec2Bcd(d.yy - 2000)
  BY <1>1, <1>2, <1>3, <1>4
<1>6. v = BusWrite(c, 0, f) BY DEF ds1307_set_time, DS1307_SECONDS_ADDR, f
<1>7. \A r \in 0 .. 6 : v[r] = f[r + 1]
  <2> SUFFICES ASSUME NEW r \in 0 .. 6 PROVE BusWrite(c, 0, f)[r] = f[r + 1]
    BY <1>6
  <2>1. 0 \in Registers /\ r \in Registers BY SevenRegisters
  <2>2. r - 0 < Len(f) /\ r - 0 + 1 = r + 1 /\ 0 <= r /\ Len(f) \in Nat BY <1>1
  <2> QED BY <2>1, <2>2, BusWriteAt
<1>8. /\ v[0] = f[1] /\ v[1] = f[2] /\ v[2] = f[3] /\ v[4] = f[5] /\ v[5] = f[6] /\ v[6] = f[7]
  <2> HIDE DEF v
  <2> QED BY <1>7
<1> HIDE DEF v
<1>9. Shows(v, d) BY <1>5, <1>8 DEF Shows
<1> QED BY <1>9 DEF v

(* Time passes on a chip that shows it.                                    *)
LEMMA RunShows ==
  ASSUME NEW t \in Instants, NEW u \in Instants, u > t, NEW c, Shows(c, Time_epochToDate(t))
  PROVE  Shows(RunFor(c, u - t), Time_epochToDate(u))
<1> DEFINE d == Time_epochToDate(u)
           before == Time_dateToEpoch(ChipDate(c))
           days == (before + (u - t)) \div DAY_SECONDS - before \div DAY_SECONDS
           w == ((c[3] - 1 + days) % 7) + 1
           f == <<Dec2Bcd(d.ss), Dec2Bcd(d.mn), HourIn(Has(c[2], MODE_12), d.hh), w,
                  Dec2Bcd(d.md), Dec2Bcd(d.mo), Dec2Bcd((d.yy - 2000) % 100)>>
           v == RunFor(c, u - t)
<1>1. SameFields(ChipDate(c), Time_epochToDate(t)) /\ ~Has(c[2], MODE_12)
  BY ChipReads
<1>2. before = t
  <2>1. before = Time_dateToEpoch(Time_epochToDate(t)) BY <1>1, SameText
  <2> QED BY <2>1, InstantFields
<1>3. before + (u - t) = u
  <2>1. t \in Nat /\ u \in Nat BY InstantFields
  <2> QED BY <1>2, <2>1
<1>4. v = BusWrite(c, 0, f) BY <1>3 DEF RunFor
<1> HIDE DEF before, days, w
<1>5. /\ d.ss \in 0 .. 59 /\ d.mn \in 0 .. 59 /\ d.hh \in 0 .. 23
      /\ d.md \in 1 .. 31 /\ d.mo \in 1 .. 12 /\ d.yy \in 2000 .. 2038
  BY InstantFields
<1>6. (d.yy - 2000) % 100 = d.yy - 2000 BY <1>5
<1>7. HourIn(Has(c[2], MODE_12), d.hh) = Dec2Bcd(d.hh) BY <1>1 DEF HourIn
<1>8. /\ Len(f) = 7 /\ f[1] = Dec2Bcd(d.ss) /\ f[2] = Dec2Bcd(d.mn) /\ f[3] = Dec2Bcd(d.hh)
      /\ f[5] = Dec2Bcd(d.md) /\ f[6] = Dec2Bcd(d.mo) /\ f[7] = Dec2Bcd(d.yy - 2000)
  BY <1>6, <1>7
<1> HIDE DEF f
<1>9. \A r \in 0 .. 6 : v[r] = f[r + 1]
  <2> SUFFICES ASSUME NEW r \in 0 .. 6 PROVE BusWrite(c, 0, f)[r] = f[r + 1]
    BY <1>4
  <2>1. 0 \in Registers /\ r \in Registers BY SevenRegisters
  <2>2. r - 0 < Len(f) /\ r - 0 + 1 = r + 1 /\ 0 <= r /\ Len(f) \in Nat BY <1>8
  <2> QED BY <2>1, <2>2, BusWriteAt
<1> HIDE DEF v
<1>10. /\ v[0] = f[1] /\ v[1] = f[2] /\ v[2] = f[3] /\ v[4] = f[5] /\ v[5] = f[6] /\ v[6] = f[7]
  BY <1>9
<1>11. Shows(v, d)
  <2> HIDE DEF d
  <2> QED BY <1>8, <1>10 DEF Shows
<1> QED BY <1>11 DEF v

(* A register written alone.                                               *)
LEMMA OneRegister ==
  ASSUME NEW c \in [Registers -> 0 .. 255], NEW from \in Registers, NEW s, Len(s) = 1, s[1] \in 0 .. 255
  PROVE  /\ BusWrite(c, from, s) \in [Registers -> 0 .. 255]
         /\ BusWrite(c, from, s)[from] = s[1]
         /\ \A r \in Registers : r # from => BusWrite(c, from, s)[r] = c[r]
<1>1. Len(s) \in Nat /\ \A k \in 1 .. Len(s) : s[k] \in 0 .. 255 OBVIOUS
<1>3. BusWrite(c, from, s) \in [Registers -> 0 .. 255] BY <1>1, BusWriteTyped
<1>4. LAST \in Nat /\ from \in 0 .. LAST /\ \A r \in Registers : r \in 0 .. LAST
  BY RtcAssumption DEF Registers
<1>5. BusWrite(c, from, s)[from] = s[1]
  <2>1. from - from = 0 /\ from <= from BY <1>4
  <2>2. BusWrite(c, from, s)[from]
          = IF from - from < Len(s) THEN s[from - from + 1] ELSE c[from]
    BY <1>1, <2>1, BusWriteAt
  <2> QED BY <1>1, <2>1, <2>2
<1>6. ASSUME NEW r \in Registers, r # from
      PROVE  BusWrite(c, from, s)[r] = c[r]
  <2>1. r \in Int /\ from \in Int /\ from <= LAST /\ LAST \in Int BY <1>4
  <2>2. CASE from <= r
    <3>1. BusWrite(c, from, s)[r] = IF r - from < Len(s) THEN s[r - from + 1] ELSE c[r]
      BY <1>1, <2>2, BusWriteAt
    <3>2. ~(r - from < 1) BY <1>6, <2>1, <2>2
    <3> QED BY <1>1, <3>1, <3>2
  <2>3. CASE r < from
    <3>1. 1 <= LAST + 1 - from BY <2>1
    <3> QED BY <1>1, <2>3, <3>1, BusWriteAt
  <2> QED BY <2>1, <2>2, <2>3
<1> QED BY <1>3, <1>5, <1>6

LEMMA ClearedBit ==
  ASSUME NEW v \in 0 .. 255
  PROVE  ClearBit(v, CH) \in 0 .. 255
BY DEF ClearBit, Has, CH

(* What ds1307_init() does to the chip.                                    *)
LEMMA InitTyped ==
  ASSUME NEW c \in [Registers -> 0 .. 255], NEW mode \in BOOLEAN, NEW cfg \in 0 .. 255
  PROVE  Configured(LeaveMode12(StartOscillator(c), mode), cfg) \in [Registers -> 0 .. 255]
<1> DEFINE C == [Registers -> 0 .. 255]
<1> HIDE DEF C
<1>0. 0 \in Registers /\ 2 \in Registers /\ 7 \in Registers /\ 0 \in 0 .. 255
  BY SevenRegisters
<1>1. ASSUME NEW b \in C PROVE StartOscillator(b) \in C
  <2>1. b[0] \in 0 .. 255 BY <1>0, <1>1 DEF C
  <2>2. Len(<<ClearBit(b[0], CH)>>) = 1 /\ <<ClearBit(b[0], CH)>>[1] \in 0 .. 255
    BY <2>1, ClearedBit
  <2>3. BusWrite(b, 0, <<ClearBit(b[0], CH)>>) \in C BY <1>0, <1>1, <2>2, OneRegister DEF C
  <2> QED BY <1>1, <2>3 DEF StartOscillator, DS1307_SECONDS_ADDR
<1>2. ASSUME NEW b \in C PROVE LeaveMode12(b, mode) \in C
  <2>1. Len(<<0>>) = 1 /\ <<0>>[1] \in 0 .. 255 OBVIOUS
  <2>2. BusWrite(b, 2, <<0>>) \in C BY <1>0, <1>2, <2>1, OneRegister DEF C
  <2> QED BY <1>2, <2>2 DEF LeaveMode12, DS1307_HOURS_ADDR
<1>3. ASSUME NEW b \in C PROVE Configured(b, cfg) \in C
  <2>1. Len(<<cfg>>) = 1 /\ <<cfg>>[1] \in 0 .. 255 OBVIOUS
  <2>2. BusWrite(b, 7, <<cfg>>) \in C BY <1>0, <1>3, <2>1, OneRegister, SMTT(30) DEF C
  <2> QED BY <1>3, <2>2 DEF Configured, ds1307_write_configuration, DS1307_CONFIG_ADDR
<1>4. c \in C BY DEF C
<1>5. StartOscillator(c) \in C BY <1>1, <1>4
<1>6. LeaveMode12(StartOscillator(c), mode) \in C BY <1>2, <1>5
<1>7. Configured(LeaveMode12(StartOscillator(c), mode), cfg) \in C BY <1>3, <1>6
<1> QED BY <1>7 DEF C

LEMMA InitShows ==
  ASSUME NEW t \in Instants, NEW d, d = Time_epochToDate(t), NEW c \in [Registers -> 0 .. 255],
         Shows(c, d), NEW mode \in BOOLEAN, NEW cfg \in 0 .. 255
  PROVE  mode => Shows(Configured(LeaveMode12(StartOscillator(c), mode), cfg), d)
<1>1. \A r \in 0 .. 6 : Configured(c, cfg)[r] = c[r]
  <2>1. 7 \in Registers /\ \A r \in 0 .. 6 : r \in Registers /\ r # 7 BY SevenRegisters
  <2>2. Len(<<cfg>>) = 1 /\ <<cfg>>[1] \in 0 .. 255 OBVIOUS
  <2>3. \A r \in 0 .. 6 : BusWrite(c, 7, <<cfg>>)[r] = c[r]
    <3>1. \A r \in Registers : r # 7 => BusWrite(c, 7, <<cfg>>)[r] = c[r]
      BY <2>1, <2>2, OneRegister
    <3> QED BY <2>1, <3>1
  <2> QED BY <2>3 DEF Configured, ds1307_write_configuration, DS1307_CONFIG_ADDR
<1> SUFFICES ASSUME mode
             PROVE  Shows(Configured(LeaveMode12(StartOscillator(c), mode), cfg), d)
  OBVIOUS
<1>2. StartOscillator(c) = c BY ChipReads DEF StartOscillator
<1>3. LeaveMode12(c, mode) = c BY DEF LeaveMode12
<1>4. Shows(Configured(c, cfg), d)
  <2> DEFINE v == Configured(c, cfg)
  <2> HIDE DEF v
  <2>1. v[0] = c[0] /\ v[1] = c[1] /\ v[2] = c[2] /\ v[4] = c[4] /\ v[5] = c[5] /\ v[6] = c[6]
    BY <1>1 DEF v
  <2>2. Shows(v, d) BY <2>1 DEF Shows
  <2> QED BY <2>2 DEF v
<1> QED BY <1>2, <1>3, <1>4

(* The chip counts bytes, whatever it counts from.                         *)
LEMMA ChipCounts ==
  ASSUME NEW c \in [Registers -> 0 .. 255]
  PROVE  Time_dateToEpoch(ChipDate(c)) \in Nat
<1> DEFINE g == ChipDate(c)
<1>1. /\ c[0] \in 0 .. 255 /\ c[1] \in 0 .. 255 /\ c[2] \in 0 .. 255
      /\ c[4] \in 0 .. 255 /\ c[5] \in 0 .. 255 /\ c[6] \in 0 .. 255
  BY SevenRegisters
<1>2. /\ c[0] % CH \in Nat /\ c[1] \in Nat /\ c[2] \in Nat /\ c[2] % AMPM \in Nat
      /\ c[4] \in Nat /\ c[5] \in Nat /\ c[6] \in Nat
  BY <1>1, SMTT(30) DEF CH, AMPM
<1>3. /\ Bcd2Dec(c[0] % CH) \in Nat /\ Bcd2Dec(c[1]) \in Nat /\ Bcd2Dec(c[2]) \in Nat
      /\ Bcd2Dec(c[2] % AMPM) \in Nat /\ Bcd2Dec(c[4]) \in Nat /\ Bcd2Dec(c[5]) \in Nat
      /\ Bcd2Dec(c[6]) \in Nat
  BY <1>2, BcdNat
<1>4. ChipHour(c[2]) \in Nat BY <1>3 DEF ChipHour
<1>5. /\ g.ss = Bcd2Dec(c[0] % CH) /\ g.mn = Bcd2Dec(c[1]) /\ g.hh = ChipHour(c[2])
      /\ g.md = Bcd2Dec(c[4]) /\ g.mo = Bcd2Dec(c[5]) /\ g.yy = 2000 + Bcd2Dec(c[6])
  BY DEF ChipDate, NoTime
<1>6. /\ g.ss \in Nat /\ g.mn \in Nat /\ g.hh \in Nat
      /\ g.md \in Nat /\ g.mo \in Nat /\ g.yy \in Nat /\ g.yy >= 2000
  <2> HIDE DEF g
  <2> QED BY <1>3, <1>4, <1>5
<1> HIDE DEF g
<1>7. Time_dateToEpoch(g) \in Nat BY <1>6, EpochNat
<1> QED BY <1>7 DEF g

LEMMA RunTyped ==
  ASSUME NEW c \in [Registers -> 0 .. 255], NEW seconds \in Nat
  PROVE  RunFor(c, seconds) \in [Registers -> 0 .. 255]
<1> DEFINE before == Time_dateToEpoch(ChipDate(c))
           d == Time_epochToDate(before + seconds)
           days == (before + seconds) \div DAY_SECONDS - before \div DAY_SECONDS
           h == HourIn(Has(c[2], MODE_12), d.hh)
           w == ((c[3] - 1 + days) % 7) + 1
           f == <<Dec2Bcd(d.ss), Dec2Bcd(d.mn), h, w,
                  Dec2Bcd(d.md), Dec2Bcd(d.mo), Dec2Bcd((d.yy - 2000) % 100)>>
<1>1. before \in Nat BY ChipCounts
<1> HIDE DEF before
<1>2. before + seconds \in Nat BY <1>1
<1>3. /\ d.ss \in 0 .. 59 /\ d.mn \in 0 .. 59 /\ d.hh \in 0 .. 23
      /\ d.md \in 1 .. 31 /\ d.mo \in 1 .. 12 /\ d.yy \in Int
  <2>1. IntFields(d) BY <1>2, EpochIntFields
  <2> QED BY <1>2, <2>1, EpochFields DEF IntFields
<1>4. days \in Int
  <2>1. (before + seconds) \div DAY_SECONDS \in Int /\ before \div DAY_SECONDS \in Int
    BY <1>1, <1>2, SplitDay
  <2> QED BY <2>1
<1> HIDE DEF d, days
<1>5. w \in 0 .. 255
  <2>1. c[3] \in 0 .. 255 BY SevenRegisters
  <2>2. c[3] - 1 + days \in Int BY <1>4, <2>1
  <2>3. \A n \in Int : (n % 7) + 1 \in 0 .. 255 OBVIOUS
  <2> QED BY <2>2, <2>3
<1>6. h \in 0 .. 255
  <2>1. \A n \in 0 .. 23 : Dec2Bcd(n) \in 0 .. 63 BY DEF Dec2Bcd
  <2>2. \A n \in 0 .. 23 : n % 12 \in 0 .. 23 OBVIOUS
  <2>3. 12 \in 0 .. 23 OBVIOUS
  <2>4. Dec2Bcd(d.hh) \in 0 .. 63 /\ Dec2Bcd(d.hh % 12) \in 0 .. 63 /\ Dec2Bcd(12) \in 0 .. 63
    BY <1>3, <2>1, <2>2, <2>3
  <2> QED BY <2>4 DEF HourIn, MODE_12, AMPM
<1>7. /\ Dec2Bcd(d.ss) \in 0 .. 255 /\ Dec2Bcd(d.mn) \in 0 .. 255 /\ Dec2Bcd(d.md) \in 0 .. 255
      /\ Dec2Bcd(d.mo) \in 0 .. 255 /\ Dec2Bcd((d.yy - 2000) % 100) \in 0 .. 255
  <2>1. \A n \in 0 .. 99 : Dec2Bcd(n) \in 0 .. 255 BY DEF Dec2Bcd
  <2>2. (d.yy - 2000) % 100 \in 0 .. 99 BY <1>3
  <2>3. d.ss \in 0 .. 99 /\ d.mn \in 0 .. 99 /\ d.md \in 0 .. 99 /\ d.mo \in 0 .. 99 BY <1>3
  <2>4. Dec2Bcd((d.yy - 2000) % 100) \in 0 .. 255 BY <2>1, <2>2
  <2>5. /\ Dec2Bcd(d.ss) \in 0 .. 255 /\ Dec2Bcd(d.mn) \in 0 .. 255
        /\ Dec2Bcd(d.md) \in 0 .. 255 /\ Dec2Bcd(d.mo) \in 0 .. 255
    BY <2>1, <2>3
  <2> QED BY <2>4, <2>5
<1> HIDE DEF h, w
<1>8. Len(f) = 7 /\ \A k \in 1 .. 7 : f[k] \in 0 .. 255
  <2>1. f = <<Dec2Bcd(d.ss), Dec2Bcd(d.mn), h, w,
              Dec2Bcd(d.md), Dec2Bcd(d.mo), Dec2Bcd((d.yy - 2000) % 100)>>
    OBVIOUS
  <2> DEFINE a == Dec2Bcd(d.ss)
             b == Dec2Bcd(d.mn)
             e == Dec2Bcd(d.md)
             g == Dec2Bcd(d.mo)
             y == Dec2Bcd((d.yy - 2000) % 100)
  <2>2. f = <<a, b, h, w, e, g, y>> BY <2>1
  <2>3. /\ a \in 0 .. 255 /\ b \in 0 .. 255 /\ e \in 0 .. 255
        /\ g \in 0 .. 255 /\ y \in 0 .. 255
    BY <1>7
  <2> HIDE DEF a, b, e, g, y, f
  <2>4. \A k \in 1 .. 7 : k = 1 \/ k = 2 \/ k = 3 \/ k = 4 \/ k = 5 \/ k = 6 \/ k = 7 OBVIOUS
  <2>5. /\ f[1] = a /\ f[2] = b /\ f[3] = h /\ f[4] = w /\ f[5] = e /\ f[6] = g /\ f[7] = y
        /\ Len(f) = 7
    BY <2>2
  <2> QED BY <1>5, <1>6, <2>3, <2>4, <2>5
<1>9. RunFor(c, seconds) = BusWrite(c, 0, f) BY DEF RunFor, before, d, days, h, w
<1> HIDE DEF f
<1>10. 0 \in Registers /\ Len(f) \in Nat BY <1>8, SevenRegisters
<1>11. BusWrite(c, 0, f) \in [Registers -> 0 .. 255] BY <1>8, <1>10, BusWriteTyped
<1> QED BY <1>9, <1>11

(* The scratch memory.                                                     *)
LEMMA CellWritten ==
  ASSUME NEW c \in [Registers -> 0 .. 255], NEW a \in Int, NEW s, Len(s) = 1, s[1] = 1,
         NEW v,
         v = IF a < DS1307_RAM_START_ADDR \/ a > LAST THEN c ELSE BusWrite(c, a, s)
  PROVE  /\ v \in [Registers -> 0 .. 255]
         /\ \A r \in 0 .. 7 : v[r] = c[r]
         /\ a \in 8 .. LAST => v[a] = 1
<1>1. s[1] \in 0 .. 255 OBVIOUS
<1>2. ASSUME a \in 8 .. LAST
      PROVE  a \in Registers /\ a > 7
  BY <1>2, RtcAssumption DEF Registers
<1>3. \A r \in 0 .. 7 : r \in Registers BY SevenRegisters
<1>4. LAST \in Nat BY RtcAssumption
<1>5. CASE a \in 8 .. LAST
  <2>1. v = BusWrite(c, a, s) BY <1>5, <1>4 DEF DS1307_RAM_START_ADDR
  <2>2. /\ BusWrite(c, a, s) \in [Registers -> 0 .. 255]
        /\ BusWrite(c, a, s)[a] = s[1]
        /\ \A r \in Registers : r # a => BusWrite(c, a, s)[r] = c[r]
    BY <1>1, <1>2, <1>5, OneRegister
  <2>3. \A r \in 0 .. 7 : r # a BY <1>2, <1>5
  <2> QED BY <1>1, <1>3, <2>1, <2>2, <2>3
<1>6. CASE a \notin 8 .. LAST
  <2>1. v = c BY <1>6, <1>4 DEF DS1307_RAM_START_ADDR
  <2> QED BY <1>6, <2>1
<1> QED BY <1>5, <1>6

LEMMA BulkWritten ==
  ASSUME chip \in [Registers -> 0 .. 255], NEW n \in 0 .. 255,
         ds1307_write_ram_bulk([k \in 1 .. n |-> 1])
  PROVE  /\ chip' \in [Registers -> 0 .. 255]
         /\ \A r \in 0 .. 7 : chip'[r] = chip[r]
         /\ n \in 1 .. LAST - 7 => \A k \in 1 .. n : chip'[7 + k] = 1
<1> DEFINE s == [k \in 1 .. n |-> 1]
           c == chip
           v == chip'
<1>0. v = IF TooLarge(Len(s)) THEN c ELSE BusWrite(c, DS1307_RAM_START_ADDR, s)
  BY DEF ds1307_write_ram_bulk
<1>1. Len(s) = n /\ \A k \in 1 .. n : s[k] = 1 OBVIOUS
<1>2. LAST \in Nat /\ LAST >= 8 BY RtcAssumption
<1>3. 8 \in Registers /\ \A r \in 0 .. 7 : r \in Registers BY SevenRegisters
<1>6. c \in [Registers -> 0 .. 255] OBVIOUS
<1> HIDE DEF s, c, v
<1>4. CASE n > LAST - 7
  <2>1. v = c BY <1>0, <1>1, <1>4 DEF TooLarge
  <2>2. n \notin 1 .. LAST - 7 BY <1>2, <1>4
  <2> QED BY <1>6, <2>1, <2>2 DEF v, c
<1>5. CASE ~(n > LAST - 7)
  <2>1. v = BusWrite(c, 8, s) BY <1>0, <1>1, <1>5 DEF TooLarge, DS1307_RAM_START_ADDR
  <2>2. v \in [Registers -> 0 .. 255]
    <3>1. \A k \in 1 .. Len(s) : s[k] \in 0 .. 255 BY <1>1
    <3>2. Len(s) \in Nat BY <1>1
    <3>3. BusWrite(c, 8, s) \in [Registers -> 0 .. 255]
      BY <1>3, <1>6, <3>1, <3>2, BusWriteTyped
    <3> QED BY <2>1, <3>3
  <2>3. \A r \in 0 .. 7 : v[r] = c[r]
    <3>1. ASSUME NEW r \in 0 .. 7 PROVE BusWrite(c, 8, s)[r] = c[r]
      <4>1. r < 8 /\ Len(s) <= LAST + 1 - 8 /\ Len(s) \in Nat BY <1>1, <1>2, <1>5
      <4>2. r \in Registers BY <1>3
      <4> QED BY <1>3, <1>6, <4>1, <4>2, BusWriteAt
    <3> QED BY <2>1, <3>1
  <2>4. ASSUME NEW k \in 1 .. n PROVE v[7 + k] = 1
    <3>1. 7 + k \in Registers /\ 8 <= 7 + k /\ (7 + k) - 8 < Len(s) /\ (7 + k) - 8 + 1 = k
      BY <1>1, <1>2, <1>5, <2>4 DEF Registers
    <3>2. Len(s) \in Nat BY <1>1
    <3>3. BusWrite(c, 8, s)[7 + k]
            = IF (7 + k) - 8 < Len(s) THEN s[(7 + k) - 8 + 1] ELSE c[7 + k]
      BY <1>3, <1>6, <3>1, <3>2, BusWriteAt
    <3>4. BusWrite(c, 8, s)[7 + k] = s[k] BY <3>1, <3>3
    <3> QED BY <1>1, <2>1, <3>4
  <2> QED BY <2>2, <2>3, <2>4 DEF v, c
<1> QED BY <1>4, <1>5

(* A chip that was given the true time in the 24-hour mode shows it.       *)
RtcInv ==
  /\ RtcTypeOK
  /\ ds_told => conf.mode_24hour /\ Shows(chip, Time_epochToDate(ds_now))

LEMMA EpochDomain ==
  ASSUME NEW t
  PROVE  DOMAIN Time_epochToDate(t) = DOMAIN NoTime
BY DEF Time_epochToDate, NoTime

LEMMA RtcInitInv == RtcInit => RtcInv
<1> SUFFICES ASSUME RtcInit PROVE RtcTypeOK /\ ~ds_told
  BY DEF RtcInv
<1>1. chip \in [Registers -> 0 .. 255] BY RtcAssumption DEF RtcInit
<1>2. conf \in [zone : -16 .. 16, dst : BOOLEAN, mode_24hour : BOOLEAN] BY DEF RtcInit
<1>3. dst_time \in (0 .. 14) \X (0 .. 7) BY DEF RtcInit
<1>4. DOMAIN time_local = DOMAIN NoTime BY DEF RtcInit
<1>5. ds_now \in Instants /\ ds_told = FALSE /\ ds_asked \in Instants \cup {0} BY DEF RtcInit
<1> QED BY <1>1, <1>2, <1>3, <1>4, <1>5 DEF RtcTypeOK

LEMMA RtcStepInv == RtcInv /\ [RtcNext]_rtcVars => RtcInv'
<1> SUFFICES ASSUME RtcInv, [RtcNext]_rtcVars PROVE RtcInv'
  OBVIOUS
<1> DEFINE C == [Registers -> 0 .. 255]
           K == [zone : -16 .. 16, dst : BOOLEAN, mode_24hour : BOOLEAN]
           D == (0 .. 14) \X (0 .. 7)
           N == DOMAIN NoTime
           E(t) == Time_epochToDate(t)
<1>0. /\ chip \in C /\ conf \in K /\ dst_time \in D /\ DOMAIN time_local = N
      /\ ds_now \in Instants /\ ds_told \in BOOLEAN /\ ds_asked \in Instants \cup {0}
      /\ ds_told => conf.mode_24hour /\ Shows(chip, E(ds_now))
  BY DEF RtcInv, RtcTypeOK
<1>a. conf.mode_24hour \in BOOLEAN BY <1>0
<1>b. SUFFICES /\ chip' \in C /\ conf' \in K /\ dst_time' \in D /\ DOMAIN time_local' = N
               /\ ds_now' \in Instants /\ ds_told' \in BOOLEAN /\ ds_asked' \in Instants \cup {0}
               /\ ds_told' => conf'.mode_24hour /\ Shows(chip', E(ds_now'))
  BY DEF RtcInv, RtcTypeOK, Shows
<1>1. CASE ChipWait
  <2>1. PICK t \in Instants :
          /\ t > ds_now /\ ds_now' = t
          /\ chip' = IF Has(chip[0], CH) THEN chip ELSE RunFor(chip, t - ds_now)
    BY <1>1 DEF ChipWait
  <2>2. UNCHANGED <<conf, dst_time, time_local, ds_told, ds_asked>> BY <1>1 DEF ChipWait
  <2>3. chip' \in C
    <3>1. t \in Nat /\ ds_now \in Nat BY <1>0, InstantFields
    <3>2. t - ds_now \in Nat BY <2>1, <3>1
    <3> QED BY <1>0, <2>1, <3>2, RunTyped
  <2>4. ASSUME Shows(chip, E(ds_now)) PROVE Shows(chip', E(t))
    <3>1. ~Has(chip[0], CH) BY <1>0, <2>4, ChipReads
    <3>2. Shows(RunFor(chip, t - ds_now), E(t)) BY <1>0, <2>1, <2>4, RunShows
    <3> QED BY <2>1, <3>1, <3>2
  <2> HIDE DEF C, K, D, N, E
  <2> QED BY <1>0, <2>1, <2>2, <2>3, <2>4
<1>2. CASE ds1307_get_local_time
  <2>1. DOMAIN time_local' = N BY <1>2, EpochDomain DEF ds1307_get_local_time
  <2>2. /\ UNCHANGED <<chip, conf, dst_time, ds_now, ds_told>> /\ ds_asked' = ds_now
    BY <1>2 DEF ds1307_get_local_time
  <2> HIDE DEF C, K, D, N, E
  <2> QED BY <1>0, <2>1, <2>2
<1>3. ASSUME NEW rtc \in RtcBoots, ds1307_init(rtc)
      PROVE  /\ chip' \in C /\ conf' \in K /\ dst_time' \in D /\ DOMAIN time_local' = N
             /\ ds_now' \in Instants /\ ds_told' \in BOOLEAN /\ ds_asked' \in Instants \cup {0}
             /\ ds_told' => conf'.mode_24hour /\ Shows(chip', E(ds_now'))
  <2>0. /\ rtc.time_zone \in Int /\ rtc.dst_enable \in BOOLEAN
        /\ rtc.output_config \in 0 .. 255 /\ rtc.mode_24hour \in BOOLEAN
    BY RtcAssumption
  <2>1. UNCHANGED <<time_local, ds_now, ds_asked>> BY <1>3 DEF ds1307_init
  <2>2. CASE rtc.time_zone \notin -16 .. 16
    <3>1. UNCHANGED <<conf, chip, dst_time, ds_told>> BY <1>3, <2>2 DEF ds1307_init
    <3> HIDE DEF C, K, D, N, E
    <3> QED BY <1>0, <2>1, <3>1
  <2>3. CASE rtc.time_zone \in -16 .. 16
    <3>1. /\ conf' = [zone |-> rtc.time_zone, dst |-> rtc.dst_enable,
                      mode_24hour |-> rtc.mode_24hour]
          /\ chip' = Configured(LeaveMode12(StartOscillator(chip), rtc.mode_24hour),
                                rtc.output_config)
          /\ dst_time' = IF rtc.dst_enable THEN ds1307_set_dst(chip[DS1307_YEAR_ADDR])
                         ELSE dst_time
          /\ ds_told' = (ds_told /\ rtc.mode_24hour)
      BY <1>3, <2>3 DEF ds1307_init
    <3>2. chip' \in C BY <1>0, <2>0, <3>1, InitTyped
    <3>3. conf' \in K /\ conf'.mode_24hour = rtc.mode_24hour BY <2>0, <2>3, <3>1
    <3>4. dst_time' \in D
      <4>1. chip[6] \in 0 .. 255 BY <1>0, SevenRegisters
      <4>2. \A year \in 0 .. 255 : (1 + ((year * 5) \div 4)) % 7 \in 0 .. 6 OBVIOUS
      <4>3. ds1307_set_dst(chip[6]) \in D BY <4>1, <4>2 DEF ds1307_set_dst
      <4> QED BY <1>0, <3>1, <4>3 DEF DS1307_YEAR_ADDR
    <3>5. Shows(chip, E(ds_now)) /\ rtc.mode_24hour => Shows(chip', E(ds_now))
      BY <1>0, <2>0, <3>1, InitShows
    <3> HIDE DEF C, K, D, N, E
    <3> QED BY <1>0, <2>0, <2>1, <3>1, <3>2, <3>3, <3>4, <3>5
  <2> QED BY <2>2, <2>3
<1>4. CASE ds1307_set_time_GMT(ds_now)
  <2>1. /\ chip' = ds1307_set_time(chip, E(ds_now), conf.mode_24hour)
        /\ ds_told' = (conf.mode_24hour /\ ds_now = ds_now)
        /\ UNCHANGED <<conf, dst_time, time_local, ds_now, ds_asked>>
    BY <1>4 DEF ds1307_set_time_GMT
  <2>2. chip' \in C
    <3> DEFINE f == Fields(E(ds_now), conf.mode_24hour)
    <3>1. IntFields(E(ds_now)) BY <1>0, InstantFields, EpochIntFields
    <3>2. Len(f) \in {6, 7} /\ \A k \in 1 .. Len(f) : f[k] \in 0 .. 255
      BY <1>a, <3>1, FieldsTyped
    <3>3. chip' = BusWrite(chip, 0, f) BY <2>1 DEF ds1307_set_time, DS1307_SECONDS_ADDR
    <3> HIDE DEF f
    <3>4. Len(f) \in Nat /\ 0 \in Registers BY <3>2, SevenRegisters
    <3> QED BY <1>0, <3>2, <3>3, <3>4, BusWriteTyped
  <2>3. conf.mode_24hour => Shows(chip', E(ds_now)) BY <1>0, <1>a, <2>1, SetShows
  <2> HIDE DEF C, K, D, N, E
  <2> QED BY <1>0, <1>a, <2>1, <2>2, <2>3
<1>5. ASSUME chip' \in C, \A r \in 0 .. 7 : chip'[r] = chip[r],
             UNCHANGED <<conf, dst_time, time_local, ds_now, ds_told, ds_asked>>
      PROVE  /\ chip' \in C /\ conf' \in K /\ dst_time' \in D /\ DOMAIN time_local' = N
             /\ ds_now' \in Instants /\ ds_told' \in BOOLEAN /\ ds_asked' \in Instants \cup {0}
             /\ ds_told' => conf'.mode_24hour /\ Shows(chip', E(ds_now'))
  <2>1. /\ chip'[0] = chip[0] /\ chip'[1] = chip[1] /\ chip'[2] = chip[2]
        /\ chip'[4] = chip[4] /\ chip'[5] = chip[5] /\ chip'[6] = chip[6]
    BY <1>5
  <2> HIDE DEF C, K, D, N, E
  <2>2. Shows(chip, E(ds_now)) => Shows(chip', E(ds_now)) BY <2>1 DEF Shows
  <2> QED BY <1>0, <1>5, <2>2
<1>6. ASSUME NEW a \in RamCells, ds1307_write_ram(a, 1)
      PROVE  /\ chip' \in C /\ conf' \in K /\ dst_time' \in D /\ DOMAIN time_local' = N
             /\ ds_now' \in Instants /\ ds_told' \in BOOLEAN /\ ds_asked' \in Instants \cup {0}
             /\ ds_told' => conf'.mode_24hour /\ Shows(chip', E(ds_now'))
  <2>1. a \in Int BY RtcAssumption
  <2>2. chip' \in C /\ \A r \in 0 .. 7 : chip'[r] = chip[r]
    <3> DEFINE s == <<1>>
    <3>1. Len(s) = 1 /\ s[1] = 1 OBVIOUS
    <3>2. chip' = IF a < DS1307_RAM_START_ADDR \/ a > LAST THEN chip ELSE BusWrite(chip, a, s)
      BY <1>6 DEF ds1307_write_ram
    <3> HIDE DEF s
    <3> QED BY <1>0, <2>1, <3>1, <3>2, CellWritten
  <2>3. UNCHANGED <<conf, dst_time, time_local, ds_now, ds_told, ds_asked>>
    BY <1>6 DEF ds1307_write_ram
  <2> HIDE DEF C, K, D, N, E
  <2> QED BY <1>5, <2>2, <2>3
<1>7. ASSUME NEW n \in RamSizes, ds1307_write_ram_bulk([k \in 1 .. n |-> 1])
      PROVE  /\ chip' \in C /\ conf' \in K /\ dst_time' \in D /\ DOMAIN time_local' = N
             /\ ds_now' \in Instants /\ ds_told' \in BOOLEAN /\ ds_asked' \in Instants \cup {0}
             /\ ds_told' => conf'.mode_24hour /\ Shows(chip', E(ds_now'))
  <2>1. n \in 0 .. 255 BY RtcAssumption
  <2>2. chip' \in C /\ \A r \in 0 .. 7 : chip'[r] = chip[r]
    BY <1>0, <1>7, <2>1, BulkWritten
  <2>3. UNCHANGED <<conf, dst_time, time_local, ds_now, ds_told, ds_asked>>
    BY <1>7 DEF ds1307_write_ram_bulk
  <2> HIDE DEF C, K, D, N, E
  <2> QED BY <1>5, <2>2, <2>3
<1>8. CASE UNCHANGED rtcVars
  <2>1. UNCHANGED <<chip, conf, dst_time, time_local, ds_now, ds_told, ds_asked>>
    BY <1>8 DEF rtcVars
  <2> HIDE DEF C, K, D, N, E
  <2> QED BY <1>0, <2>1
<1> HIDE DEF C, K, D, N, E
<1> QED BY <1>1, <1>2, <1>3, <1>4, <1>6, <1>7, <1>8 DEF RtcNext

(* The digits of a formatted time, after the name of the day.              *)
LEMMA TailOfConcat ==
  ASSUME NEW S, NEW h \in Seq(S), Len(h) = 1, NEW s \in Seq(S)
  PROVE  Tail(h \o s) = s
<1> DEFINE q == h \o s
<1>1. q \in Seq(S) /\ Len(q) = 1 + Len(s) /\ Len(s) \in Nat
  <2>1. q \in Seq(S) BY ConcatProperties
  <2>2. Len(q) = Len(h) + Len(s) BY ConcatProperties
  <2>3. Len(s) \in Nat OBVIOUS
  <2> QED BY <2>1, <2>2, <2>3
<1>2. \A i \in 1 .. Len(s) : q[i + 1] = s[i]
  <2> SUFFICES ASSUME NEW i \in 1 .. Len(s) PROVE (h \o s)[i + 1] = s[i]
    OBVIOUS
  <2>1. \A k \in 1 .. Len(h) + Len(s) : (h \o s)[k] = IF k <= Len(h) THEN h[k] ELSE s[k - Len(h)]
    BY ConcatProperties
  <2>2. i + 1 \in 1 .. Len(h) + Len(s) /\ ~(i + 1 <= Len(h)) /\ (i + 1) - Len(h) = i
    BY <1>1
  <2> QED BY <2>1, <2>2
<1> HIDE DEF q
<1>3. q # << >> BY <1>1
<1>4. Tail(q) \in Seq(S) /\ Len(Tail(q)) = Len(s) /\ \A i \in 1 .. Len(s) : Tail(q)[i] = q[i + 1]
  BY <1>1, <1>3, HeadTailProperties
<1>5. \A i \in 1 .. Len(Tail(q)) : Tail(q)[i] = s[i] BY <1>2, <1>4
<1>6. Tail(q) = s BY <1>4, <1>5, SeqEqual
<1> QED BY <1>6 DEF q

LEMMA DigitsTyped ==
  ASSUME NEW S, Int \subseteq S, NEW n \in Int
  PROVE  Two(n) \in Seq(S) /\ Four(n) \in Seq(S)
<1>1. \A k \in Int : k \div 10 \in Int /\ k % 10 \in Int OBVIOUS
<1>2. \A k \in Int : Two(k) \in Seq(S) BY <1>1 DEF Two
<1>3. n \div 100 \in Int /\ n % 100 \in Int OBVIOUS
<1>4. Two(n \div 100) \in Seq(S) /\ Two(n % 100) \in Seq(S) BY <1>2, <1>3
<1>5. Two(n \div 100) \o Two(n % 100) \in Seq(S) BY <1>4
<1> QED BY <1>2, <1>5 DEF Four

LEMMA RtcTells ==
  ASSUME NEW t \in Instants, Shows(chip, Time_epochToDate(t)), conf.mode_24hour \in BOOLEAN,
         ds_now = t
  PROVE  conf.mode_24hour => ClockTells
<1> DEFINE d == Time_epochToDate(t)
           g == ds1307_get_GMT_time(chip, conf.mode_24hour)
<1>1. conf.mode_24hour => SameFields(g, d) BY DriverReads
<1> SUFFICES ASSUME SameFields(g, d) PROVE ClockTells
  BY <1>1
<1>2. ds1307_get_GMT_unix_time = t
  <2>1. Time_dateToEpoch(g) = Time_dateToEpoch(d) BY SameText
  <2>2. Time_dateToEpoch(d) = t BY InstantFields
  <2> QED BY <2>1, <2>2 DEF ds1307_get_GMT_unix_time
<1>3. ClockText(g, FALSE) = ClockText(d, FALSE) /\ DateText(g) = DateText(d)
  BY SameText
<1>4. g.md = d.md /\ g.mo = d.mo /\ g.yy = d.yy BY DEF SameFields
<1>5. ds1307_get_GMT_time_str(FALSE) = ClockText(d, FALSE) \o DateText(d)
  BY <1>3 DEF ds1307_get_GMT_time_str, ds1307_get_local_time_str
<1>6. Tail(ds1307_get_http_gmt_str) =
        Two(d.md) \o <<months_year[d.mo + 1]>> \o Four(d.yy) \o ClockText(d, FALSE)
  <2> DEFINE x == days_week[g.wd + 1]
             m == months_year[d.mo + 1]
             S == Int \cup {x, m}
  <2>1. ds1307_get_http_gmt_str =
          <<days_week[g.wd + 1]>> \o Two(g.md) \o <<months_year[g.mo + 1]>> \o Four(g.yy)
            \o ClockText(g, FALSE)
    BY DEF ds1307_get_http_gmt_str
  <2>2. IntFields(d) BY InstantFields, EpochIntFields
  <2> HIDE DEF g, d, x, m
  <2>3. x \in S /\ m \in S /\ Int \subseteq S OBVIOUS
  <2> HIDE DEF S
  <2>4. /\ Two(d.md) \in Seq(S) /\ Four(d.yy) \in Seq(S) /\ Two(d.hh) \in Seq(S)
        /\ Two(d.mn) \in Seq(S) /\ Two(d.ss) \in Seq(S)
    BY <2>2, <2>3, DigitsTyped DEF IntFields
  <2>5. <<m>> \in Seq(S) BY <2>3
  <2>6. ClockText(d, FALSE) \in Seq(S)
    <3>1. Two(d.hh) \o Two(d.mn) \in Seq(S) BY <2>4
    <3>2. (Two(d.hh) \o Two(d.mn)) \o Two(d.ss) \in Seq(S) BY <2>4, <3>1
    <3> QED BY <3>2 DEF ClockText
  <2>7. ds1307_get_http_gmt_str =
          <<x>> \o Two(d.md) \o <<m>> \o Four(d.yy) \o ClockText(d, FALSE)
    BY <1>3, <1>4, <2>1 DEF x, m
  <2>8. Tail(<<x>> \o Two(d.md) \o <<m>> \o Four(d.yy) \o ClockText(d, FALSE))
          = Two(d.md) \o <<m>> \o Four(d.yy) \o ClockText(d, FALSE)
    <3> DEFINE h == <<x>>
               a == Two(d.md)
               b == <<m>>
               c == Four(d.yy)
               e == ClockText(d, FALSE)
    <3>0. h \in Seq(S) /\ Len(h) = 1 BY <2>3
    <3>1. a \in Seq(S) /\ b \in Seq(S) /\ c \in Seq(S) /\ e \in Seq(S)
      BY <2>4, <2>5, <2>6
    <3> HIDE DEF h, a, b, c, e
    <3> DEFINE p == a \o b
               q == p \o c
               r == q \o e
    <3>2. p \in Seq(S) /\ (h \o a) \o b = h \o p BY <3>0, <3>1, ConcatAssociative
    <3> HIDE DEF p
    <3>3. q \in Seq(S) /\ (h \o p) \o c = h \o q
      <4>1. q \in Seq(S) BY <3>1, <3>2
      <4>2. (h \o p) \o c = h \o q BY <3>0, <3>1, <3>2, ConcatAssociative, SMTT(30)
      <4> QED BY <4>1, <4>2
    <3> HIDE DEF q
    <3>4. r \in Seq(S) /\ (h \o q) \o e = h \o r BY <3>0, <3>1, <3>3, ConcatAssociative, SMTT(30)
    <3> HIDE DEF r
    <3>5. Tail(h \o r) = r BY <3>0, <3>4, TailOfConcat
    <3>6. (((h \o a) \o b) \o c) \o e = h \o r BY <3>2, <3>3, <3>4
    <3>7. Tail((((h \o a) \o b) \o c) \o e) = ((a \o b) \o c) \o e BY <3>5, <3>6 DEF p, q, r
    <3> QED BY <3>7 DEF h, a, b, c, e
  <2> QED BY <2>7, <2>8 DEF m
<1> QED BY <1>2, <1>5, <1>6 DEF ClockTells

(* The registers of the DS1307, the settings and the history variables of  *)
(* its driver keep their types: no call writes a register that is no byte. *)
THEOREM RtcTypes == RtcSpec => []RtcTypeOK
<1>1. RtcInit => RtcInv BY RtcInitInv
<1>2. RtcInv /\ [RtcNext]_rtcVars => RtcInv' BY RtcStepInv
<1>3. RtcInv => RtcTypeOK BY DEF RtcInv
<1> QED BY <1>1, <1>2, <1>3, PTL DEF RtcSpec

(* Once it was given the true time in the 24-hour mode the DS1307's driver *)
(* reads and prints the true time, whatever waits, restarts and scratch    *)
(* memory calls follow.                                                    *)
THEOREM RtcClockTells == RtcSpec => []ClockTells
<1>1. RtcInit => RtcInv BY RtcInitInv
<1>2. RtcInv /\ [RtcNext]_rtcVars => RtcInv' BY RtcStepInv
<1>3. RtcInv => ClockTells
  <2> SUFFICES ASSUME RtcInv, ds_told PROVE ClockTells
    BY DEF ClockTells
  <2>1. conf.mode_24hour \in BOOLEAN /\ ds_now \in Instants BY DEF RtcInv, RtcTypeOK
  <2>2. conf.mode_24hour /\ Shows(chip, Time_epochToDate(ds_now)) BY DEF RtcInv
  <2> QED BY <2>1, <2>2, RtcTells
<1> QED BY <1>1, <1>2, <1>3, PTL DEF RtcSpec

LEMMA ScratchStep ==
  ASSUME RtcInv
  PROVE  /\ \A n \in RamSizes :
              ds1307_write_ram_bulk([k \in 1 .. n |-> 1]) =>
                /\ \A r \in 0 .. 7 : chip'[r] = chip[r]
                /\ n \in 1 .. LAST - 7 => ds1307_read_ram_bulk(chip', n) = [k \in 1 .. n |-> 1]
         /\ \A a \in RamCells :
              ds1307_write_ram(a, 1) =>
                /\ \A r \in 0 .. 7 : chip'[r] = chip[r]
                /\ a \in 8 .. LAST => ds1307_read_ram(chip', a) = 1
<1>1. chip \in [Registers -> 0 .. 255] /\ LAST \in Nat BY RtcAssumption DEF RtcInv, RtcTypeOK
<1>2. ASSUME NEW n \in RamSizes, ds1307_write_ram_bulk([k \in 1 .. n |-> 1])
      PROVE  /\ \A r \in 0 .. 7 : chip'[r] = chip[r]
             /\ n \in 1 .. LAST - 7 => ds1307_read_ram_bulk(chip', n) = [k \in 1 .. n |-> 1]
  <2>1. n \in 0 .. 255 BY RtcAssumption
  <2>3. /\ \A r \in 0 .. 7 : chip'[r] = chip[r]
        /\ n \in 1 .. LAST - 7 => \A k \in 1 .. n : chip'[7 + k] = 1
    BY <1>1, <1>2, <2>1, BulkWritten
  <2>4. ASSUME n \in 1 .. LAST - 7
        PROVE  ds1307_read_ram_bulk(chip', n) = [k \in 1 .. n |-> 1]
    <3>1. ~TooLarge(n) /\ n # 0 BY <1>1, <2>4 DEF TooLarge
    <3>2. ds1307_read_ram_bulk(chip', n) = [k \in 1 .. n |-> chip'[(7 + k) % (LAST + 1)]]
      BY <3>1 DEF ds1307_read_ram_bulk
    <3>3. \A k \in 1 .. n : (7 + k) % (LAST + 1) = 7 + k BY <1>1, <2>4
    <3>4. \A k \in 1 .. n : chip'[7 + k] = 1 BY <2>3, <2>4
    <3>5. \A k \in 1 .. n : chip'[(7 + k) % (LAST + 1)] = 1 BY <3>3, <3>4
    <3> QED BY <3>2, <3>5
  <2> QED BY <2>3, <2>4
<1>3. ASSUME NEW a \in RamCells, ds1307_write_ram(a, 1)
      PROVE  /\ \A r \in 0 .. 7 : chip'[r] = chip[r]
             /\ a \in 8 .. LAST => ds1307_read_ram(chip', a) = 1
  <2> DEFINE s == <<1>>
  <2>1. Len(s) = 1 /\ s[1] = 1 OBVIOUS
  <2>2. chip' = IF a < DS1307_RAM_START_ADDR \/ a > LAST THEN chip ELSE BusWrite(chip, a, s)
    BY <1>3 DEF ds1307_write_ram
  <2> HIDE DEF s
  <2>3. a \in Int BY RtcAssumption
  <2>4. /\ \A r \in 0 .. 7 : chip'[r] = chip[r]
        /\ a \in 8 .. LAST => chip'[a] = 1
    BY <1>1, <2>1, <2>2, <2>3, CellWritten
  <2>5. ASSUME a \in 8 .. LAST PROVE ds1307_read_ram(chip', a) = 1
    <3>1. a % (LAST + 1) = a /\ ~(a < 8) /\ ~(a > LAST) BY <1>1, <2>5
    <3> QED BY <2>4, <2>5, <3>1 DEF ds1307_read_ram, ds1307_read_address, DS1307_RAM_START_ADDR
  <2> QED BY <2>4, <2>5
<1> QED BY <1>2, <1>3

(* No size or address given to the scratch memory calls reaches the time   *)
(* or the configuration, and what they accept is read back.                *)
THEOREM RtcScratchApart == RtcSpec => ScratchApart
<1>1. RtcInit => RtcInv BY RtcInitInv
<1>2. RtcInv /\ [RtcNext]_rtcVars => RtcInv' BY RtcStepInv
<1>3. RtcInv =>
        [/\ \A n \in RamSizes :
              ds1307_write_ram_bulk([k \in 1 .. n |-> 1]) =>
                /\ \A r \in 0 .. 7 : chip'[r] = chip[r]
                /\ n \in 1 .. LAST - 7 => ds1307_read_ram_bulk(chip', n) = [k \in 1 .. n |-> 1]
         /\ \A a \in RamCells :
              ds1307_write_ram(a, 1) =>
                /\ \A r \in 0 .. 7 : chip'[r] = chip[r]
                /\ a \in 8 .. LAST => ds1307_read_ram(chip', a) = 1]_rtcVars
  BY ScratchStep
<1> QED BY <1>1, <1>2, <1>3, PTL DEF RtcSpec, ScratchApart

-----------------------------------------------------------------------------
(* Daylight saving time, and the months that decide on it.                 *)
LEMMA MonthOrder ==
  ASSUME NEW y \in Int, NEW m \in 1 .. 12, NEW x \in Int,
         MonthStart(y, m) <= x, x < MonthStart(y, m + 1)
  PROVE  /\ x >= MonthStart(y, 3) => m >= 3
         /\ x < MonthStart(y, 12) => m <= 11
         /\ m >= 4 => x >= MonthStart(y, 4)
         /\ m <= 10 => x < MonthStart(y, 11)
<1> DEFINE k == IF Leap(y) THEN 1 ELSE 0
<1>1. k \in {0, 1} OBVIOUS
<1>2. /\ MonthStart(y, 1) = 0 /\ MonthStart(y, 2) = 31 /\ MonthStart(y, 3) = 59 + k
      /\ MonthStart(y, 4) = 90 + k /\ MonthStart(y, 5) = 120 + k
      /\ MonthStart(y, 6) = 151 + k /\ MonthStart(y, 7) = 181 + k
      /\ MonthStart(y, 8) = 212 + k /\ MonthStart(y, 9) = 243 + k
      /\ MonthStart(y, 10) = 273 + k /\ MonthStart(y, 11) = 304 + k
      /\ MonthStart(y, 12) = 334 + k /\ MonthStart(y, 13) = 365 + k
  BY <1>1, MonthStarts
<1> HIDE DEF k
<1>3. m \in {1, 2, 3, 4, 5, 6, 7, 8, 9, 10, 11, 12} OBVIOUS
<1> QED BY <1>1, <1>2, <1>3

LEMMA SameYear ==
  ASSUME NEW y \in Int, NEW day \in Nat, YearStart(y) <= day, day < YearStart(y + 1)
  PROVE  1970 + (4 * day + 2) \div 1461 = y
BY DEF YearStart

(* The second Sunday of March is one of its days 8 to 14, the first of     *)
(* November one of its days 1 to 7.                                        *)
LEMMA DstDays ==
  ASSUME NEW y \in Int
  PROVE  /\ Sunday(y, MARCH, 2) \in Int /\ Sunday(y, NOVEMBER, 1) \in Int
         /\ Sunday(y, MARCH, 2) >= YearStart(y) + MonthStart(y, 3) + 7
         /\ Sunday(y, MARCH, 2) <= YearStart(y) + MonthStart(y, 3) + 13
         /\ Sunday(y, NOVEMBER, 1) >= YearStart(y) + MonthStart(y, 11)
         /\ Sunday(y, NOVEMBER, 1) <= YearStart(y) + MonthStart(y, 11) + 6
<1> DEFINE a == DayNumber(y, 3, 1)
           b == DayNumber(y, 11, 1)
<1>1. YearStart(y) \in Int BY YearLength
<1>2. MonthStart(y, 3) \in Int /\ MonthStart(y, 11) \in Int BY MonthLength
<1>3. /\ a \in Int /\ b \in Int
      /\ a = YearStart(y) + MonthStart(y, 3) /\ b = YearStart(y) + MonthStart(y, 11)
  BY <1>1, <1>2 DEF DayNumber
<1>4. WeekDay(a) \in 0 .. 6 /\ WeekDay(b) \in 0 .. 6 BY <1>3, WeekDayRange
<1>5. /\ Sunday(y, MARCH, 2) = a + (6 - WeekDay(a)) + 7 * (2 - 1)
      /\ Sunday(y, NOVEMBER, 1) = b + (6 - WeekDay(b)) + 7 * (1 - 1)
  BY DEF Sunday, MARCH, NOVEMBER
<1> HIDE DEF a, b
<1> QED BY <1>1, <1>2, <1>3, <1>4, <1>5

LEMMA DayOf ==
  ASSUME NEW s \in Nat, NEW n \in Int
  PROVE  /\ n * DAY_SECONDS <= s => n <= s \div DAY_SECONDS
         /\ s < n * DAY_SECONDS => s \div DAY_SECONDS < n
         /\ n <= s \div DAY_SECONDS => n * DAY_SECONDS <= s
         /\ s \div DAY_SECONDS < n => s < n * DAY_SECONDS
BY DEF DAY_SECONDS, HOUR_SECONDS

LEMMA MonthLengths ==
  ASSUME NEW y \in Int
  PROVE  /\ MonthStart(y, 3) \in Nat /\ MonthStart(y, 4) = MonthStart(y, 3) + 31
         /\ MonthStart(y, 12) = MonthStart(y, 11) + 30 /\ MonthStart(y, 11) \in Nat
         /\ YearStart(y + 1) = YearStart(y) + MonthStart(y, 12) + 31
<1> DEFINE k == IF Leap(y) THEN 1 ELSE 0
<1>1. k \in {0, 1} OBVIOUS
<1>2. /\ MonthStart(y, 3) = 59 + k /\ MonthStart(y, 4) = 90 + k
      /\ MonthStart(y, 11) = 304 + k /\ MonthStart(y, 12) = 334 + k
  BY <1>1, MonthStarts
<1>3. YearStart(y) \in Int /\ YearStart(y + 1) = YearStart(y) + 365 + k
  BY YearLength
<1> HIDE DEF k
<1> QED BY <1>1, <1>2, <1>3

(* In daylight saving time the local month is March to November; out of it *)
(* the month is none of April to October.                                  *)
LEMMA SummerMonths ==
  ASSUME NEW t \in Nat, NEW zone \in Int, NEW s \in Nat, s = t + zone * HOUR_SECONDS
  PROVE  /\ InDst(t, zone) => Time_epochToDate(s + HOUR_SECONDS).mo \in 3 .. 11
         /\ ~InDst(t, zone) => Time_epochToDate(s).mo \notin 4 .. 10
<1> DEFINE d == Time_epochToDate(s)
           y == d.yy
           day == s \div DAY_SECONDS
           A == Sunday(y, MARCH, 2)
           B == Sunday(y, NOVEMBER, 1)
           Y == YearStart(y)
           M(m) == MonthStart(y, m)
<1>1. /\ day \in Nat /\ d.mo \in 1 .. 12
      /\ y = 1970 + (4 * day + 2) \div 1461 /\ InMonth(y, d.mo, day)
  BY SplitDay, EpochFields
<1>2. y \in Int /\ Y <= day /\ day < YearStart(y + 1)
  BY <1>1, YearOfDay
<1>3. Y \in Int BY <1>2, YearLength
<1>4. /\ A \in Int /\ B \in Int /\ A >= Y + M(3) + 7 /\ A <= Y + M(3) + 13
      /\ B >= Y + M(11) /\ B <= Y + M(11) + 6
  BY <1>2, DstDays
<1>5. /\ M(3) \in Nat /\ M(4) = M(3) + 31 /\ M(12) = M(11) + 30 /\ M(11) \in Nat
      /\ YearStart(y + 1) = Y + M(12) + 31
  BY <1>2, MonthLengths
<1>6. InDst(t, zone) <=>
        /\ A * DAY_SECONDS + 2 * HOUR_SECONDS <= s
        /\ s + HOUR_SECONDS < B * DAY_SECONDS + 2 * HOUR_SECONDS
  BY DEF InDst
<1> HIDE DEF d, y, day, A, B, Y
<1>7. ASSUME InDst(t, zone) PROVE Time_epochToDate(s + HOUR_SECONDS).mo \in 3 .. 11
  <2> DEFINE u == s + HOUR_SECONDS
             e == Time_epochToDate(u)
             n == u \div DAY_SECONDS
  <2>1. u \in Nat BY DEF HOUR_SECONDS
  <2>2. A * DAY_SECONDS <= u /\ u < (B + 1) * DAY_SECONDS
    BY <1>4, <1>6, <1>7 DEF HOUR_SECONDS, DAY_SECONDS
  <2>3. /\ n \in Nat /\ e.mo \in 1 .. 12
        /\ e.yy = 1970 + (4 * n + 2) \div 1461 /\ InMonth(e.yy, e.mo, n)
    <3> HIDE DEF u
    <3>1. n \in Nat BY <2>1, SplitDay
    <3>2. e.mo \in 1 .. 12 BY <2>1, EpochFields
    <3>3. e.yy = 1970 + (4 * n + 2) \div 1461 BY <2>1, EpochFields
    <3>4. InMonth(e.yy, e.mo, n) BY <2>1, EpochFields
    <3> QED BY <3>1, <3>2, <3>3, <3>4
  <2>4. A <= n /\ n < B + 1
    <3>1. A \in Int /\ B + 1 \in Int BY <1>4
    <3> HIDE DEF u
    <3> QED BY <2>1, <2>2, <3>1, DayOf
  <2> HIDE DEF u, e, n
  <2>5. Y <= n /\ n < YearStart(y + 1) /\ n - Y >= M(3) /\ n - Y < M(12)
    BY <1>3, <1>4, <1>5, <2>3, <2>4
  <2>6. e.yy = y BY <1>2, <2>3, <2>5, SameYear DEF Y
  <2>7. M(e.mo) <= n - Y /\ n - Y < M(e.mo + 1)
    <3>1. Y + M(e.mo) <= n /\ n < Y + M(e.mo + 1) BY <2>3, <2>6 DEF InMonth, Y
    <3>2. M(e.mo) \in Int /\ M(e.mo + 1) \in Int
      <4>1. /\ M(e.mo) \in 0 .. 335
            /\ M(e.mo + 1) \in M(e.mo) + 28 .. M(e.mo) + 31
        <5>1. y \in Int BY <1>2
        <5>2. e.mo \in 1 .. 12 BY <2>3
        <5> QED BY <5>1, <5>2, MonthLength
      <4> QED BY <4>1
    <3> QED BY <1>3, <2>3, <3>1, <3>2
  <2>8. n - Y \in Int BY <1>3, <2>3
  <2>9. e.mo >= 3 /\ e.mo <= 11 BY <1>2, <2>3, <2>5, <2>7, <2>8, MonthOrder
  <2>10. e.mo \in 3 .. 11 BY <2>3, <2>9
  <2> QED BY <2>10 DEF e, u
<1>8. ASSUME ~InDst(t, zone), d.mo \in 4 .. 10 PROVE FALSE
  <2>1. M(d.mo) <= day - Y /\ day - Y < M(d.mo + 1)
    <3>1. Y + M(d.mo) <= day /\ day < Y + M(d.mo + 1) BY <1>1 DEF InMonth, Y
    <3>2. M(d.mo) \in Int /\ M(d.mo + 1) \in Int
      <4>1. /\ M(d.mo) \in 0 .. 335
            /\ M(d.mo + 1) \in M(d.mo) + 28 .. M(d.mo) + 31
        <5>1. y \in Int BY <1>2
        <5>2. d.mo \in 1 .. 12 BY <1>1
        <5> QED BY <5>1, <5>2, MonthLength
      <4> QED BY <4>1
    <3> QED BY <1>1, <1>3, <3>1, <3>2
  <2>2. day - Y \in Int BY <1>1, <1>3
  <2>3. day - Y >= M(4) /\ day - Y < M(11) BY <1>1, <1>2, <1>8, <2>1, <2>2, MonthOrder
  <2>4. A + 1 <= day /\ day < B BY <1>1, <1>3, <1>4, <1>5, <2>3
  <2>5. (A + 1) * DAY_SECONDS <= s /\ s < B * DAY_SECONDS
    <3>1. A + 1 \in Int /\ B \in Int BY <1>4
    <3> QED BY <2>4, <3>1, DayOf DEF day
  <2>6. /\ A * DAY_SECONDS + 2 * HOUR_SECONDS <= s
        /\ s + HOUR_SECONDS < B * DAY_SECONDS + 2 * HOUR_SECONDS
    BY <1>4, <2>5 DEF DAY_SECONDS, HOUR_SECONDS
  <2> QED BY <1>6, <1>8, <2>6
<1> QED BY <1>7, <1>8 DEF d

(* A zone of at most nine hours, in seconds, is an int of 16 bits.         *)
LEMMA ZoneSeconds ==
  ASSUME NEW z \in -9 .. 9
  PROVE  Int16(z * HOUR_SECONDS) = z * HOUR_SECONDS
BY DEF Int16, HOUR_SECONDS

LEMMA LocalStart ==
  ASSUME NEW t \in Instants, NEW z \in -9 .. 8
  PROVE  t \in Nat /\ t + z * HOUR_SECONDS \in Nat
<1>1. t \in Nat BY InstantFields
<1>2. t >= 40000
  <2>1. FIRST_SECOND >= 40000 /\ FIRST_SECOND \in Int BY DEF FIRST_SECOND
  <2>2. t >= FIRST_SECOND BY InstantsAssumption
  <2> QED BY <1>1, <2>1, <2>2
<1> QED BY <1>1, <1>2 DEF HOUR_SECONDS

LEMMA LocalStep ==
  ASSUME RtcInv, ds_told, conf.zone \in -9 .. 8, ds1307_get_local_time,
         conf.dst =>
           /\ time_local.mo = Time_epochToDate(LocalTime(ds_now, conf.zone, conf.dst)).mo
           /\ Time_epochToDate(LocalTime(ds_now, conf.zone, conf.dst)).mo \notin {MARCH, NOVEMBER}
  PROVE  time_local' = Time_epochToDate(LocalTime(ds_now, conf.zone, conf.dst))
<1> DEFINE t == ds_now
           z == conf.zone
           s == t + z * HOUR_SECONDS
           here == LocalTime(ds_now, conf.zone, conf.dst)
<1>1. /\ conf.dst \in BOOLEAN /\ conf.mode_24hour \in BOOLEAN /\ t \in Instants
      /\ conf.mode_24hour /\ Shows(chip, Time_epochToDate(t))
  BY DEF RtcInv, RtcTypeOK
<1>2. ds1307_get_GMT_unix_time = t
  <2>1. ClockTells BY <1>1, RtcTells
  <2> QED BY <2>1 DEF ClockTells
<1>3. t \in Nat /\ s \in Nat BY <1>1, LocalStart
<1>4. time_local' =
        Time_epochToDate(t + Int16(NewTimeZone(time_local) * HOUR_SECONDS))
  BY <1>2 DEF ds1307_get_local_time
<1>5. /\ NewTimeZone(time_local) = z + IF conf.dst /\ Summer(time_local) THEN 1 ELSE 0
      /\ here = t + (z + IF conf.dst /\ InDst(t, z) THEN 1 ELSE 0) * HOUR_SECONDS
  BY DEF NewTimeZone, LocalTime
<1>6. NewTimeZone(time_local) \in -9 .. 9 BY <1>5
<1>7. time_local' = Time_epochToDate(t + NewTimeZone(time_local) * HOUR_SECONDS)
  BY <1>4, <1>6, ZoneSeconds
<1>8. (t + z * HOUR_SECONDS) + HOUR_SECONDS = t + (z + 1) * HOUR_SECONDS
  BY <1>3 DEF HOUR_SECONDS
<1>9. z \in Int /\ s = t + z * HOUR_SECONDS OBVIOUS
<1>10. /\ InDst(t, z) => Time_epochToDate(s + HOUR_SECONDS).mo \in 3 .. 11
       /\ ~InDst(t, z) => Time_epochToDate(s).mo \notin 4 .. 10
  BY <1>3, <1>9, SummerMonths
<1> HIDE DEF t, z, here
<1>11. CASE ~conf.dst
  <2>1. NewTimeZone(time_local) = z + 0 /\ here = t + (z + 0) * HOUR_SECONDS
    BY <1>5, <1>11
  <2> QED BY <1>7, <1>9, <2>1 DEF here
<1>12. CASE conf.dst /\ InDst(t, z)
  <2>1. here = t + (z + 1) * HOUR_SECONDS BY <1>5, <1>12
  <2>2. Time_epochToDate(here).mo \in 3 .. 11 BY <1>8, <1>10, <1>12, <2>1
  <2>3. time_local.mo \in 4 .. 10
    <3>1. time_local.mo = Time_epochToDate(here).mo /\ Time_epochToDate(here).mo \notin {3, 11}
      BY <1>12 DEF here, MARCH, NOVEMBER
    <3> QED BY <2>2, <3>1
  <2>4. Summer(time_local) BY <2>3 DEF Summer, MARCH, NOVEMBER
  <2>5. NewTimeZone(time_local) = z + 1 BY <1>5, <1>12, <2>4
  <2> QED BY <1>7, <2>1, <2>5 DEF here
<1>13. CASE conf.dst /\ ~InDst(t, z)
  <2>1. here = t + (z + 0) * HOUR_SECONDS BY <1>5, <1>13
  <2>2. here = s BY <1>9, <2>1
  <2>3. time_local.mo \in 1 .. 12 /\ time_local.mo \notin 3 .. 11
    <3>1. time_local.mo = Time_epochToDate(here).mo /\ Time_epochToDate(here).mo \notin {3, 11}
      BY <1>13 DEF here, MARCH, NOVEMBER
    <3>2. Time_epochToDate(here).mo \in 1 .. 12 BY <1>3, <2>2, EpochFields
    <3>3. Time_epochToDate(here).mo \notin 4 .. 10 BY <1>10, <1>13, <2>2
    <3> QED BY <3>1, <3>2, <3>3
  <2>4. ~Summer(time_local) BY <2>3 DEF Summer, MARCH, NOVEMBER
  <2>5. NewTimeZone(time_local) = z + 0 BY <1>5, <2>4
  <2> QED BY <1>7, <2>1, <2>5 DEF here
<1> QED BY <1>1, <1>11, <1>12, <1>13

(* The log prints the local time of its reader: from the second look in a  *)
(* month on, and but for the two months in which the rule changes.         *)
THEOREM RtcLocalSettles == RtcSpec => LocalSettles
<1> DEFINE now == Time_epochToDate(LocalTime(ds_now, conf.zone, conf.dst))
           settled == conf.dst => time_local.mo = now.mo /\ now.mo \notin {MARCH, NOVEMBER}
<1>1. RtcInit => RtcInv BY RtcInitInv
<1>2. RtcInv /\ [RtcNext]_rtcVars => RtcInv' BY RtcStepInv
<1>3. RtcInv =>
        [ds_told /\ conf.zone \in -9 .. 8 /\ ds1307_get_local_time /\ settled =>
           ds1307_get_system_time_str(time_local') = ClockText(now, FALSE) \o DateText(now)]_rtcVars
  <2> SUFFICES ASSUME RtcInv, ds_told, conf.zone \in -9 .. 8, ds1307_get_local_time, settled
               PROVE  ds1307_get_system_time_str(time_local')
                        = ClockText(now, FALSE) \o DateText(now)
    OBVIOUS
  <2>1. time_local' = now BY LocalStep
  <2> HIDE DEF now
  <2> QED BY <2>1 DEF ds1307_get_system_time_str, ds1307_get_local_time_str
<1> QED BY <1>1, <1>2, <1>3, PTL DEF RtcSpec, LocalSettles

=============================================================================
