-------------------------------- MODULE StmRtc --------------------------------
(***************************************************************************)
(* The driver of the clock inside the STM32 (rtc/stmrtc.c), the other      *)
(* board's counterpart of Rtc: a time and a date register that take a      *)
(* write only when they are unlocked and in initialization mode.           *)
(***************************************************************************)
EXTENDS Calendar

CONSTANTS
  StmBoots       (* what stmrtc_init() is called with                      *)

ASSUME StmRtcAssumption ==
  StmBoots \subseteq [time_zone : -128 .. 127, dst_enable : BOOLEAN,
                     dst_begin : 1 .. 12, dst_end : 1 .. 12]

VARIABLES
  stm,           (* RTC_TR and RTC_DR by fields, locked, initialization    *)
  stm_conf,      (* the statics stmrtc_init() sets                         *)
  stm_local,     (* the last local time computed                           *)
  stm_now,       (* the true time                                          *)
  stm_told       (* history: the clock was given the true time             *)

stmVars == <<stm, stm_conf, stm_local, stm_now, stm_told>>

(* Write protection and initialization mode.                               *)
RTC_EnterConfigMode(c) == [c EXCEPT !.locked = FALSE, !.initf = TRUE]
RTC_ExitConfigMode(c) == [c EXCEPT !.locked = TRUE, !.initf = FALSE]

Open(c) == ~c.locked /\ c.initf
WriteTR(c, v) == IF Open(c) THEN [c EXCEPT !.tr = v] ELSE c
WriteDR(c, v) == IF Open(c) THEN [c EXCEPT !.dr = v] ELSE c

(* The fields under the masks HOUR to MONTH_DAY.                           *)
TimeRegister(d) ==
  [hour |-> Dec2Bcd(d.hh) % 64, minute |-> Dec2Bcd(d.mn) % 128, second |-> Dec2Bcd(d.ss) % 256]

(* Faulty variant: days counted from Monday = 0, as the library does.      *)
DateFromZero(d) ==
  [year |-> Dec2Bcd(d.yy - 2000) % 256, week_day |-> Dec2Bcd(d.wd) % 8,
   month |-> Dec2Bcd(d.mo) % 32, month_day |-> Dec2Bcd(d.md) % 64]

DateRegister(d) ==
  [year |-> Dec2Bcd(d.yy - 2000) % 256, week_day |-> Dec2Bcd(d.wd + 1) % 8,
   month |-> Dec2Bcd(d.mo) % 32, month_day |-> Dec2Bcd(d.md) % 64]

stmrtc_set_time(c, d) ==
  RTC_ExitConfigMode(WriteDR(WriteTR(RTC_EnterConfigMode(c), TimeRegister(d)), DateRegister(d)))

(* Backup domain: the registers survive a restart, locked.                 *)
BackupDomain ==
  LET d == Time_epochToDate(DayNumber(2000, 1, 1) * DAY_SECONDS)
  IN  [tr |-> TimeRegister(d), dr |-> DateRegister(d), locked |-> TRUE, initf |-> FALSE]

StmInit ==
  /\ stm = BackupDomain
  /\ stm_conf = [zone |-> 0, dst |-> FALSE, begin |-> 0, end |-> 0]
  /\ stm_local = NoTime
  /\ stm_now \in Instants /\ \A t \in Instants : stm_now <= t
  /\ stm_told = FALSE

(* Unlocks to select the clock source, and locks again.                    *)
stmrtc_init(b) ==
  /\ stm_conf' = [zone |-> b.time_zone, dst |-> b.dst_enable, begin |-> b.dst_begin,
                  end |-> b.dst_end]
  /\ stm' = [stm EXCEPT !.locked = TRUE]
  /\ UNCHANGED <<stm_local, stm_now, stm_told>>

stmrtc_set_time_GMT(t) ==
  /\ stm' = stmrtc_set_time(stm, Time_epochToDate(t))
  /\ stm_told' = (t = stm_now)
  /\ UNCHANGED <<stm_conf, stm_local, stm_now>>

stmrtc_get_GMT_time(c) ==
  [hh |-> Bcd2Dec(c.tr.hour), mn |-> Bcd2Dec(c.tr.minute), ss |-> Bcd2Dec(c.tr.second),
   yy |-> Bcd2Dec(c.dr.year) + 2000, wd |-> Bcd2Dec(c.dr.week_day),
   mo |-> Bcd2Dec(c.dr.month), md |-> Bcd2Dec(c.dr.month_day)]

stmrtc_get_GMT_unix_time == Time_dateToEpoch(stmrtc_get_GMT_time(stm))

(* The zone as a uint8_t: a zone west of Greenwich becomes 256 hours less. *)
ZoneByte(last) ==
  LET summer == \/ last.mo > stm_conf.begin /\ last.mo < stm_conf.end
                \/ last.mo = stm_conf.begin /\ stm_conf.begin <= stm_conf.end /\ last.md >= 8
                \/ last.mo = stm_conf.end /\ stm_conf.begin < stm_conf.end /\ last.md <= 8
  IN  (stm_conf.zone + IF stm_conf.dst /\ summer THEN 1 ELSE 0) % 256

stmrtc_get_local_time ==
  /\ stm_local' =
       Time_epochToDate(stmrtc_get_GMT_unix_time + ZoneByte(stm_local) * HOUR_SECONDS)
  /\ UNCHANGED <<stm, stm_conf, stm_now, stm_told>>

(* Time passes (external): the clock counts, its week day as well.         *)
StmWait ==
  /\ \E t \in Instants :
       LET before == stmrtc_get_GMT_unix_time
           d == Time_epochToDate(before + t - stm_now)
           days == (before + t - stm_now) \div DAY_SECONDS - before \div DAY_SECONDS
       IN  /\ t > stm_now /\ stm_now' = t
           /\ stm' = [stm EXCEPT !.tr = TimeRegister(d),
                                 !.dr = [DateRegister(d) EXCEPT
                                   !.week_day = ((stm.dr.week_day - 1 + days) % 7) + 1]]
  /\ UNCHANGED <<stm_conf, stm_local, stm_told>>

-----------------------------------------------------------------------------
stmrtc_get_local_time_str(d, mode12) == ClockText(d, mode12) \o DateText(d)
stmrtc_get_GMT_time_str(mode12) == stmrtc_get_local_time_str(stmrtc_get_GMT_time(stm), mode12)

stm_days_week == <<"Nul", "Mon", "Tue", "Wed", "Thu", "Fri", "Sat", "Sun">>
stm_months_year == <<"Nul", "Jan", "Feb", "Mar", "Apr", "May", "Jun",
                 "Jul", "Aug", "Sep", "Oct", "Nov", "Dec">>
stmrtc_get_http_gmt_str ==
  LET d == stmrtc_get_GMT_time(stm)
  IN  <<stm_days_week[d.wd + 1]>> \o Two(d.md) \o <<stm_months_year[d.mo + 1]>> \o Four(d.yy)
        \o ClockText(d, FALSE)

-----------------------------------------------------------------------------
StmNext ==
  \/ StmWait \/ stmrtc_get_local_time
  \/ \E b \in StmBoots : stmrtc_init(b)
  \/ stmrtc_set_time_GMT(stm_now)

StmSpec == StmInit /\ [][StmNext]_stmVars

-----------------------------------------------------------------------------
StmTypeOK ==
  /\ stm \in [tr : [hour : 0 .. 63, minute : 0 .. 127, second : 0 .. 255],
              dr : [year : 0 .. 255, week_day : 0 .. 7, month : 0 .. 31, month_day : 0 .. 63],
              locked : BOOLEAN, initf : BOOLEAN]
  /\ DOMAIN stm_local = DOMAIN NoTime
  /\ stm_now \in Instants /\ stm_told \in BOOLEAN

(* Once it was given the true time the clock tells it, and the date of a   *)
(* response carries the name of the true day of the week: after any wait,  *)
(* across months and years, after any restart.                             *)
DayNames == <<"Mon", "Tue", "Wed", "Thu", "Fri", "Sat", "Sun">>
DateHeaderTrue ==
  stm_told =>
    LET d == Time_epochToDate(stm_now)
    IN  /\ stmrtc_get_GMT_unix_time = stm_now
        /\ stmrtc_get_GMT_time_str(FALSE) = ClockText(d, FALSE) \o DateText(d)
        /\ stmrtc_get_http_gmt_str =
             <<DayNames[d.wd + 1]>> \o Two(d.md) \o <<stm_months_year[d.mo + 1]>> \o Four(d.yy)
               \o ClockText(d, FALSE)

=============================================================================
