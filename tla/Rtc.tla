--------------------------------- MODULE Rtc ---------------------------------
(***************************************************************************)
(* The driver of the battery-backed clock (rtc/ds1307.c): 64 registers     *)
(* behind the two-wire bus, of which seven count the time in BCD, one      *)
(* configures the chip and 56 are scratch memory, and the statics in which *)
(* the driver keeps the last time it has read.                             *)
(*                                                                         *)
(* A bus transfer is one step: the driver is called from the main thread,  *)
(* and the chip holds its time registers still during a transfer.          *)
(***************************************************************************)
EXTENDS Calendar, TLC

CONSTANTS
  RtcBoots,      (* what ds1307_init() is called with                      *)
  RamCells,      (* addresses given to the scratch memory calls            *)
  RamSizes,      (* and sizes                                              *)
  LAST,          (* the last register of the chip: 63                      *)
  NewChips       (* contents of the chip when its battery is put in        *)

VARIABLES
  chip,          (* the registers, 0 to LAST                               *)
  conf,          (* local_time_zone, dst_enable, mode_24hour               *)
  dst_time,      (* the days of dst_time_start and dst_time_stop           *)
  time_local,    (* the last local time computed                           *)
  ds_now,        (* the true time                                          *)
  ds_told,       (* history: the chip was given the true time, in 24h mode *)
  ds_asked       (* history: when the local time was last computed         *)

rtcVars == <<chip, conf, dst_time, time_local, ds_now, ds_told, ds_asked>>

Registers == 0 .. LAST
DS1307_SECONDS_ADDR == 0
DS1307_HOURS_ADDR == 2
DS1307_YEAR_ADDR == 6
DS1307_CONFIG_ADDR == 7
DS1307_RAM_START_ADDR == 8
CH == 128          \* bit 7 of the seconds: the oscillator is stopped
MODE_12 == 64      \* bit 6 of the hours
AMPM == 32

ASSUME RtcAssumption ==
  /\ RtcBoots \subseteq [time_zone : -128 .. 127, dst_enable : BOOLEAN,
                         output_config : 0 .. 255, mode_24hour : BOOLEAN]
  /\ RamCells \subseteq 0 .. 255 /\ RamSizes \subseteq 0 .. 255
  /\ LAST \in 8 .. 255 /\ \A p \in NewChips : p \in [Registers -> 0 .. 255]

Has(v, bit) == (v \div bit) % 2 = 1
ClearBit(v, bit) == IF Has(v, bit) THEN v - bit ELSE v

(* A transfer writes registers one after the other; the address wraps.     *)
BusWrite(c, from, values) ==
  [r \in Registers |->
     LET k == (r - from) % (LAST + 1)
     IN  IF k < Len(values) THEN values[k + 1] ELSE c[r]]

-----------------------------------------------------------------------------
(* The chip (external): what its registers count, in the mode they are in; *)
(* the year has two digits.                                                *)

ChipHour(h) ==
  IF Has(h, MODE_12) THEN (Bcd2Dec(h % AMPM) % 12) + (IF Has(h, AMPM) THEN 12 ELSE 0)
  ELSE Bcd2Dec(h)
ChipDate(c) ==
  [NoTime EXCEPT !.ss = Bcd2Dec(c[0] % CH), !.mn = Bcd2Dec(c[1]), !.hh = ChipHour(c[2]),
                 !.md = Bcd2Dec(c[4]), !.mo = Bcd2Dec(c[5]), !.yy = 2000 + Bcd2Dec(c[6])]
HourIn(mode, h) ==
  IF mode THEN MODE_12 + (IF h >= 12 THEN AMPM ELSE 0) + Dec2Bcd(IF h % 12 = 0 THEN 12 ELSE h % 12)
  ELSE Dec2Bcd(h)
RunFor(c, seconds) ==
  LET before == Time_dateToEpoch(ChipDate(c))
      d == Time_epochToDate(before + seconds)
      days == (before + seconds) \div DAY_SECONDS - before \div DAY_SECONDS
  IN  BusWrite(c, 0, <<Dec2Bcd(d.ss), Dec2Bcd(d.mn), HourIn(Has(c[2], MODE_12), d.hh),
                       ((c[3] - 1 + days) % 7) + 1, Dec2Bcd(d.md), Dec2Bcd(d.mo),
                       Dec2Bcd((d.yy - 2000) % 100)>>)

-----------------------------------------------------------------------------
RtcInit ==
  /\ chip \in NewChips
  /\ conf = [zone |-> 0, dst |-> FALSE, mode_24hour |-> FALSE]
  /\ dst_time = <<0, 0>>
  /\ time_local = NoTime
  /\ ds_now \in Instants /\ \A t \in Instants : ds_now <= t
  /\ ds_told = FALSE /\ ds_asked = 0

(* Time passes; a stopped oscillator does not count it.                    *)
ChipWait ==
  /\ \E t \in Instants :
       /\ t > ds_now /\ ds_now' = t
       /\ chip' = IF Has(chip[0], CH) THEN chip ELSE RunFor(chip, t - ds_now)
  /\ UNCHANGED <<conf, dst_time, time_local, ds_told, ds_asked>>

(* ds1307_init(): nothing happens for a zone out of range, a stopped       *)
(* oscillator is started, and the 12-hour bit is cleared when the caller   *)
(* wants that mode.                                                        *)
StartOscillator(c) ==
  IF Has(c[0], CH) THEN BusWrite(c, DS1307_SECONDS_ADDR, <<ClearBit(c[0], CH)>>) ELSE c
LeaveMode12(c, mode) ==
  IF Has(c[2], MODE_12) /\ ~mode THEN BusWrite(c, DS1307_HOURS_ADDR, <<0>>) ELSE c
ds1307_write_configuration(c, cfg) ==      \* rejects the bits of 0x6C
  IF \E bit \in {4, 8, 32, 64} : Has(cfg, bit) THEN c ELSE BusWrite(c, DS1307_CONFIG_ADDR, <<cfg>>)
Configured(c, cfg) == IF cfg = 0 THEN c ELSE ds1307_write_configuration(c, cfg)

(* ds1307_set_dst(): called with the year register, as it is in the chip;  *)
(* what it computes is read by nobody.                                     *)
ds1307_set_dst(year) ==
  LET n == (1 + ((year * 5) \div 4)) % 7 IN <<14 - n, 7 - n>>

ds1307_init(rtc) ==
  /\ IF rtc.time_zone \in -16 .. 16
       THEN /\ conf' = [zone |-> rtc.time_zone, dst |-> rtc.dst_enable,
                        mode_24hour |-> rtc.mode_24hour]
            /\ chip' = Configured(LeaveMode12(StartOscillator(chip), rtc.mode_24hour),
                                  rtc.output_config)
            /\ dst_time' = IF rtc.dst_enable THEN ds1307_set_dst(chip[DS1307_YEAR_ADDR])
                           ELSE dst_time
            /\ ds_told' = (ds_told /\ rtc.mode_24hour)
       ELSE UNCHANGED <<conf, chip, dst_time, ds_told>>
  /\ UNCHANGED <<time_local, ds_now, ds_asked>>

(* ds1307_set_time(): in 12-hour mode no hour is sent, and what follows    *)
(* goes one register too low.                                              *)
Fields(d, mode) ==
  <<Dec2Bcd(d.ss) % 128, Dec2Bcd(d.mn) % 128>>
    \o (IF mode THEN <<Dec2Bcd(d.hh) % 64>> ELSE <<>>)
    \o <<(Dec2Bcd(d.wd) % 8) + 1, Dec2Bcd(d.md) % 64, Dec2Bcd(d.mo) % 32,
         Dec2Bcd((d.yy - 2000) % 256) % 256>>

(* Faulty variant: the time is sent one register too high.                 *)
SetFromMinutes(c, d, mode) == BusWrite(c, 1, Fields(d, mode))

ds1307_set_time(c, d, mode) == BusWrite(c, DS1307_SECONDS_ADDR, Fields(d, mode))

ds1307_set_time_GMT(t) ==
  /\ chip' = ds1307_set_time(chip, Time_epochToDate(t), conf.mode_24hour)
  /\ ds_told' = (conf.mode_24hour /\ t = ds_now)
  /\ UNCHANGED <<conf, dst_time, time_local, ds_now, ds_asked>>

(* ds1307_get_GMT_time(): the hour is read in the mode of the driver.      *)
Hour(h, mode) ==
  CASE mode -> Bcd2Dec(h % 64)
    [] ~mode /\ Has(h, AMPM) -> Bcd2Dec(h % 32) + 12
    [] OTHER -> IF Bcd2Dec(h % 32) = 12 THEN 0 ELSE Bcd2Dec(h % 32)

(* Faulty variant: days of the month from 30 on lose their tens.           *)
GMTWithShortDate(c, mode) ==
  [ss |-> Bcd2Dec(c[0] % 128), mn |-> Bcd2Dec(c[1] % 128), hh |-> Hour(c[2], mode),
   wd |-> Bcd2Dec(((c[3] % 8) - 1) % 256), md |-> Bcd2Dec(c[4] % 32), mo |-> Bcd2Dec(c[5] % 32),
   yy |-> Bcd2Dec(c[6]) + 2000]

ds1307_get_GMT_time(c, mode) ==
  [ss |-> Bcd2Dec(c[0] % 128), mn |-> Bcd2Dec(c[1] % 128), hh |-> Hour(c[2], mode),
   wd |-> Bcd2Dec(((c[3] % 8) - 1) % 256), md |-> Bcd2Dec(c[4] % 64), mo |-> Bcd2Dec(c[5] % 32),
   yy |-> Bcd2Dec(c[6]) + 2000]

ds1307_get_GMT_unix_time == Time_dateToEpoch(ds1307_get_GMT_time(chip, conf.mode_24hour))

(* Faulty variant: the months between the two are winter.                  *)
SummerInMarch(last) ==
  \/ last.mo = MARCH /\ last.md >= 8
  \/ last.mo = NOVEMBER /\ last.md <= 8

(* The zone to add, by the month and the day that were local last time.    *)
Summer(last) ==
  \/ last.mo > MARCH /\ last.mo < NOVEMBER
  \/ last.mo = MARCH /\ last.md >= 8
  \/ last.mo = NOVEMBER /\ last.md <= 8

(* `new_time_zone * 3600' is a product of 16-bit ints.                     *)
Int16(n) == ((n + 32768) % 65536) - 32768

NewTimeZone(last) == conf.zone + IF conf.dst /\ Summer(last) THEN 1 ELSE 0

ds1307_get_local_time ==
  /\ time_local' =
       Time_epochToDate(ds1307_get_GMT_unix_time + Int16(NewTimeZone(time_local) * HOUR_SECONDS))
  /\ ds_asked' = ds_now
  /\ UNCHANGED <<chip, conf, dst_time, ds_now, ds_told>>

-----------------------------------------------------------------------------
(* Scratch memory.  A bulk read of no byte reads one.                      *)

ds1307_write_ram(addr, value) ==
  /\ chip' = IF addr < DS1307_RAM_START_ADDR \/ addr > LAST THEN chip ELSE BusWrite(chip, addr, <<value>>)
  /\ UNCHANGED <<conf, dst_time, time_local, ds_now, ds_told, ds_asked>>

(* Faulty variant: one byte too many is accepted.                          *)
TooLargeByOne(size) == size > LAST - 6

TooLarge(size) == size > LAST - 7

ds1307_write_ram_bulk(values) ==
  /\ chip' = IF TooLarge(Len(values)) THEN chip
             ELSE BusWrite(chip, DS1307_RAM_START_ADDR, values)
  /\ UNCHANGED <<conf, dst_time, time_local, ds_now, ds_told, ds_asked>>

ds1307_read_address(c, address) == c[address % (LAST + 1)]
ds1307_read_ram(c, addr) ==
  IF addr < DS1307_RAM_START_ADDR \/ addr > LAST THEN 0 ELSE ds1307_read_address(c, addr)
ds1307_read_ram_bulk(c, size) ==
  IF TooLarge(size) THEN <<>>
  ELSE [k \in 1 .. IF size = 0 THEN 1 ELSE size |-> c[(7 + k) % (LAST + 1)]]

-----------------------------------------------------------------------------
ds1307_get_local_time_str(d, mode12) == ClockText(d, mode12) \o DateText(d)
ds1307_get_GMT_time_str(mode12) ==
  ds1307_get_local_time_str(ds1307_get_GMT_time(chip, conf.mode_24hour), mode12)
ds1307_get_system_time_str(d) == ds1307_get_local_time_str(d, FALSE)

days_week == <<"NULL", "Mon", "Tue", "Wed", "Thu", "Fri", "Sat", "Sun">>
months_year == <<"NULL", "Jan", "Feb", "Mar", "Apr", "May", "Jun",
                 "Jul", "Aug", "Sep", "Oct", "Nov", "Dec">>
ds1307_get_http_gmt_str ==
  LET d == ds1307_get_GMT_time(chip, conf.mode_24hour)
  IN  <<days_week[d.wd + 1]>> \o Two(d.md) \o <<months_year[d.mo + 1]>> \o Four(d.yy)
        \o ClockText(d, FALSE)

-----------------------------------------------------------------------------
RtcNext ==
  \/ ChipWait \/ ds1307_get_local_time
  \/ \E rtc \in RtcBoots : ds1307_init(rtc)
  \/ ds1307_set_time_GMT(ds_now)
  \/ \E a \in RamCells : ds1307_write_ram(a, 1)
  \/ \E n \in RamSizes : ds1307_write_ram_bulk([k \in 1 .. n |-> 1])

RtcSpec == RtcInit /\ [][RtcNext]_rtcVars

-----------------------------------------------------------------------------
RtcTypeOK ==
  /\ chip \in [Registers -> 0 .. 255]
  /\ conf \in [zone : -16 .. 16, dst : BOOLEAN, mode_24hour : BOOLEAN]
  /\ dst_time \in (0 .. 14) \X (0 .. 7)
  /\ DOMAIN time_local = DOMAIN NoTime
  /\ ds_now \in Instants /\ ds_told \in BOOLEAN /\ ds_asked \in Instants \cup {0}

(* Once the clock was given the true time, in 24-hour mode, the driver     *)
(* reads and prints the true time: after any wait, across midnights, leap  *)
(* days and years, after a restart, whatever the scratch memory is used    *)
(* for.  (The name of the day is left out: see README.md.)                 *)
ClockTells ==
  ds_told =>
    LET d == Time_epochToDate(ds_now)
    IN  /\ ds1307_get_GMT_unix_time = ds_now
        /\ ds1307_get_GMT_time_str(FALSE) = ClockText(d, FALSE) \o DateText(d)
        /\ Tail(ds1307_get_http_gmt_str) =
             Two(d.md) \o <<months_year[d.mo + 1]>> \o Four(d.yy) \o ClockText(d, FALSE)

(* The time zone is added right, and from the second look in a month on    *)
(* (in which the rule does not change) daylight saving time as well: the   *)
(* log, which prints the local time, then tells the time its reader has.   *)
LocalSettles ==
  [][LET true == Time_epochToDate(LocalTime(ds_now, conf.zone, conf.dst))
         settled == conf.dst => time_local.mo = true.mo /\ true.mo \notin {MARCH, NOVEMBER}
     IN  ds_told /\ conf.zone \in -9 .. 8 /\ ds1307_get_local_time /\ settled =>
           ds1307_get_system_time_str(time_local') = ClockText(true, FALSE) \o DateText(true)]_rtcVars

(* Scratch memory and clock keep apart: no size or address a caller gives  *)
(* makes the address wrap around into the time and configuration, and what *)
(* was accepted is read back.                                              *)
ScratchApart ==
  [][/\ \A n \in RamSizes :
          ds1307_write_ram_bulk([k \in 1 .. n |-> 1]) =>
            /\ \A r \in 0 .. 7 : chip'[r] = chip[r]
            /\ n \in 1 .. LAST - 7 => ds1307_read_ram_bulk(chip', n) = [k \in 1 .. n |-> 1]
     /\ \A a \in RamCells :
          ds1307_write_ram(a, 1) =>
            /\ \A r \in 0 .. 7 : chip'[r] = chip[r]
            /\ a \in 8 .. LAST => ds1307_read_ram(chip', a) = 1]_rtcVars

=============================================================================
