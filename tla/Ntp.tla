---------------------------------- MODULE Ntp ----------------------------------
(***************************************************************************)
(* Keeping time: the SNTP client (protocols/udp_ntp/udp_ntp.c), the        *)
(* callback that corrects the clock and the file system's time             *)
(* (ntp_handler() in main.c), and the beat that advances the latter.       *)
(*                                                                         *)
(* All of it runs in the main thread, between the ticks of the clock.      *)
(* Datagrams are lost, duplicated, delayed and reordered by the network;   *)
(* the resolver and the transmitter fail as they like.  Times are 32-bit   *)
(* in the code; here they have W values and are read in bytes of base BYTE.*)
(***************************************************************************)
EXTENDS Integers, Sequences, FiniteSets

CONSTANTS
  BYTE,               (* values of a byte; W = BYTE ^ 4                    *)
  EPOCH,              (* seconds from 1900 to 1970, 2208988800, mod W      *)
  CONNECT_ATTEMPTS,
  BOOT_TIME,          (* the true time at power on                         *)
  Clocks,             (* what the battery-backed clock may show then       *)
  LAST_SECOND,        (* the last second of the model                      *)
  AGE,                (* the network delays a datagram no longer           *)
  SYSTEM_CLEANUP_DELAY, (* 10: given to task_add() and FAT32_IncTime()     *)
  Addresses, UNSET

CLOCK == 1000         \* milliseconds of a tick: task_scheduler_init( 1000 )
W == BYTE * BYTE * BYTE * BYTE

ASSUME NtpAssumption ==
  /\ BYTE \in Nat /\ BYTE > 1 /\ EPOCH \in 0 .. W - 1
  /\ CONNECT_ATTEMPTS \in Nat /\ AGE \in Nat /\ SYSTEM_CLEANUP_DELAY \in Nat
  /\ BOOT_TIME \in Nat /\ LAST_SECOND \in Nat /\ BOOT_TIME <= LAST_SECOND /\ LAST_SECOND < W
  /\ Clocks \subseteq 0 .. W - 1
  /\ UNSET \notin Addresses

VARIABLES
  ntp_pc,            (* where udp_request_NTP() is, or "idle"                  *)
  ntp_tries, remote,
  asked,         (* datagrams that were sent in this request, to whom      *)
  answers,       (* datagrams on their way back: when they were stamped    *)
  current_time,  (* the static of udp_ntp.c                                *)
  rtc,           (* what the clock chip shows                              *)
  fat,           (* the file system's time                                 *)
  now,           (* the true time                                          *)
  synced         (* history: when the last answer was handled, UNSET        *)

ntpVars == <<ntp_pc, ntp_tries, remote, asked, answers, current_time, rtc, fat, now, synced>>
clocks == <<current_time, rtc, fat, synced>>

NtpInit ==
  /\ ntp_pc = "idle" /\ ntp_tries = 0 /\ remote = UNSET /\ asked = <<>> /\ answers = {}
  /\ current_time = 0 /\ now = BOOT_TIME /\ rtc \in Clocks /\ fat = 0 /\ synced = UNSET

-----------------------------------------------------------------------------
(* udp_request_NTP(), which task_maintanence() calls once a day.           *)

task_maintanence ==
  /\ ntp_pc = "idle"
  /\ ntp_pc' = "resolve" /\ ntp_tries' = CONNECT_ATTEMPTS /\ remote' = UNSET /\ asked' = <<>>
  /\ UNCHANGED <<answers, clocks, now>>

(* Faulty variant: the test the second loop ends with.                     *)
ResolvedUnlessZero(n) == n # 0

Resolved(n) == n > 0

dnsResolve ==
  /\ ntp_pc = "resolve"
  /\ \E a \in Addresses \cup {UNSET} :
       /\ remote' = a
       /\ IF a = UNSET
            THEN /\ ntp_tries' = ntp_tries - 1
                 /\ ntp_pc' = IF ntp_tries > 0 THEN "resolve"
                          ELSE IF Resolved(ntp_tries - 1) THEN "send" ELSE "idle"
            ELSE /\ ntp_tries' = IF Resolved(ntp_tries) THEN CONNECT_ATTEMPTS ELSE ntp_tries
                 /\ ntp_pc' = IF Resolved(ntp_tries) THEN "send" ELSE "idle"
  /\ UNCHANGED <<asked, answers, clocks, now>>

Again(sent) == ~sent /\ ntp_tries > 0

sendUDP ==
  /\ ntp_pc = "send"
  /\ \E sent \in BOOLEAN :
       /\ ntp_tries' = IF sent THEN ntp_tries ELSE ntp_tries - 1
       /\ ntp_pc' = IF Again(sent) THEN "send" ELSE "idle"
       /\ asked' = IF sent THEN Append(asked, remote) ELSE asked
       /\ answers' \in {answers} \cup (IF sent THEN {answers \cup {now}} ELSE {})
  /\ UNCHANGED <<remote, clocks, now>>

-----------------------------------------------------------------------------
(* udp_handle_NTP(): the seconds since 1900, the highest byte first.       *)
Stamp(t) ==
  LET s == (t + EPOCH) % W
  IN  <<s \div (BYTE * BYTE * BYTE), (s \div (BYTE * BYTE)) % BYTE, (s \div BYTE) % BYTE, s % BYTE>>

(* Faulty variant: the lowest byte first.                                  *)
TimestampSwapped(b) == ((b[4] * BYTE + b[3]) * BYTE + b[2]) * BYTE + b[1]

Timestamp(b) == ((b[1] * BYTE + b[2]) * BYTE + b[3]) * BYTE + b[4]

Epoch(b) == (Timestamp(b) - EPOCH) % W

(* ntp_handler(): both clocks are set, unless the chip agrees already.     *)
ntp_handler(time) ==
  /\ rtc' = time
  /\ fat' = IF time # rtc THEN time ELSE fat

udp_handle_NTP(b) ==
  /\ current_time' = Epoch(b)
  /\ ntp_handler(Epoch(b))

(* An answer may be delivered again, unless it has got lost.               *)
UserUDP ==
  /\ ntp_pc = "idle"
  /\ \E t \in answers :
       /\ udp_handle_NTP(Stamp(t))
       /\ answers' \in {answers, answers \ {t}}
  /\ synced' = now
  /\ UNCHANGED <<ntp_pc, ntp_tries, remote, asked, now>>

-----------------------------------------------------------------------------
(* The scheduler's period for a delay of so many milliseconds.             *)
Period(delay) == IF delay < CLOCK THEN 1 ELSE (delay + CLOCK - 1) \div CLOCK

(* A second, and the beat if it is due.  Requests take no time.            *)
Tick ==
  /\ ntp_pc = "idle" /\ now < LAST_SECOND
  /\ now' = now + 1 /\ rtc' = (rtc + 1) % W
  /\ fat' = IF (now + 1 - BOOT_TIME) % Period(SYSTEM_CLEANUP_DELAY) = 0
               THEN (fat + SYSTEM_CLEANUP_DELAY) % W ELSE fat
  /\ answers' = {t \in answers : now + 1 - t <= AGE}
  /\ UNCHANGED <<ntp_pc, ntp_tries, remote, asked, current_time, synced>>

NtpNext == task_maintanence \/ dnsResolve \/ sendUDP \/ UserUDP \/ Tick

NtpSpec == NtpInit /\ [][NtpNext]_ntpVars

-----------------------------------------------------------------------------
NtpTypeOK ==
  /\ ntp_pc \in {"idle", "resolve", "send"} /\ ntp_tries \in -1 .. CONNECT_ATTEMPTS
  /\ remote \in Addresses \cup {UNSET}
  /\ answers \subseteq BOOT_TIME .. LAST_SECOND /\ {current_time, rtc, fat} \subseteq 0 .. W - 1
  /\ now \in BOOT_TIME .. LAST_SECOND /\ synced \in BOOT_TIME .. LAST_SECOND \cup {UNSET}

(* However the resolver and the transmitter fail, a request puts at most   *)
(* one datagram on the network, and only to an address it was given: the   *)
(* null pointer of a failed lookup is never copied.                        *)
AskedOnce == Len(asked) <= 1 /\ \A k \in 1 .. Len(asked) : asked[k] # UNSET

(* Once an answer was handled the clock is behind the truth by no more     *)
(* than a datagram is delayed, whatever was lost, delivered twice or out   *)
(* of order, and also where the count of seconds since 1900 wraps around.  *)
ClockWithinAge == synced # UNSET => now - rtc \in 0 .. AGE

(* main.c:294 "Runs every 10 seconds - Normal system routines": the beat   *)
(* keeps the file system's time as close as that to the truth, once it     *)
(* was set (by the first answer, when the chip did not show the true time).*)
FatTimeKept == synced # UNSET => now - fat \in -(SYSTEM_CLEANUP_DELAY + AGE) .. SYSTEM_CLEANUP_DELAY + AGE

=============================================================================
