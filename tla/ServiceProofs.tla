---------------------------- MODULE ServiceProofs ----------------------------
(***************************************************************************)
(* Proofs about the services beside the web server, for any number of      *)
(* connections, sockets, names and attempts: an SNTP request asks at most  *)
(* once and an answer sets the clock right; a telnet session gets its own  *)
(* answers, although all share one function pointer, sees no text from     *)
(* before its socket was handed out, and is greeted unless it takes over a *)
(* socket; the catalog lists of every page what was added less what was    *)
(* removed, each entry with a block of memory of its own.                  *)
(***************************************************************************)
EXTENDS Ntp, Telnet, PageCatalog, TLAPS, WellFoundedInduction, FiniteSetTheorems,
        SequenceTheorems

-----------------------------------------------------------------------------
(* The SNTP client.                                                        *)

(* Division.                                                               *)

(* What `/' and `%' leave: the C operators on unsigned numbers.            *)
LEMMA DivMod ==
  ASSUME NEW a \in Int, NEW m \in Nat, m > 0
  PROVE  /\ a \div m \in Int /\ a % m \in 0 .. m - 1
         /\ a = m * (a \div m) + (a % m)
<1>1. a \div m \in Int
  OBVIOUS
<1>2. a % m \in 0 .. m - 1
  OBVIOUS
<1>3. a = m * (a \div m) + (a % m)
  OBVIOUS
<1> QED  BY <1>1, <1>2, <1>3

(* A product of a nonzero whole number is no smaller than the factor.      *)
LEMMA ProductAtLeast ==
  ASSUME NEW m \in Nat, NEW k \in Int, k >= 1
  PROVE  m * k >= m
<1>1. m * (k - 1) >= 0
  OBVIOUS
<1>2. m * k = m * (k - 1) + m
  OBVIOUS
<1> QED  BY <1>1, <1>2

(* Quotient and remainder are what they must be.                           *)
LEMMA DivModUnique ==
  ASSUME NEW m \in Nat, m > 0, NEW q \in Int, NEW p \in Int,
         NEW r \in 0 .. m - 1, NEW s \in 0 .. m - 1, m * q + r = m * p + s
  PROVE  q = p /\ r = s
<1>1. m * (q - p) = s - r /\ m * (p - q) = r - s
  OBVIOUS
<1>2. ~(q - p >= 1)
  BY <1>1, ProductAtLeast
<1>3. ~(p - q >= 1)
  BY <1>1, ProductAtLeast
<1>4. q = p
  BY <1>2, <1>3
<1> QED  BY <1>1, <1>4

LEMMA DivDiv ==
  ASSUME NEW a \in Nat, NEW b \in Nat, NEW c \in Nat, b > 0, c > 0
  PROVE  (a \div b) \div c = a \div (b * c)
<1> DEFINE q == a \div b
           r == q \div c
           rest == b * (q % c) + (a % b)
<1>1. q \in Int /\ a % b \in 0 .. b - 1 /\ a = b * q + (a % b)
  BY DivMod
<1>2. r \in Int /\ q % c \in 0 .. c - 1 /\ q = c * r + (q % c)
  BY <1>1, DivMod
<1>3. b * c \in Nat /\ b * c > 0
  OBVIOUS
<1>4. a = (b * c) * r + rest
  <2>1. b * (c * r + (q % c)) = (b * c) * r + b * (q % c)
    BY <1>1, <1>2
  <2> QED  BY <1>1, <1>2, <2>1
<1>5. rest \in 0 .. (b * c) - 1
  <2>1. b * (c - 1 - (q % c)) >= 0
    BY <1>2
  <2>2. b * (c - 1 - (q % c)) = b * c - b - b * (q % c)
    BY <1>2
  <2>3. b * (q % c) >= 0
    BY <1>2
  <2> QED  BY <1>1, <1>2, <2>1, <2>2, <2>3
<1>6. a \div (b * c) \in Int /\ a % (b * c) \in 0 .. (b * c) - 1
      /\ a = (b * c) * (a \div (b * c)) + (a % (b * c))
  BY <1>3, DivMod
<1> QED  BY <1>2, <1>3, <1>4, <1>5, <1>6, DivModUnique

(* Remainders next to the range of a 32-bit number.                        *)
LEMMA ModNear ==
  ASSUME NEW m \in Nat, m > 0, NEW a \in Int
  PROVE  /\ a \in 0 .. m - 1 => a % m = a
         /\ a \in m .. 2 * m - 1 => a % m = a - m
         /\ a \in -m .. -1 => a % m = a + m
<1>1. a \div m \in Int /\ a % m \in 0 .. m - 1 /\ a = m * (a \div m) + (a % m)
  BY DivMod
<1>2. ASSUME a \in 0 .. m - 1  PROVE a % m = a
  <2>1. a = m * 0 + a
    OBVIOUS
  <2> QED  BY <1>1, <1>2, <2>1, DivModUnique
<1>3. ASSUME a \in m .. 2 * m - 1  PROVE a % m = a - m
  <2>1. a = m * 1 + (a - m) /\ a - m \in 0 .. m - 1
    BY <1>3
  <2> QED  BY <1>1, <2>1, DivModUnique
<1>4. ASSUME a \in -m .. -1  PROVE a % m = a + m
  <2>1. a = m * (-1) + (a + m) /\ a + m \in 0 .. m - 1
    BY <1>4
  <2> QED  BY <1>1, <2>1, DivModUnique
<1> QED  BY <1>2, <1>3, <1>4

-----------------------------------------------------------------------------
(* The time in a datagram.                                                 *)

LEMMA WidthType == W \in Nat /\ W > 0
<1>1. BYTE * BYTE \in Nat /\ BYTE * BYTE > 0
  BY NtpAssumption
<1>2. (BYTE * BYTE) * BYTE \in Nat /\ (BYTE * BYTE) * BYTE > 0
  BY NtpAssumption, <1>1
<1> QED  BY NtpAssumption, <1>2 DEF W

LEMMA TimestampOf ==
  ASSUME NEW a, NEW b, NEW c, NEW d
  PROVE  Timestamp(<<a, b, c, d>>) = ((a * BYTE + b) * BYTE + c) * BYTE + d
  BY DEF Timestamp

(* Four bytes, put together with shifts, are the number they came from.    *)
LEMMA BytesTogether ==
  ASSUME NEW s \in Nat
  PROVE  Timestamp(<<s \div (BYTE * BYTE * BYTE), (s \div (BYTE * BYTE)) % BYTE,
                     (s \div BYTE) % BYTE, s % BYTE>>) = s
<1> DEFINE s1 == s \div BYTE
           s2 == s \div (BYTE * BYTE)
           s3 == s \div (BYTE * BYTE * BYTE)
<1>1. BYTE \in Nat /\ BYTE > 0 /\ BYTE * BYTE \in Nat /\ BYTE * BYTE > 0
  BY NtpAssumption
<1>2. s2 = s1 \div BYTE
  BY <1>1, DivDiv
<1>3. s3 = s2 \div BYTE
  BY <1>1, DivDiv
<1>4. s = BYTE * s1 + (s % BYTE) /\ s1 \in Int /\ s % BYTE \in Int
  BY <1>1, DivMod
<1>5. s1 = BYTE * s2 + (s1 % BYTE) /\ s2 \in Int /\ s1 % BYTE \in Int
  BY <1>1, <1>2, <1>4, DivMod
<1>6. s2 = BYTE * s3 + (s2 % BYTE) /\ s3 \in Int /\ s2 % BYTE \in Int
  BY <1>1, <1>3, <1>5, DivMod
<1> HIDE DEF s1, s2, s3
<1>7. s3 * BYTE + (s2 % BYTE) = s2
  BY <1>1, <1>6
<1>8. s2 * BYTE + (s1 % BYTE) = s1
  BY <1>1, <1>5
<1>9. s1 * BYTE + (s % BYTE) = s
  BY <1>1, <1>4
<1>10. Timestamp(<<s3, s2 % BYTE, s1 % BYTE, s % BYTE>>) = s
  BY <1>7, <1>8, <1>9, TimestampOf
<1> QED  BY <1>10 DEF s1, s2, s3

(* The server stamps the true time in seconds since 1900, which wraps      *)
(* around; the client's subtraction, which wraps around too, undoes it.    *)
THEOREM EpochOfStamp ==
  ASSUME NEW t \in 0 .. W - 1
  PROVE  Epoch(Stamp(t)) = t
<1> DEFINE s == (t + EPOCH) % W
<1>1. W \in Nat /\ W > 0 /\ EPOCH \in 0 .. W - 1
  BY WidthType, NtpAssumption
<1>2. t + EPOCH \in 0 .. W - 1 \/ t + EPOCH \in W .. 2 * W - 1
  BY <1>1
<1>3. s = t + EPOCH \/ s = t + EPOCH - W
  BY <1>1, <1>2, ModNear
<1>4. s \in 0 .. W - 1
  BY <1>1, DivMod
<1>5. Timestamp(Stamp(t)) = s
  BY <1>1, <1>4, BytesTogether DEF Stamp
<1>6. (s - EPOCH) % W = t
  <2> HIDE DEF s
  <2>1. CASE s = t + EPOCH
    BY <1>1, <2>1, ModNear
  <2>2. CASE s = t + EPOCH - W
    <3>1. s - EPOCH = t - W /\ t - W \in -W .. -1
      BY <1>1, <2>2
    <3> QED  BY <1>1, <3>1, ModNear
  <2> QED  BY <1>3, <2>1, <2>2
<1> QED  BY <1>5, <1>6 DEF Epoch

-----------------------------------------------------------------------------
(* The invariant: what the loops of udp_request_NTP() have left, and how   *)
(* old an answer on its way may be.                                        *)

TriesLeft == ntp_pc # "idle" => ntp_tries >= 0

NotAskedYet ==
  /\ asked \in Seq(Addresses \cup {UNSET})
  /\ ntp_pc # "idle" => asked = <<>>
  /\ ntp_pc = "send" => remote # UNSET

AnswersFresh == \A t \in answers : now - t \in 0 .. AGE

NtpInv == NtpTypeOK /\ TriesLeft /\ NotAskedYet /\ AskedOnce /\ AnswersFresh /\ ClockWithinAge

LEMMA NtpInitInv == NtpInit => NtpInv
<1> SUFFICES ASSUME NtpInit PROVE NtpInv
  OBVIOUS
<1>1. W \in Nat /\ W > 0
  BY WidthType
<1>2. NtpTypeOK
  BY <1>1, NtpAssumption DEF NtpInit, NtpTypeOK
<1> QED  BY <1>2 DEF NtpInit, NtpInv, TriesLeft, NotAskedYet, AskedOnce, AnswersFresh, ClockWithinAge

LEMMA AskStep == NtpInv /\ task_maintanence => NtpInv'
<1> SUFFICES ASSUME NtpInv, task_maintanence PROVE NtpInv'
  OBVIOUS
<1>1. NtpTypeOK' /\ TriesLeft'
  BY NtpAssumption DEF NtpInv, task_maintanence, NtpTypeOK, TriesLeft, clocks
<1>2. NotAskedYet' /\ AskedOnce' /\ AnswersFresh' /\ ClockWithinAge'
  BY DEF NtpInv, task_maintanence, NotAskedYet, AskedOnce, AnswersFresh, ClockWithinAge, clocks
<1> QED  BY <1>1, <1>2 DEF NtpInv

(* The count is tested before it is decremented, so it is -1 at the end;   *)
(* an address is kept only while it is positive.                           *)
LEMMA ResolveStep == NtpInv /\ dnsResolve => NtpInv'
<1> SUFFICES ASSUME NtpInv, dnsResolve PROVE NtpInv'
  OBVIOUS
<1>1. ntp_tries \in Int /\ ntp_tries >= 0 /\ asked = <<>>
  BY NtpAssumption DEF NtpInv, dnsResolve, NtpTypeOK, TriesLeft, NotAskedYet
<1>2. NtpTypeOK' /\ TriesLeft'
  BY <1>1, NtpAssumption DEF NtpInv, dnsResolve, NtpTypeOK, TriesLeft, Resolved, clocks
<1>3. NotAskedYet'
  BY <1>1 DEF NtpInv, dnsResolve, NotAskedYet, Resolved
<1>4. AskedOnce' /\ AnswersFresh' /\ ClockWithinAge'
  BY DEF NtpInv, dnsResolve, AskedOnce, AnswersFresh, ClockWithinAge, clocks
<1> QED  BY <1>2, <1>3, <1>4 DEF NtpInv

(* The loop ends with the first datagram that is sent.                     *)
LEMMA SendStep == NtpInv /\ sendUDP => NtpInv'
<1> SUFFICES ASSUME NtpInv, sendUDP PROVE NtpInv'
  OBVIOUS
<1>1. /\ ntp_tries \in 0 .. CONNECT_ATTEMPTS /\ asked = <<>> /\ now \in BOOT_TIME .. LAST_SECOND
      /\ remote \in Addresses /\ W \in Nat
  BY NtpAssumption, WidthType DEF NtpInv, sendUDP, NtpTypeOK, TriesLeft, NotAskedYet
<1>2. PICK sent \in BOOLEAN :
        /\ ntp_tries' = IF sent THEN ntp_tries ELSE ntp_tries - 1
        /\ ntp_pc' = IF Again(sent) THEN "send" ELSE "idle"
        /\ asked' = IF sent THEN Append(asked, remote) ELSE asked
        /\ answers' \in {answers} \cup (IF sent THEN {answers \cup {now}} ELSE {})
  BY DEF sendUDP
<1>3. answers' \subseteq answers \cup {now}
  BY <1>2
<1>4. NtpTypeOK' /\ TriesLeft'
  BY <1>1, <1>2, <1>3, NtpAssumption DEF NtpInv, sendUDP, NtpTypeOK, TriesLeft, Again, clocks
<1>5. NotAskedYet' /\ AskedOnce'
  <2>1. CASE sent
    <3>1. asked' = <<remote>> /\ ntp_pc' = "idle"
      BY <1>1, <1>2, <2>1 DEF Again
    <3> QED  BY <1>1, <3>1, NtpAssumption DEF NotAskedYet, AskedOnce
  <2>2. CASE ~sent
    BY <1>1, <1>2, <2>2 DEF NtpInv, sendUDP, NotAskedYet, AskedOnce, Again
  <2> QED  BY <2>1, <2>2
<1>6. AnswersFresh'
  BY <1>1, <1>3, NtpAssumption DEF NtpInv, sendUDP, AnswersFresh, clocks
<1>7. ClockWithinAge'
  BY DEF NtpInv, sendUDP, ClockWithinAge, clocks
<1> QED  BY <1>4, <1>5, <1>6, <1>7 DEF NtpInv

(* What is put into the clock is the time of the stamp, no older than AGE. *)
LEMMA AnswerStep == NtpInv /\ UserUDP => NtpInv'
<1> SUFFICES ASSUME NtpInv, UserUDP PROVE NtpInv'
  OBVIOUS
<1>1. PICK t \in answers : udp_handle_NTP(Stamp(t)) /\ answers' \in {answers, answers \ {t}}
  BY DEF UserUDP
<1>2. W \in Nat /\ W > 0 /\ t \in BOOT_TIME .. LAST_SECOND /\ now - t \in 0 .. AGE
  BY WidthType DEF NtpInv, NtpTypeOK, AnswersFresh
<1>3. Epoch(Stamp(t)) = t /\ t \in 0 .. W - 1
  BY <1>2, EpochOfStamp, NtpAssumption
<1>4. current_time' = t /\ rtc' = t /\ fat' \in {t, fat} /\ synced' = now
  BY <1>1, <1>3 DEF udp_handle_NTP, ntp_handler, UserUDP
<1>5. answers' \subseteq answers
  BY <1>1
<1>6. NtpTypeOK' /\ TriesLeft'
  BY <1>2, <1>3, <1>4, <1>5, NtpAssumption DEF NtpInv, UserUDP, NtpTypeOK, TriesLeft
<1>7. NotAskedYet' /\ AskedOnce' /\ AnswersFresh'
  BY <1>5 DEF NtpInv, UserUDP, NotAskedYet, AskedOnce, AnswersFresh
<1>8. ClockWithinAge'
  BY <1>2, <1>4 DEF UserUDP, ClockWithinAge
<1> QED  BY <1>6, <1>7, <1>8 DEF NtpInv

(* The clock and the truth advance together; what is too old is lost.      *)
LEMMA TickStep == NtpInv /\ Tick => NtpInv'
<1> SUFFICES ASSUME NtpInv, Tick PROVE NtpInv'
  OBVIOUS
<1>1. /\ W \in Nat /\ W > 0 /\ now \in BOOT_TIME .. LAST_SECOND /\ now < LAST_SECOND
      /\ rtc \in 0 .. W - 1 /\ fat \in 0 .. W - 1
  BY WidthType DEF NtpInv, NtpTypeOK, Tick
<1>2. rtc' = (rtc + 1) % W /\ rtc' \in 0 .. W - 1
  BY <1>1, DivMod DEF Tick
<1>3. fat' \in 0 .. W - 1
  <2>1. (fat + SYSTEM_CLEANUP_DELAY) % W \in 0 .. W - 1
    BY <1>1, DivMod, NtpAssumption
  <2> QED  BY <1>1, <2>1 DEF Tick
<1>4. /\ answers' \subseteq answers /\ now' = now + 1
      /\ UNCHANGED <<ntp_pc, ntp_tries, remote, asked, current_time, synced>>
  BY DEF Tick
<1>5. NtpTypeOK' /\ TriesLeft'
  <2>1. now' \in BOOT_TIME .. LAST_SECOND
    BY <1>1, <1>4, NtpAssumption
  <2> QED  BY <1>2, <1>3, <1>4, <2>1 DEF NtpInv, NtpTypeOK, TriesLeft
<1>6. NotAskedYet' /\ AskedOnce'
  BY DEF NtpInv, Tick, NotAskedYet, AskedOnce
<1>7. AnswersFresh'
  <2> SUFFICES ASSUME NEW t \in answers' PROVE now' - t \in 0 .. AGE
    BY DEF AnswersFresh
  <2>1. t \in answers /\ now + 1 - t <= AGE /\ now - t \in 0 .. AGE /\ t \in BOOT_TIME .. LAST_SECOND
    BY DEF Tick, NtpInv, AnswersFresh, NtpTypeOK
  <2> QED  BY <1>1, <1>4, <2>1, NtpAssumption
<1>8. ClockWithinAge'
  <2> SUFFICES ASSUME synced' # UNSET PROVE now' - rtc' \in 0 .. AGE
    BY DEF ClockWithinAge
  <2>1. now - rtc \in 0 .. AGE
    BY DEF NtpInv, ClockWithinAge, Tick
  <2>2. rtc + 1 \in 0 .. W - 1
    BY <1>1, <2>1, NtpAssumption
  <2>3. rtc' = rtc + 1
    BY <1>1, <1>2, <2>2, ModNear
  <2> QED  BY <1>1, <1>4, <2>1, <2>3, NtpAssumption
<1> QED  BY <1>5, <1>6, <1>7, <1>8 DEF NtpInv

THEOREM NtpInvariant == NtpSpec => []NtpInv
<1>1. NtpInv /\ UNCHANGED ntpVars => NtpInv'
  BY DEF ntpVars, NtpInv, NtpTypeOK, TriesLeft, NotAskedYet, AskedOnce, AnswersFresh, ClockWithinAge
<1>2. NtpInv /\ [NtpNext]_ntpVars => NtpInv'
  BY <1>1, AskStep, ResolveStep, SendStep, AnswerStep, TickStep DEF NtpNext
<1> QED  BY <1>2, NtpInitInv, PTL DEF NtpSpec

(* Type correctness: the counts stay in range, the clocks in their width.  *)
THEOREM NtpTypeCorrect == NtpSpec => []NtpTypeOK
  BY NtpInvariant, PTL DEF NtpInv

(* However often a lookup or a transmission fails, a request puts at most  *)
(* one datagram on the network, to an address that was resolved.           *)
THEOREM RequestAsksOnce == NtpSpec => []AskedOnce
  BY NtpInvariant, PTL DEF NtpInv

(* The clock is never ahead of the truth, nor further behind it than the   *)
(* network may delay an answer, whichever answers come, twice or late.     *)
THEOREM ClockFollowsAnswers == NtpSpec => []ClockWithinAge
  BY NtpInvariant, PTL DEF NtpInv

-----------------------------------------------------------------------------
(* The telnet server.                                                      *)

(* The buffer.                                                             *)

(* A nonempty set of natural numbers has a least element.                  *)
LEMMA LeastElement ==
  ASSUME NEW E \in SUBSET Nat, E # {}
  PROVE  /\ (CHOOSE k \in E : \A j \in E : k <= j) \in E
         /\ \A j \in E : (CHOOSE k \in E : \A i \in E : k <= i) <= j
<1> DEFINE Less == {ss \in Nat \X Nat : ss[1] < ss[2]}
<1>1. IsWellFoundedOn(Less, Nat)
  BY NatLessThanWellFounded DEF OpToRel
<1>2. PICK k \in E : \A j \in E : <<j, k>> \notin Less
  BY <1>1, WFMin
<1>3. \A j \in E : k <= j
  <2> TAKE j \in E
  <2>1. j \in Nat /\ k \in Nat /\ ~(j < k)
    BY <1>2
  <2> QED  BY <2>1
<1> QED  BY <1>3

Buffers == [Cells -> Texts \cup {EMPTY}]

(* Every text in a buffer was written for one of these sessions.          *)
Own(buffer, by) == \A k \in Cells : buffer[k] # EMPTY => buffer[k].to \in by

(* telnet_send_response() sends what stands before the first '\0'.         *)
LEMMA SentPieces ==
  ASSUME NEW buffer \in Buffers, NEW by, Own(buffer, by)
  PROVE  /\ telnet_send_response(buffer) \in Seq(Texts)
         /\ \A k \in 1 .. Len(telnet_send_response(buffer)) :
              telnet_send_response(buffer)[k].to \in by
<1> DEFINE ends == {k \in Cells : buffer[k] = EMPTY}
           end == IF ends = {} THEN CELLS + 1 ELSE CHOOSE k \in ends : \A j \in ends : k <= j
<1>1. CELLS \in Nat /\ Cells \subseteq Nat
  BY TelnetAssumption DEF Cells
<1>2. end \in 1 .. CELLS + 1 /\ \A j \in ends : end <= j
  <2>1. CASE ends = {}
    BY <1>1, <2>1
  <2>2. CASE ends # {}
    <3>1. end \in ends /\ \A j \in ends : end <= j
      BY <1>1, <2>2, LeastElement
    <3> QED  BY <1>1, <3>1 DEF Cells
  <2> QED  BY <2>1, <2>2
<1>3. \A k \in 1 .. end - 1 : k \in Cells /\ buffer[k] # EMPTY
  <2> HIDE DEF end
  <2> QED  BY <1>1, <1>2 DEF Cells
<1>4. telnet_send_response(buffer) = [k \in 1 .. end - 1 |-> buffer[k]]
  BY DEF telnet_send_response
<1> HIDE DEF end, ends
<1>5. \A k \in 1 .. end - 1 : buffer[k] \in Texts /\ buffer[k].to \in by
  BY <1>3 DEF Buffers, Own
<1>6. end - 1 \in Nat
  BY <1>1, <1>2
<1> QED  BY <1>4, <1>5, <1>6

(* A string of one piece is sent alone, whatever was in the buffer.        *)
LEMMA SentString ==
  ASSUME NEW buffer \in Buffers, NEW to \in Sessions, NEW cmd \in Commands \cup {"invalid"}
  PROVE  telnet_send_response(Strcpy(buffer, to, cmd)) = <<Text(to, cmd)>>
<1> DEFINE b == Strcpy(buffer, to, cmd)
           ends == {k \in Cells : b[k] = EMPTY}
<1>1. CELLS \in Nat /\ 1 \in Cells /\ 2 \in Cells /\ Cells \subseteq Nat
  BY TelnetAssumption DEF Cells
<1>2. b[1] = Text(to, cmd) /\ b[2] = EMPTY
  BY <1>1 DEF Strcpy, Buffers
<1>3. Text(to, cmd) # EMPTY
  BY TelnetAssumption DEF Text, Texts
<1> HIDE DEF b
<1>4. 2 \in ends /\ 1 \notin ends
  BY <1>1, <1>2, <1>3
<1>5. \A j \in ends : 2 <= j
  BY <1>4 DEF Cells
<1> DEFINE end == IF ends = {} THEN CELLS + 1 ELSE CHOOSE k \in ends : \A j \in ends : k <= j
<1>6. end = 2
  <2>1. end \in ends /\ \A j \in ends : end <= j
    BY <1>1, <1>4, LeastElement
  <2> HIDE DEF end
  <2>2. end <= 2 /\ 2 <= end /\ end \in Nat
    BY <1>1, <1>4, <1>5, <2>1
  <2> QED  BY <2>2
<1>7. telnet_send_response(b) = [k \in 1 .. end - 1 |-> b[k]]
  BY DEF telnet_send_response
<1> HIDE DEF end
<1>8. telnet_send_response(b) = [k \in 1 .. 1 |-> b[k]]
  BY <1>6, <1>7
<1> QED  BY <1>2, <1>8 DEF b

-----------------------------------------------------------------------------
(* The invariant: the buffer of a socket in use holds text of the sessions *)
(* its slot has had since it was handed out; the session it was handed out *)
(* to is past the greeting.                                                *)

SocketType == [state : {"IDLE", "GET_COMMAND", "SEND_MENU"}, eth : Conns \cup {NULL},
               since : Nat, buffer : Buffers]

SlotStates == {"open", "closing", "closed"}

SaidTexts == [to : Sessions, says : Commands \cup {"invalid", "header", "menu", "goodbye"}]

HeardType ==
  /\ heard.to \in Sessions \cup {NULL} /\ heard.since \in Nat
  /\ heard.asked \in Commands \cup {NULL}
  /\ heard.said \in Seq(SaidTexts)
  /\ heard.met \subseteq Sessions

(* What socket s has in its buffer, and what its session has heard.        *)
Writing(s) == Writers(s.eth, s.since, session[s.eth])
Greeted(s) ==
  /\ s.eth \in Conns /\ s.since <= session[s.eth]
  /\ s.since = session[s.eth] => Session(s.eth) \in heard.met

OwnText == \A b \in pool : Own(memory[b].buffer, Writing(memory[b]))

InUseGreeted == \A b \in pool : memory[b].state # "IDLE" /\ Greeted(memory[b])

HeardIsMet == heard.said # <<>> => heard.to \in heard.met

TelnetInv ==
  /\ memory \in [Blocks -> SocketType] /\ HeardType
  /\ pool \subseteq Blocks /\ tcp \in [Conns -> SlotStates]
  /\ session \in [Conns -> Nat] /\ \A c \in Conns : session[c] <= SESSIONS[c]
  /\ action_command \in Commands \cup {"invalid", NULL}
  /\ OwnText /\ InUseGreeted /\ HeardIsMet /\ AnswersOwnCommand

LEMMA TelnetInitInv == TelnetInit => TelnetInv
<1> SUFFICES ASSUME TelnetInit PROVE TelnetInv
  OBVIOUS
<1>1. Cleared \in Buffers
  BY DEF Cleared, Buffers
<1>2. memory \in [Blocks -> SocketType]
  BY <1>1 DEF TelnetInit, SocketType
<1>3. HeardType /\ HeardIsMet
  BY DEF TelnetInit, HeardType, HeardIsMet
<1>4. OwnText /\ InUseGreeted
  BY DEF TelnetInit, OwnText, InUseGreeted
<1>5. AnswersOwnCommand
  BY TelnetAssumption DEF TelnetInit, AnswersOwnCommand, Commands
<1>6. session \in [Conns -> Nat] /\ \A c \in Conns : session[c] <= SESSIONS[c]
  BY TelnetAssumption DEF TelnetInit
<1> QED  BY <1>2, <1>3, <1>4, <1>5, <1>6 DEF TelnetInit, TelnetInv, SlotStates

-----------------------------------------------------------------------------
(* The steps of a session, with the block of memory it has.                *)

(* The session that has a slot is one of those that may write.             *)
LEMMA SessionWrites ==
  ASSUME TelnetInv, NEW s \in SocketType, s.eth \in Conns, s.since <= session[s.eth]
  PROVE  /\ Session(s.eth) \in Writing(s) /\ Session(s.eth) \in Sessions
         /\ Session(s.eth).slot = s.eth /\ Session(s.eth).nr = session[s.eth]
<1>1. session[s.eth] \in Nat /\ s.since \in Nat
  BY DEF TelnetInv, SocketType
<1>2. session[s.eth] \in s.since .. session[s.eth]
  BY <1>1
<1> QED  BY <1>1, <1>2 DEF Writing, Writers, Session, Sessions

LEMMA Pieces ==
  ASSUME NEW S, NEW x \in S, NEW y \in S
  PROVE  /\ <<x>> \in Seq(S) /\ <<x, y>> \in Seq(S)
         /\ <<x>> \o <<y>> = <<x, y>> /\ <<>> \o <<y>> = <<y>>
<1>1. <<x>> \in Seq(S) /\ <<x, y>> \in Seq(S) /\ <<y>> \in Seq(S)
  OBVIOUS
<1>2. <<x>> \o <<y>> \in Seq(S) /\ Len(<<x>> \o <<y>>) = 2
      /\ (<<x>> \o <<y>>)[1] = x /\ (<<x>> \o <<y>>)[2] = y
  <2>1. Len(<<x>>) = 1 /\ Len(<<y>>) = 1
    OBVIOUS
  <2> QED  BY <1>1, <2>1, ConcatProperties
<1>3. <<x>> \o <<y>> = <<x, y>>
  <2> DEFINE l == <<x>> \o <<y>>
             r == <<x, y>>
  <2>1. l \in Seq(S) /\ Len(l) = 2 /\ l[1] = x /\ l[2] = y
    BY <1>2
  <2>2. r \in Seq(S) /\ Len(r) = 2 /\ r[1] = x /\ r[2] = y
    BY <1>1
  <2> HIDE DEF l, r
  <2>3. \A k \in 1 .. Len(l) : l[k] = r[k]
    BY <2>1, <2>2
  <2>4. l = r
    BY <2>1, <2>2, <2>3, SeqEqual
  <2> QED  BY <2>4 DEF l, r
<1>4. <<>> \o <<y>> = <<y>>
  BY <1>1, ConcatEmptySeq
<1> QED  BY <1>1, <1>3, <1>4

(* What a step of socket s leaves behind in its block, and what it says.   *)
Leaves(b, s, state, buffer) ==
  memory' = [memory EXCEPT ![b] = [s EXCEPT !.state = state, !.buffer = buffer]]

(* A step that says only what the slot's sessions have written, and leaves *)
(* no other text behind, keeps the invariant but for the answer.           *)
LEMMA SocketStep ==
  ASSUME TelnetInv, NEW b \in Blocks, NEW s \in SocketType, s.eth \in Conns,
         s.since <= session[s.eth],
         NEW state \in {"GET_COMMAND", "SEND_MENU"}, NEW buffer \in Buffers,
         Own(buffer, Writing(s)),
         NEW command \in Commands \cup {NULL}, NEW said \in Seq(SaidTexts),
         \A k \in 1 .. Len(said) : said[k].to \in Writing(s),
         s.since = session[s.eth] => Session(s.eth) \in heard.met \/ said # <<>>,
         Leaves(b, s, state, buffer), Says(s, command, said),
         pool' \subseteq pool \cup {b}, tcp' \in [Conns -> SlotStates], session' = session,
         action_command' \in Commands \cup {"invalid", NULL},
         command \in {"m", "a"} =>
           said = <<Text(Session(s.eth), telnet_get_response(command))>>
  PROVE  TelnetInv'
<1> DEFINE next == [s EXCEPT !.state = state, !.buffer = buffer]
           to == Session(s.eth)
<1>1. /\ next \in SocketType /\ next.state = state /\ next.eth = s.eth
      /\ next.since = s.since /\ next.buffer = buffer
  BY DEF SocketType
<1>2. to \in Writing(s) /\ to \in Sessions /\ to.slot = s.eth /\ to.nr = session[s.eth]
  BY SessionWrites
<1>3. memory' = [memory EXCEPT ![b] = next] /\ memory \in [Blocks -> SocketType]
  BY DEF Leaves, TelnetInv
<1>4. /\ heard'.to = to /\ heard'.since = s.since /\ heard'.asked = command /\ heard'.said = said
      /\ heard'.met = heard.met \cup (IF said = <<>> THEN {} ELSE {to})
  BY DEF Says
<1> HIDE DEF next, to
<1>5. memory' \in [Blocks -> SocketType]
  BY <1>1, <1>3
<1>6. \A d \in Blocks : memory'[d] = IF d = b THEN next ELSE memory[d]
  BY <1>3
<1>7. HeardType' /\ HeardIsMet'
  <2>1. heard.met \subseteq Sessions /\ s.since \in Nat
    BY DEF TelnetInv, HeardType, SocketType
  <2> QED  BY <1>2, <1>4, <2>1 DEF HeardType, HeardIsMet
<1>8. \A d \in pool' : d \in Blocks /\ (d # b => d \in pool)
  BY DEF TelnetInv
<1>9. \A r \in SocketType : Writing(r)' = Writers(r.eth, r.since, session[r.eth])
  BY DEF Writing
<1>10. OwnText'
  <2> SUFFICES ASSUME NEW d \in pool' PROVE Own(memory'[d].buffer, Writing(memory[d])')
    BY DEF OwnText
  <2>1. Writing(memory[d])' = Writers(memory'[d].eth, memory'[d].since, session[memory'[d].eth])
    BY DEF Writing
  <2>2. CASE d = b
    BY <1>1, <1>6, <2>1, <2>2 DEF Writing
  <2>3. CASE d # b
    BY <1>6, <1>8, <2>1, <2>3 DEF TelnetInv, OwnText, Writing
  <2> QED  BY <2>2, <2>3
<1>11. InUseGreeted'
  <2> SUFFICES ASSUME NEW d \in pool' PROVE memory'[d].state # "IDLE" /\ Greeted(memory[d])'
    BY DEF InUseGreeted
  <2>1. heard.met \subseteq heard'.met /\ (said # <<>> => to \in heard'.met)
    BY <1>4
  <2>2. \A c : Session(c)' = Session(c)
    BY DEF Session
  <2>3. CASE d = b
    <3>1. memory'[d] = next
      BY <1>6, <1>8, <2>3
    <3>2. next.state # "IDLE"
      BY <1>1
    <3>3. s.since = session[s.eth] => Session(s.eth) \in heard'.met
      BY <2>1 DEF to
    <3> QED  BY <1>1, <2>2, <3>1, <3>2, <3>3 DEF Greeted
  <2>4. CASE d # b
    <3>1. memory'[d] = memory[d] /\ d \in pool
      BY <1>6, <1>8, <2>4
    <3> QED  BY <2>1, <2>2, <3>1 DEF TelnetInv, InUseGreeted, Greeted
  <2> QED  BY <2>3, <2>4
<1>12. AnswersOwnCommand'
  <2>1. Writers(heard'.to.slot, heard'.since, heard'.to.nr) = Writing(s)
    BY <1>2, <1>4 DEF Writing
  <2>2. \A k \in 1 .. Len(heard'.said) :
          heard'.said[k].to \in Writers(heard'.to.slot, heard'.since, heard'.to.nr)
    BY <1>4, <2>1
  <2>3. heard'.asked \in {"m", "a"} =>
          heard'.said = <<Text(heard'.to, telnet_get_response(heard'.asked))>>
    BY <1>4 DEF to
  <2> QED  BY <2>2, <2>3 DEF AnswersOwnCommand
<1>13. pool' \subseteq Blocks
  BY DEF TelnetInv
<1> QED  BY <1>5, <1>7, <1>10, <1>11, <1>12, <1>13 DEF TelnetInv

(* The first a session hears on a socket_t of its own.                     *)
Greeting ==
  heard'.to \notin heard.met /\ heard'.said # <<>> /\ heard'.since = heard'.to.nr =>
    heard'.said = <<Text(heard'.to, "header"), Text(heard'.to, "menu")>>

(* The greeting, and the menu before the next command.                     *)
LEMMA MenuStep ==
  ASSUME TelnetInv, NEW b \in Blocks, NEW s \in SocketType, s.eth \in Conns,
         s.since <= session[s.eth], Own(s.buffer, Writing(s)),
         s.state = "IDLE" \/ Greeted(s),
         SendMenu(b, s), pool' \subseteq pool \cup {b}, session' = session
  PROVE  TelnetInv' /\ Greeting
<1> DEFINE to == Session(s.eth)
           header == Text(to, "header")
           menu == Text(to, "menu")
           said == (IF s.state = "IDLE" THEN <<header>> ELSE <<>>) \o <<menu>>
<1>1. to \in Writing(s) /\ to \in Sessions /\ to.nr = session[s.eth]
  BY SessionWrites
<1>2. /\ header \in SaidTexts /\ menu \in SaidTexts
      /\ header.to \in Writing(s) /\ menu.to \in Writing(s)
  BY <1>1 DEF Text, SaidTexts
<1>3. said = IF s.state = "IDLE" THEN <<header, menu>> ELSE <<menu>>
  <2>1. <<header>> \o <<menu>> = <<header, menu>> /\ <<>> \o <<menu>> = <<menu>>
    <3> HIDE DEF header, menu
    <3> QED  BY <1>2, Pieces
  <2> QED  BY <2>1
<1>4. /\ Says(s, NULL, said) /\ tcp' = tcp /\ action_command' = action_command
      /\ memory' = [memory EXCEPT ![b] = [s EXCEPT !.state = "GET_COMMAND"]]
  BY DEF SendMenu
<1> HIDE DEF said
<1>5. /\ said \in Seq(SaidTexts) /\ said # <<>>
      /\ \A k \in 1 .. Len(said) : said[k].to \in Writing(s)
  <2> HIDE DEF header, menu, SaidTexts
  <2>1. CASE s.state = "IDLE"
    <3>1. said = <<header, menu>>
      BY <1>3, <2>1
    <3> QED  BY <1>2, <3>1, Pieces
  <2>2. CASE s.state # "IDLE"
    <3>1. said = <<menu>>
      BY <1>3, <2>2
    <3> QED  BY <1>2, <3>1, Pieces
  <2> QED  BY <2>1, <2>2
<1>6. Leaves(b, s, "GET_COMMAND", s.buffer)
  <2>1. [s EXCEPT !.state = "GET_COMMAND"] =
          [s EXCEPT !.state = "GET_COMMAND", !.buffer = s.buffer]
    BY DEF SocketType
  <2> QED  BY <1>4, <2>1 DEF Leaves
<1>7. /\ s.buffer \in Buffers /\ NULL \in Commands \cup {NULL} /\ NULL \notin {"m", "a"}
      /\ tcp' \in [Conns -> SlotStates] /\ action_command' \in Commands \cup {"invalid", NULL}
  BY <1>4, TelnetAssumption DEF SocketType, Commands, TelnetInv
<1>8. TelnetInv'
  <2> HIDE DEF to, header, menu
  <2> QED  BY <1>4, <1>5, <1>6, <1>7, SocketStep
<1>9. Greeting
  <2>1. heard'.to = to /\ heard'.since = s.since /\ heard'.said = said
    BY <1>4 DEF Says
  <2>2. CASE s.state = "IDLE"
    BY <1>3, <2>1, <2>2 DEF Greeting
  <2>3. CASE Greeted(s)
    BY <1>1, <2>1, <2>3 DEF Greeting, Greeted
  <2> QED  BY <2>2, <2>3
<1> QED  BY <1>8, <1>9

(* A command leaves text for its own session behind, or what was there.    *)
LEMMA AnswerText ==
  ASSUME NEW buffer \in Buffers, NEW to \in Sessions, NEW action \in {"m", "l", "c", "invalid"},
         NEW size \in LogSizes \cup {NULL}, NEW by, to \in by, Own(buffer, by)
  PROVE  /\ Answer(buffer, to, action, size) \in Buffers
         /\ Own(Answer(buffer, to, action, size), by)
<1>1. \A cmd \in Commands \cup {"invalid"} : Text(to, cmd) \in Texts /\ Text(to, cmd).to = to
  BY DEF Text, Texts
<1>2. ASSUME NEW cmd \in {"m", "l", "invalid"}
      PROVE  Strcpy(buffer, to, cmd) \in Buffers /\ Own(Strcpy(buffer, to, cmd), by)
  <2>1. cmd \in Commands \cup {"invalid"}
    BY DEF Commands
  <2>2. \A k \in Cells : Strcpy(buffer, to, cmd)[k] \in {Text(to, cmd), EMPTY, buffer[k]}
    BY TelnetAssumption DEF Strcpy, Buffers
  <2>3. Strcpy(buffer, to, cmd) \in Buffers
    BY <1>1, <2>1 DEF Strcpy, Buffers
  <2> QED  BY <1>1, <2>1, <2>2, <2>3 DEF Own
<1>3. CASE action = "c"
  BY <1>3 DEF Answer
<1>4. CASE action = "l"
  <2> DEFINE log == [k \in Cells |-> IF k <= size THEN Text(to, "l") ELSE buffer[k]]
  <2>1. "l" \in Commands
    BY DEF Commands
  <2>2. log \in Buffers /\ Own(log, by)
    BY <1>1, <2>1 DEF Buffers, Own
  <2>3. Answer(buffer, to, action, size) \in {Strcpy(buffer, to, "l"), log}
    BY <1>4 DEF Answer, telnet_cmd_list_log
  <2> QED  BY <1>2, <2>2, <2>3
<1>5. CASE action \in {"m", "invalid"}
  <2>1. Answer(buffer, to, action, size) = Strcpy(buffer, to, action)
    BY <1>5 DEF Answer
  <2> QED  BY <1>2, <1>5, <2>1
<1> QED  BY <1>3, <1>4, <1>5

(* The command, its answer, and the menu next; `x' frees the block, which  *)
(* keeps what was in it.                                                   *)
LEMMA CommandStep ==
  ASSUME TelnetInv, NEW command \in Commands \cup {NULL}, NEW b \in pool,
         GetCommand(b, memory[b], command), session' = session
  PROVE  TelnetInv' /\ Greeting
<1> DEFINE s == memory[b]
           action == telnet_get_response(command)
           to == Session(s.eth)
<1>1. /\ b \in Blocks /\ s \in SocketType /\ Greeted(s) /\ s.buffer \in Buffers
      /\ s.eth \in Conns /\ s.since <= session[s.eth] /\ Own(s.buffer, Writing(s))
      /\ command \in Commands /\ action_command' = action
      /\ SendResponse(b, s, command)
  BY DEF TelnetInv, SocketType, OwnText, InUseGreeted, GetCommand, AfterCommand, Greeted
<1>2. action \in {"m", "l", "c", "x", "invalid"}
  BY <1>1 DEF telnet_get_response, Commands
<1>3. to \in Writing(s) /\ to \in Sessions /\ to.nr = session[s.eth]
  BY <1>1, SessionWrites
<1>4. PICK size \in LogSizes \cup {NULL} :
        LET buffer == IF action = "x" THEN s.buffer ELSE Answer(s.buffer, to, action, size)
        IN  /\ memory' = [memory EXCEPT ![b] = [s EXCEPT !.state = "SEND_MENU", !.buffer = buffer]]
            /\ Says(s, command, (IF action = "x" THEN <<Text(to, "goodbye")>> ELSE <<>>)
                                  \o telnet_send_response(buffer))
  BY <1>1 DEF SendResponse
<1> DEFINE buffer == IF action = "x" THEN s.buffer ELSE Answer(s.buffer, to, action, size)
           sent == telnet_send_response(buffer)
           said == (IF action = "x" THEN <<Text(to, "goodbye")>> ELSE <<>>) \o sent
<1>5. buffer \in Buffers /\ Own(buffer, Writing(s))
  <2> HIDE DEF s, to
  <2>1. CASE action = "x"
    BY <1>1, <2>1
  <2>2. CASE action # "x"
    BY <1>1, <1>2, <1>3, <2>2, AnswerText
  <2> QED  BY <2>1, <2>2
<1>6. Leaves(b, s, "SEND_MENU", buffer) /\ Says(s, command, said)
  BY <1>4 DEF Leaves
<1>7. said \in Seq(SaidTexts) /\ \A k \in 1 .. Len(said) : said[k].to \in Writing(s)
  <2>1. Texts \subseteq SaidTexts
    BY DEF Texts, SaidTexts
  <2>2. sent \in Seq(SaidTexts) /\ \A k \in 1 .. Len(sent) : sent[k].to \in Writing(s)
    <3> HIDE DEF buffer
    <3>1. sent \in Seq(Texts) /\ \A k \in 1 .. Len(sent) : sent[k].to \in Writing(s)
      BY <1>5, SentPieces
    <3> QED  BY <2>1, <3>1, SeqMonotonic
  <2> DEFINE goodbye == Text(to, "goodbye")
  <2>3. goodbye \in SaidTexts /\ goodbye.to \in Writing(s)
    BY <1>3 DEF Text, SaidTexts
  <2> HIDE DEF sent
  <2>4. CASE action = "x"
    <3>1. said = <<goodbye>> \o sent
      BY <2>4
    <3> HIDE DEF said, goodbye
    <3>2. <<goodbye>> \in Seq(SaidTexts) /\ Len(<<goodbye>>) = 1 /\ <<goodbye>>[1] = goodbye
      BY <2>3
    <3>3. said \in Seq(SaidTexts) /\ Len(said) = 1 + Len(sent)
          /\ \A k \in 1 .. 1 + Len(sent) : said[k] = IF k <= 1 THEN goodbye ELSE sent[k - 1]
      BY <2>2, <3>1, <3>2, ConcatProperties
    <3>4. Len(sent) \in Nat
      BY <2>2
    <3>5. ASSUME NEW k \in 1 .. Len(said) PROVE said[k].to \in Writing(s)
      <4>1. CASE k = 1
        BY <2>3, <3>3, <3>4, <4>1
      <4>2. CASE k # 1
        <5>1. k - 1 \in 1 .. Len(sent) /\ said[k] = sent[k - 1]
          BY <3>3, <3>4, <3>5, <4>2
        <5> QED  BY <2>2, <5>1
      <4> QED  BY <4>1, <4>2
    <3> QED  BY <3>3, <3>5
  <2>5. CASE action # "x"
    <3>1. said = <<>> \o sent
      BY <2>5
    <3>2. said = sent
      BY <2>2, <3>1, ConcatEmptySeq
    <3> QED  BY <2>2, <3>2
  <2> QED  BY <2>4, <2>5
<1>8. command \in {"m", "a"} => said = <<Text(to, action)>>
  <2> SUFFICES ASSUME command \in {"m", "a"} PROVE said = <<Text(to, action)>>
    OBVIOUS
  <2>1. action \in {"m", "invalid"} /\ action \in Commands \cup {"invalid"}
    BY DEF telnet_get_response, Commands
  <2>2. buffer = Strcpy(s.buffer, to, action)
    BY <2>1 DEF Answer
  <2>3. sent = <<Text(to, action)>>
    BY <1>1, <1>3, <2>1, <2>2, SentString
  <2>4. said = <<>> \o <<Text(to, action)>>
    BY <2>1, <2>3
  <2> QED  BY <2>4, Pieces
<1>9. /\ pool' \subseteq pool \cup {b} /\ tcp' \in [Conns -> SlotStates]
      /\ action_command' \in Commands \cup {"invalid", NULL}
  BY <1>1, <1>2 DEF TelnetInv, SendResponse, close_telnet_socket, Commands, SlotStates
<1>10. s.since = session[s.eth] => to \in heard.met
  BY <1>1 DEF Greeted
<1> HIDE DEF said, buffer, s
<1>11. TelnetInv'
  BY <1>1, <1>5, <1>6, <1>7, <1>8, <1>9, <1>10, SocketStep
<1>12. heard'.to = to /\ heard'.since = s.since
  BY <1>6 DEF Says
<1> HIDE DEF to
<1>13. Greeting
  BY <1>3, <1>10, <1>12 DEF Greeting
<1> QED  BY <1>11, <1>13

(* One packet of a connection.                                             *)
LEMMA RequestStep ==
  ASSUME TelnetInv, NEW c \in Conns, NEW command \in Commands \cup {NULL},
         telnet_handle_request(c, command)
  PROVE  TelnetInv' /\ Greeting
<1>1. ASSUME NEW b \in InUse(c)
      PROVE  /\ b \in Blocks /\ b \in pool /\ memory[b].state # "SEND_RESPONSE"
             /\ memory[b] \in SocketType /\ Greeted(memory[b]) /\ memory[b].eth \in Conns
             /\ memory[b].since <= session[memory[b].eth]
             /\ Own(memory[b].buffer, Writing(memory[b]))
  BY DEF TelnetInv, SocketType, OwnText, InUseGreeted, InUse, Greeted
<1>2. session' = session
  BY DEF telnet_handle_request
<1>3. ASSUME NEW b \in InUse(c), SendMenu(b, memory[b]), UNCHANGED pool
      PROVE  TelnetInv' /\ Greeting
  BY <1>1, <1>2, <1>3, MenuStep
<1>4. ASSUME NEW b \in InUse(c), GetCommand(b, memory[b], command)
      PROVE  TelnetInv' /\ Greeting
  BY <1>1, <1>2, <1>4, CommandStep
<1>5. ASSUME NEW b \in Blocks \ pool, SendMenu(b, initialize_new_socket(memory[b], c)),
             pool' = pool \cup {b}
      PROVE  TelnetInv' /\ Greeting
  <2> DEFINE s == initialize_new_socket(memory[b], c)
  <2>1. session[c] \in Nat
    BY DEF TelnetInv
  <2>2. /\ s \in SocketType /\ s.eth = c /\ s.since = session[c]
        /\ s.state = "IDLE" /\ \A k \in Cells : s.buffer[k] = EMPTY
    BY <2>1 DEF initialize_new_socket, Cleared, Buffers, SocketType
  <2> HIDE DEF s
  <2>3. Own(s.buffer, Writing(s)) /\ s.since <= session[s.eth]
    BY <2>1, <2>2 DEF Own
  <2>4. SendMenu(b, s)
    BY <1>5 DEF s
  <2> QED  BY <1>2, <1>5, <2>2, <2>3, <2>4, MenuStep
<1>6. \/ \E b \in InUse(c) : SendMenu(b, memory[b]) /\ UNCHANGED pool
      \/ \E b \in InUse(c) : GetCommand(b, memory[b], command)
      \/ \E b \in Blocks \ pool : SendMenu(b, initialize_new_socket(memory[b], c))
                                     /\ pool' = pool \cup {b}
  BY <1>1 DEF telnet_handle_request, initialize_new_socket
<1> QED  BY <1>3, <1>4, <1>5, <1>6

(* The beat closes a session, which is told so if it is still there.       *)
LEMMA CleanupStep ==
  ASSUME TelnetInv, socket_manager_cleanup
  PROVE  TelnetInv' /\ Greeting
<1> DEFINE Word(s) == IF tcp[s.eth] = "closed" THEN <<>> ELSE <<Text(Session(s.eth), "goodbye")>>
<1>1. PICK b \in pool : /\ close_telnet_socket(b, memory[b].eth)
                        /\ Says(memory[b], NULL, Word(memory[b]))
  BY DEF socket_manager_cleanup
<1> DEFINE s == memory[b]
           to == Session(s.eth)
           goodbye == Text(to, "goodbye")
           said == Word(s)
<1>2. /\ s \in SocketType /\ Greeted(s) /\ s.eth \in Conns /\ s.since <= session[s.eth]
      /\ s.since \in Nat
  BY DEF TelnetInv, InUseGreeted, Greeted, SocketType
<1>3. to \in Writing(s) /\ to \in Sessions /\ to.slot = s.eth /\ to.nr = session[s.eth]
  BY <1>2, SessionWrites
<1>4. goodbye \in SaidTexts /\ goodbye.to \in Writing(s)
  BY <1>3 DEF Text, SaidTexts
<1>5. said \in Seq(SaidTexts) /\ \A k \in 1 .. Len(said) : said[k].to \in Writing(s)
  <2> HIDE DEF goodbye, s
  <2>1. said = <<>> \/ said = <<goodbye>>
    BY DEF goodbye
  <2>2. <<goodbye>> \in Seq(SaidTexts) /\ Len(<<goodbye>>) = 1 /\ <<goodbye>>[1] = goodbye
    BY <1>4
  <2> QED  BY <1>4, <2>1, <2>2
<1>6. /\ heard'.to = to /\ heard'.since = s.since /\ heard'.asked = NULL /\ heard'.said = said
      /\ heard'.met = heard.met \cup (IF said = <<>> THEN {} ELSE {to})
  BY <1>1 DEF Says
<1>7. /\ pool' \subseteq pool /\ tcp' \in [Conns -> SlotStates]
      /\ memory' = memory /\ session' = session /\ action_command' = action_command
  BY <1>1 DEF socket_manager_cleanup, close_telnet_socket, TelnetInv, SlotStates
<1> HIDE DEF said, goodbye, to, s
<1>8. HeardType' /\ HeardIsMet'
  BY <1>2, <1>3, <1>5, <1>6 DEF TelnetInv, HeardType, HeardIsMet
<1>9. AnswersOwnCommand'
  <2>1. Writers(heard'.to.slot, heard'.since, heard'.to.nr) = Writing(s)
    BY <1>3, <1>6 DEF Writing
  <2>2. NULL \notin {"m", "a"}
    BY TelnetAssumption DEF Commands
  <2> QED  BY <1>5, <1>6, <2>1, <2>2 DEF AnswersOwnCommand
<1>10. OwnText'
  BY <1>7 DEF TelnetInv, OwnText, Writing, Own
<1>11. InUseGreeted'
  BY <1>6, <1>7 DEF TelnetInv, InUseGreeted, Greeted, Session
<1>12. Greeting
  BY <1>2, <1>3, <1>6 DEF Greeting, Greeted, to
<1> QED  BY <1>7, <1>8, <1>9, <1>10, <1>11, <1>12 DEF TelnetInv

(* Connections come and go without a word; a slot that is used again takes *)
(* over what is in its socket_t.                                           *)
LEMMA ConnectionStep ==
  ASSUME TelnetInv, UNCHANGED <<memory, pool, action_command, heard>>,
         tcp' \in [Conns -> SlotStates], session' \in [Conns -> Nat],
         \A c \in Conns : session[c] <= session'[c] /\ session'[c] <= SESSIONS[c]
  PROVE  TelnetInv' /\ Greeting
<1>1. HeardType' /\ HeardIsMet' /\ AnswersOwnCommand'
  BY DEF TelnetInv, HeardType, HeardIsMet, AnswersOwnCommand
<1>2. ASSUME NEW b \in pool
      PROVE  /\ memory[b].eth \in Conns /\ memory[b].since \in Nat
             /\ memory[b].since <= session[memory[b].eth]
             /\ session[memory[b].eth] \in Nat /\ session'[memory[b].eth] \in Nat
             /\ session[memory[b].eth] <= session'[memory[b].eth]
  BY DEF TelnetInv, SocketType, InUseGreeted, Greeted
<1>3. OwnText'
  <2> SUFFICES ASSUME NEW b \in pool PROVE Own(memory[b].buffer, Writing(memory[b])')
    BY DEF OwnText, Own
  <2> DEFINE s == memory[b]
             low == s.since
             old == session[s.eth]
             new == session'[s.eth]
  <2>1. low .. old \subseteq low .. new
    <3>1. low \in Nat /\ old \in Nat /\ new \in Nat /\ old <= new
      BY <1>2
    <3> HIDE DEF low, old, new
    <3> QED  BY <3>1
  <2>2. Writing(s) = Writers(s.eth, low, old) /\ Writing(s)' = Writers(s.eth, low, new)
    BY DEF Writing
  <2> HIDE DEF low, old, new
  <2>3. Writing(s) \subseteq Writing(s)'
    BY <2>1, <2>2 DEF Writers
  <2>4. Own(s.buffer, Writing(s))
    BY DEF TelnetInv, OwnText
  <2> QED  BY <2>3, <2>4 DEF Own
<1>4. InUseGreeted'
  <2> SUFFICES ASSUME NEW b \in pool PROVE memory[b].state # "IDLE" /\ Greeted(memory[b])'
    BY DEF InUseGreeted
  <2>1. memory[b].state # "IDLE" /\ Greeted(memory[b])
    BY DEF TelnetInv, InUseGreeted
  <2>2. memory[b].since = session'[memory[b].eth] => session[memory[b].eth] = session'[memory[b].eth]
    BY <1>2
  <2>3. memory[b].since <= session'[memory[b].eth]
    BY <1>2
  <2> QED  BY <1>2, <2>1, <2>2, <2>3 DEF Greeted, Session
<1>5. Greeting
  BY DEF Greeting, TelnetInv, HeardIsMet
<1> QED  BY <1>1, <1>3, <1>4, <1>5 DEF TelnetInv

LEMMA TelnetStep == TelnetInv /\ [TelnetNext]_telnetVars => TelnetInv' /\ Greeting
<1> SUFFICES ASSUME TelnetInv, [TelnetNext]_telnetVars PROVE TelnetInv' /\ Greeting
  OBVIOUS
<1>1. ASSUME NEW c \in Conns, NEW command \in Commands \cup {NULL}, telnet_handle_request(c, command)
      PROVE  TelnetInv' /\ Greeting
  BY <1>1, RequestStep
<1>2. ASSUME NEW c \in Conns, Connect(c)
      PROVE  TelnetInv' /\ Greeting
  <2>1. session \in [Conns -> Nat] /\ SESSIONS \in [Conns -> Nat]
        /\ \A d \in Conns : session[d] <= SESSIONS[d]
    BY TelnetAssumption DEF TelnetInv
  <2>2. session' = [session EXCEPT ![c] = session[c] + 1] /\ session[c] < SESSIONS[c]
    BY <1>2 DEF Connect
  <2>3. session' \in [Conns -> Nat]
        /\ \A d \in Conns : session[d] <= session'[d] /\ session'[d] <= SESSIONS[d]
    BY <2>1, <2>2
  <2>4. UNCHANGED <<memory, pool, action_command, heard>> /\ tcp' \in [Conns -> SlotStates]
    BY <1>2 DEF Connect, TelnetInv, SlotStates
  <2> QED  BY <2>3, <2>4, ConnectionStep
<1>3. ASSUME UNCHANGED <<memory, pool, session, action_command, heard>>,
             tcp' \in [Conns -> SlotStates]
      PROVE  TelnetInv' /\ Greeting
  <2>1. session' \in [Conns -> Nat] /\ session' = session
        /\ \A c \in Conns : session[c] <= session'[c] /\ session'[c] <= SESSIONS[c]
    BY <1>3 DEF TelnetInv
  <2> QED  BY <1>3, <2>1, ConnectionStep
<1>4. ASSUME NEW c \in Conns, Gone(c)
      PROVE  TelnetInv' /\ Greeting
  <2>1. UNCHANGED <<memory, pool, session, action_command, heard>>
        /\ tcp' \in [Conns -> SlotStates]
    BY <1>4 DEF Gone, TelnetInv, SlotStates
  <2> QED  BY <1>3, <2>1
<1>5. CASE socket_manager_cleanup
  BY <1>5, CleanupStep
<1>6. CASE UNCHANGED telnetVars
  <2>1. UNCHANGED <<memory, pool, session, action_command, heard>>
        /\ tcp' \in [Conns -> SlotStates]
    BY <1>6 DEF telnetVars, TelnetInv
  <2> QED  BY <1>3, <2>1
<1> QED  BY <1>1, <1>2, <1>4, <1>5, <1>6 DEF TelnetNext

THEOREM TelnetInvariant == TelnetSpec => []TelnetInv
  BY TelnetInitInv, TelnetStep, PTL DEF TelnetSpec

(* Type correctness; no session is ever left in SEND_RESPONSE.             *)
THEOREM TelnetTypeCorrect == TelnetSpec => []TelnetTypeOK
<1>1. TelnetInv => TelnetTypeOK
  BY DEF TelnetInv, SocketType, SlotStates, Buffers, TelnetTypeOK
<1> QED  BY <1>1, TelnetInvariant, PTL

(* Each session gets the answer to its own command; what else it is shown  *)
(* was written in its slot since its socket_t was handed out, however      *)
(* sessions, slots and blocks of memory are interleaved.                   *)
THEOREM OwnAnswers == TelnetSpec => []AnswersOwnCommand
  BY TelnetInvariant, PTL DEF TelnetInv

(* What a peer with a socket_t of its own hears first is the header and    *)
(* the menu.                                                               *)
THEOREM Greets == TelnetSpec => SessionGreeted
<1>1. TelnetInv /\ [TelnetNext]_telnetVars => [Greeting]_telnetVars
  BY TelnetStep
<1> QED  BY <1>1, TelnetInvariant, PTL DEF TelnetSpec, SessionGreeted, Greeting

-----------------------------------------------------------------------------
(* The page catalog.                                                       *)

(* Lists: what an insertion and a removal do to the places of a name.      *)

Pages == [name : PageNames, storage_type : Types, page_size : PageSizes,
          position : {0}, handle : {-1, 0}]

At(list, n) == {k \in 1 .. Len(list) : list[k].name = n}

LEMMA AtFinite ==
  ASSUME NEW list \in Seq(Pages), NEW n
  PROVE  IsFiniteSet(At(list, n)) /\ Cardinality(At(list, n)) \in Nat
<1>1. Len(list) \in Nat
  OBVIOUS
<1>2. IsFiniteSet(1 .. Len(list))
  BY <1>1, FS_Interval
<1>3. At(list, n) \subseteq 1 .. Len(list)
  BY DEF At
<1> QED  BY <1>2, <1>3, FS_Subset, FS_CardinalityType

(* Two sets of places whose members correspond to each other.              *)
LEMMA Renumbered ==
  ASSUME NEW S, NEW T, IsFiniteSet(S), NEW f \in [S -> T],
         \A x \in S, y \in S : f[x] = f[y] => x = y,
         \A t \in T : \E x \in S : f[x] = t
  PROVE  Cardinality(T) = Cardinality(S)
<1>1. f \in Injection(S, T)
  BY DEF Injection, IsInjective
<1>2. f \in Surjection(S, T)
  BY DEF Surjection
<1>3. ExistsBijection(S, T)
  BY <1>1, <1>2 DEF ExistsBijection, Bijection
<1> QED  BY <1>3, FS_Bijection

(* dlist_insert_next(), at either end.                                     *)
LEMMA InsertedCount ==
  ASSUME NEW list \in Seq(Pages), NEW p \in Pages, NEW n,
         NEW next \in {<<p>> \o list, Append(list, p)}
  PROVE  /\ next \in Seq(Pages) /\ Len(next) = Len(list) + 1
         /\ Cardinality(At(next, n)) =
              Cardinality(At(list, n)) + (IF p.name = n THEN 1 ELSE 0)
<1>1. Len(list) \in Nat
  OBVIOUS
<1>2. IsFiniteSet(At(list, n)) /\ Cardinality(At(list, n)) \in Nat
  BY AtFinite
<1>3. CASE next = Append(list, p)
  <2>1. /\ next \in Seq(Pages) /\ Len(next) = Len(list) + 1
        /\ next[Len(list) + 1] = p /\ \A k \in 1 .. Len(list) : next[k] = list[k]
    BY <1>3
  <2>2. At(next, n) = IF p.name = n THEN At(list, n) \cup {Len(list) + 1} ELSE At(list, n)
    BY <1>1, <2>1 DEF At
  <2>3. Len(list) + 1 \notin At(list, n)
    BY <1>1 DEF At
  <2>4. Cardinality(At(list, n) \cup {Len(list) + 1}) = Cardinality(At(list, n)) + 1
    BY <1>2, <2>3, FS_AddElement
  <2>5. CASE p.name = n
    BY <2>1, <2>2, <2>4, <2>5
  <2>6. CASE p.name # n
    BY <1>2, <2>1, <2>2, <2>6
  <2> QED  BY <2>5, <2>6
<1>4. CASE next = <<p>> \o list
  <2>1. <<p>> \in Seq(Pages) /\ Len(<<p>>) = 1 /\ <<p>>[1] = p
    OBVIOUS
  <2>2. /\ next \in Seq(Pages) /\ Len(next) = 1 + Len(list)
        /\ \A k \in 1 .. 1 + Len(list) : next[k] = IF k <= 1 THEN p ELSE list[k - 1]
    BY <1>4, <2>1, ConcatProperties
  <2> DEFINE T == At(next, n) \ {1}
             f == [k \in At(list, n) |-> k + 1]
  <2>3. At(list, n) \subseteq 1 .. Len(list)
    BY DEF At
  <2>4. f \in [At(list, n) -> T]
    BY <1>1, <2>2, <2>3 DEF At
  <2>5. \A x \in At(list, n), y \in At(list, n) : f[x] = f[y] => x = y
    BY <1>1, <2>3
  <2>6. \A t \in T : \E x \in At(list, n) : f[x] = t
    <3> TAKE t \in T
    <3>1. t - 1 \in At(list, n)
      BY <1>1, <2>2 DEF At
    <3>2. f[t - 1] = t
      BY <1>1, <2>2, <3>1 DEF At
    <3> QED  BY <3>1, <3>2
  <2> HIDE DEF f
  <2>7. Cardinality(T) = Cardinality(At(list, n))
    BY <1>2, <2>4, <2>5, <2>6, Renumbered
  <2>8. IsFiniteSet(At(next, n)) /\ Cardinality(At(next, n)) \in Nat
    BY <2>2, AtFinite
  <2>9. 1 \in At(next, n) <=> p.name = n
    BY <1>1, <2>2 DEF At
  <2>10. Cardinality(T) = IF 1 \in At(next, n) THEN Cardinality(At(next, n)) - 1
                          ELSE Cardinality(At(next, n))
    BY <2>8, FS_RemoveElement
  <2> QED  BY <1>1, <1>2, <2>2, <2>7, <2>8, <2>9, <2>10
<1> QED  BY <1>3, <1>4

(* dlist_remove(): those behind the removed one move up.                   *)
LEMMA RemovedCount ==
  ASSUME NEW list \in Seq(Pages), NEW i \in 1 .. Len(list), NEW n
  PROVE  /\ RemoveAt(list, i) \in Seq(Pages) /\ Len(RemoveAt(list, i)) = Len(list) - 1
         /\ Cardinality(At(RemoveAt(list, i), n)) =
              Cardinality(At(list, n)) - (IF list[i].name = n THEN 1 ELSE 0)
<1> DEFINE next == RemoveAt(list, i)
           before == SubSeq(list, 1, i - 1)
           behind == SubSeq(list, i + 1, Len(list))
<1>1. Len(list) \in Nat /\ \A k \in 1 .. Len(list) : list[k] \in Pages
  OBVIOUS
<1>2. /\ before \in Seq(Pages) /\ Len(before) = i - 1
      /\ \A k \in 1 .. i - 1 : before[k] = list[k]
  <2>1. \A k \in 1 .. i - 1 : list[k] \in Pages
    BY <1>1
  <2>2. /\ before \in Seq(Pages) /\ Len(before) = IF 1 <= i - 1 THEN (i - 1) - 1 + 1 ELSE 0
        /\ \A k \in 1 .. (i - 1) - 1 + 1 : before[k] = list[1 + k - 1]
    BY <1>1, <2>1, SubSeqProperties
  <2> HIDE DEF before
  <2> QED  BY <1>1, <2>2
<1>3. /\ behind \in Seq(Pages) /\ Len(behind) = Len(list) - i
      /\ \A k \in 1 .. Len(list) - i : behind[k] = list[i + k]
  <2>1. \A k \in i + 1 .. Len(list) : list[k] \in Pages
    BY <1>1
  <2>2. /\ behind \in Seq(Pages)
        /\ Len(behind) = IF i + 1 <= Len(list) THEN Len(list) - (i + 1) + 1 ELSE 0
        /\ \A k \in 1 .. Len(list) - (i + 1) + 1 : behind[k] = list[(i + 1) + k - 1]
    BY <1>1, <2>1, SubSeqProperties
  <2> HIDE DEF behind
  <2> QED  BY <1>1, <2>2
<1>4. next = before \o behind
  BY DEF RemoveAt
<1> HIDE DEF next, before, behind
<1>5. /\ next \in Seq(Pages) /\ Len(next) = Len(list) - 1
      /\ \A k \in 1 .. Len(list) - 1 : next[k] = IF k < i THEN list[k] ELSE list[k + 1]
  <2>1. /\ next \in Seq(Pages) /\ Len(next) = Len(before) + Len(behind)
        /\ \A k \in 1 .. Len(before) + Len(behind) :
             next[k] = IF k <= Len(before) THEN before[k] ELSE behind[k - Len(before)]
    BY <1>2, <1>3, <1>4, ConcatProperties
  <2>2. \A k \in 1 .. Len(list) - 1 : next[k] = IF k < i THEN list[k] ELSE list[k + 1]
    <3> TAKE k \in 1 .. Len(list) - 1
    <3>1. next[k] = IF k <= i - 1 THEN before[k] ELSE behind[k - (i - 1)]
      <4>1. Len(before) = i - 1 /\ k \in 1 .. Len(before) + Len(behind)
        BY <1>1, <1>2, <1>3
      <4> QED  BY <2>1, <4>1
    <3>2. CASE k < i
      <4>1. k \in 1 .. i - 1
        BY <1>1, <3>2
      <4> QED  BY <1>2, <3>1, <3>2, <4>1
    <3>3. CASE ~(k < i)
      <4>1. k - (i - 1) \in 1 .. Len(list) - i /\ i + (k - (i - 1)) = k + 1
        BY <1>1, <3>3
      <4>2. behind[k - (i - 1)] = list[i + (k - (i - 1))]
        BY <1>3, <4>1
      <4>3. ~(k <= i - 1)
        BY <3>3
      <4> QED  BY <3>1, <3>3, <4>1, <4>2, <4>3
    <3> QED  BY <3>2, <3>3
  <2> QED  BY <1>1, <1>2, <1>3, <2>1, <2>2
<1> DEFINE S == At(list, n) \ {i}
           T == At(next, n)
           f == [k \in S |-> IF k < i THEN k ELSE k - 1]
<1>6. IsFiniteSet(At(list, n)) /\ Cardinality(At(list, n)) \in Nat
  BY AtFinite
<1>7. IsFiniteSet(S) /\ Cardinality(S) = IF i \in At(list, n) THEN Cardinality(At(list, n)) - 1
                                         ELSE Cardinality(At(list, n))
  BY <1>6, FS_RemoveElement
<1>8. f \in [S -> T]
  BY <1>1, <1>5 DEF At
<1>9. \A x \in S, y \in S : f[x] = f[y] => x = y
  BY <1>1 DEF At
<1>10. \A t \in T : \E x \in S : f[x] = t
  <2> TAKE t \in T
  <2> DEFINE x == IF t < i THEN t ELSE t + 1
  <2>1. x \in S
    BY <1>1, <1>5 DEF At
  <2>2. f[x] = t
    BY <1>1, <1>5, <2>1 DEF At
  <2> QED  BY <2>1, <2>2
<1> HIDE DEF f
<1>11. Cardinality(T) = Cardinality(S)
  <2> HIDE DEF S, T
  <2> QED  BY <1>7, <1>8, <1>9, <1>10, Renumbered
<1>12. i \in At(list, n) <=> list[i].name = n
  BY DEF At
<1> QED  BY <1>5, <1>6, <1>7, <1>11, <1>12 DEF next

-----------------------------------------------------------------------------
(* The catalog.                                                            *)

LEMMA LeastIsMin ==
  ASSUME NEW E \in SUBSET Nat, E # {}
  PROVE  Min(E) \in E
BY LeastElement DEF Min

(* A place that page_manager_find_page() returns holds a page of the name. *)
LEMMA PlaceFound ==
  ASSUME pages \in Seq(Pages), NEW n \in PageNames, Place(n) # 0
  PROVE  Place(n) \in 1 .. Len(pages) /\ pages[Place(n)].name = n
<1> DEFINE I == {k \in 1 .. Len(pages) : pages[k].name = n}
<1>1. Place(n) = IF I # {} THEN Min(I) ELSE 0
  BY DEF Place, SelectInSeq
<1>2. I # {} /\ I \in SUBSET Nat
  BY <1>1
<1>3. Min(I) \in I
  BY <1>2, LeastIsMin
<1> QED  BY <1>1, <1>2, <1>3

(* The invariant is the property itself, with the type of the list.        *)
CatalogType == pages \in Seq(Pages) /\ added \in [PageNames -> Int]

CatalogInv == CatalogType /\ CatalogKept

LEMMA CatalogInitInv == CatalogInit => CatalogInv
<1> SUFFICES ASSUME CatalogInit PROVE CatalogInv
  OBVIOUS
<1>1. CatalogType
  BY DEF CatalogInit, CatalogType
<1>2. Len(pages) = 0
  BY DEF CatalogInit
<1>3. \A n \in PageNames : {k \in 1 .. Len(pages) : pages[k].name = n} = {}
  BY <1>2
<1>4. CatalogKept
  BY <1>2, <1>3, FS_EmptySet DEF CatalogInit, CatalogKept
<1> QED  BY <1>1, <1>4 DEF CatalogInv

(* The property, in terms of the places of a name.                         *)
LEMMA KeptAt ==
  /\ CatalogKept <=> (\A n \in PageNames : Cardinality(At(pages, n)) = added[n]) /\ blocks = Len(pages)
  /\ CatalogKept' <=> (\A n \in PageNames : Cardinality(At(pages', n)) = added'[n]) /\ blocks' = Len(pages')
BY DEF CatalogKept, At

LEMMA InsertStep ==
  ASSUME CatalogInv, NEW p \in Pages, Insert(p)
  PROVE  CatalogInv'
<1>1. /\ pages' \in {<<p>> \o pages, Append(pages, p)} /\ blocks' = blocks + 1
      /\ added' = [added EXCEPT ![p.name] = @ + 1]
      /\ pages \in Seq(Pages) /\ added \in [PageNames -> Int] /\ p.name \in PageNames
  BY DEF Insert, Inserted, CatalogInv, CatalogType, Pages
<1>2. \A n \in PageNames :
        /\ pages' \in Seq(Pages) /\ Len(pages') = Len(pages) + 1
        /\ Cardinality(At(pages', n)) = Cardinality(At(pages, n)) + (IF p.name = n THEN 1 ELSE 0)
  BY <1>1, InsertedCount
<1>3. \A n \in PageNames : added'[n] = added[n] + (IF p.name = n THEN 1 ELSE 0)
  BY <1>1
<1>4. CatalogType'
  BY <1>1, <1>2 DEF CatalogType
<1>5. CatalogKept'
  BY <1>1, <1>2, <1>3, KeptAt DEF CatalogInv
<1> QED  BY <1>4, <1>5 DEF CatalogInv

LEMMA RemoveStep ==
  ASSUME CatalogInv, NEW n \in PageNames, RemovePage(n)
  PROVE  CatalogInv'
<1> DEFINE i == Place(n)
<1>1. /\ i # 0 /\ pages' = RemoveAt(pages, i) /\ blocks' = blocks - 1
      /\ added' = [added EXCEPT ![n] = @ - 1]
      /\ pages \in Seq(Pages) /\ added \in [PageNames -> Int]
  BY DEF RemovePage, Without, CatalogInv, CatalogType
<1>2. i \in 1 .. Len(pages) /\ pages[i].name = n
  BY <1>1, PlaceFound
<1> HIDE DEF i
<1>3. \A m \in PageNames :
        /\ pages' \in Seq(Pages) /\ Len(pages') = Len(pages) - 1
        /\ Cardinality(At(pages', m)) = Cardinality(At(pages, m)) - (IF pages[i].name = m THEN 1 ELSE 0)
  BY <1>1, <1>2, RemovedCount
<1>4. \A m \in PageNames : added'[m] = added[m] - (IF n = m THEN 1 ELSE 0)
  BY <1>1
<1>5. CatalogType'
  BY <1>1, <1>3 DEF CatalogType
<1>6. CatalogKept'
  BY <1>1, <1>2, <1>3, <1>4, KeptAt DEF CatalogInv
<1> QED  BY <1>5, <1>6 DEF CatalogInv

(* A call that fails leaves list and memory as they were.                  *)
LEMMA FailureStep ==
  ASSUME CatalogInv, UNCHANGED <<pages, blocks, added>>
  PROVE  CatalogInv'
BY DEF CatalogInv, CatalogType, CatalogKept

(* Nothing leaks, nothing in the list is freed, and a page is found        *)
(* exactly while more of its name were added than removed.                 *)
THEOREM CatalogCorrect == CatalogSpec => []CatalogKept
<1>1. CatalogInv /\ [CatalogNext]_catalogVars => CatalogInv'
  <2> SUFFICES ASSUME CatalogInv, [CatalogNext]_catalogVars PROVE CatalogInv'
    OBVIOUS
  <2>1. ASSUME NEW type \in Types, page_manager_add(type) PROVE CatalogInv'
    <3>1. PICK n \in PageNames, size \in PageSizes :
            \/ OutOfMemory
            \/ Insert(page_set_details(n, type, size))
            \/ InsertFails
      BY <2>1 DEF page_manager_add
    <3>2. page_set_details(n, type, size) \in Pages
      BY DEF page_set_details, Pages
    <3>3. OutOfMemory \/ InsertFails => UNCHANGED <<pages, blocks, added>>
      BY DEF OutOfMemory, InsertFails
    <3> QED  BY <3>1, <3>2, <3>3, InsertStep, FailureStep
  <2>2. CASE page_manager_remove_page
    <3>1. \A n \in PageNames : RemoveNothing(n) => UNCHANGED <<pages, blocks, added>>
      BY DEF RemoveNothing
    <3> QED  BY <2>2, <3>1, RemoveStep, FailureStep DEF page_manager_remove_page
  <2>3. CASE UNCHANGED catalogVars
    BY <2>3, FailureStep DEF catalogVars
  <2> QED  BY <2>1, <2>2, <2>3 DEF CatalogNext
<1>2. CatalogInv => CatalogKept
  BY DEF CatalogInv
<1> QED  BY <1>1, <1>2, CatalogInitInv, PTL DEF CatalogSpec

=============================================================================
