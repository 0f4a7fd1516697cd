--------------------------- MODULE HttpRequestProofs ---------------------------
(***************************************************************************)
(* Proofs about the request reader: for any pieces of any length, any      *)
(* buffer and any cut of the stream into segments, the reader judges the   *)
(* lines of the stream as they are, and serves only a well formed request  *)
(* that it read to an empty line.                                          *)
(***************************************************************************)
EXTENDS HttpRequest, TLAPS, WellFoundedInduction, NaturalsInduction

(* A nonempty set of natural numbers has a least element.                  *)
LEMMA LeastElement ==
  ASSUME NEW E \in SUBSET Nat, E # {}
  PROVE  \E k \in E : \A j \in E : k <= j
<1> DEFINE Less == {ss \in Nat \X Nat : ss[1] < ss[2]}
<1>1. IsWellFoundedOn(Less, Nat)
  BY NatLessThanWellFounded DEF OpToRel
<1>2. PICK k \in E : \A j \in E : <<j, k>> \notin Less
  BY <1>1, WFMin
<1>3. \A j \in E : k <= j
  <2> TAKE j \in E
  <2>1. j \in Nat /\ k \in Nat /\ ~(j < k)
    BY <1>2
  <2> QED  BY <2>1
<1> QED  BY <1>3

-----------------------------------------------------------------------------
(* The two recursive functions exist: each is built up to its last index.  *)

IsReading(f, n, s, segment) ==
  f = [k \in 0 .. n |-> IF k = 0 THEN [s |-> s, termination |-> 0]
                                 ELSE NextPiece(f[k - 1], segment[k])]

LEMMA ReadingGrows ==
  ASSUME NEW n \in Nat, NEW s, NEW segment, NEW f, IsReading(f, n, s, segment)
  PROVE  \E g : IsReading(g, n + 1, s, segment)
<1> DEFINE a == [s |-> s, termination |-> 0]
           g == [k \in 0 .. n + 1 |-> IF k = n + 1 THEN NextPiece(f[n], segment[n + 1])
                                      ELSE f[k]]
<1>0. f = [k \in 0 .. n |-> IF k = 0 THEN a ELSE NextPiece(f[k - 1], segment[k])]
  BY DEF IsReading
<1> HIDE DEF a
<1>1. \A k \in 0 .. n : g[k] = f[k] OBVIOUS
<1>2. \A k \in 0 .. n : f[k] = IF k = 0 THEN a ELSE NextPiece(f[k - 1], segment[k])
  BY <1>0
<1>3. g[n + 1] = NextPiece(f[n], segment[n + 1]) OBVIOUS
<1>4. ASSUME NEW k \in 0 .. n + 1
      PROVE  g[k] = IF k = 0 THEN a ELSE NextPiece(g[k - 1], segment[k])
  <2>1. CASE k = n + 1
    <3>1. g[k - 1] = f[n] /\ k # 0 BY <2>1, <1>1
    <3> QED BY <2>1, <3>1, <1>3
  <2>2. CASE k \in 1 .. n
    <3>1. g[k - 1] = f[k - 1] BY <2>2, <1>1
    <3> QED BY <2>2, <3>1, <1>1, <1>2
  <2>3. CASE k = 0 BY <2>3, <1>1, <1>2
  <2> QED BY <2>1, <2>2, <2>3
<1>5. g = [k \in 0 .. n + 1 |-> g[k]] OBVIOUS
<1> HIDE DEF g
<1>6. g = [k \in 0 .. n + 1 |-> IF k = 0 THEN a ELSE NextPiece(g[k - 1], segment[k])]
  BY <1>4, <1>5
<1> QED BY <1>6 DEF IsReading, a

LEMMA ReadingExists ==
  ASSUME NEW s, NEW segment, NEW n \in Nat
  PROVE  \E f : IsReading(f, n, s, segment)
<1> DEFINE Bad == {m \in Nat : ~\E f : IsReading(f, m, s, segment)}
<1> SUFFICES ASSUME Bad # {} PROVE FALSE OBVIOUS
<1>1. PICK m \in Bad : \A k \in Bad : m <= k BY LeastElement
<1>2. m # 0
  <2>1. IsReading([k \in 0 .. 0 |-> [s |-> s, termination |-> 0]], 0, s, segment)
    BY DEF IsReading
  <2> QED BY <2>1
<1>3. m - 1 \in Nat /\ m - 1 \notin Bad BY <1>1, <1>2
<1>4. PICK f : IsReading(f, m - 1, s, segment) BY <1>3
<1>5. \E g : IsReading(g, (m - 1) + 1, s, segment) BY <1>3, <1>4, ReadingGrows
<1>6. (m - 1) + 1 = m BY <1>1
<1> QED BY <1>1, <1>5, <1>6

(* One call reads the segment piece by piece, and starts with no line end. *)
LEMMA ReadingIs ==
  ASSUME NEW s, NEW segment, Len(segment) \in Nat
  PROVE  /\ Reading(s, segment)[0] = [s |-> s, termination |-> 0]
         /\ \A k \in 1 .. Len(segment) :
              Reading(s, segment)[k] = NextPiece(Reading(s, segment)[k - 1], segment[k])
<1>1. \E f : IsReading(f, Len(segment), s, segment) BY ReadingExists
<1>2. Reading(s, segment) = CHOOSE f : IsReading(f, Len(segment), s, segment)
  BY DEF Reading, IsReading
<1>3. IsReading(Reading(s, segment), Len(segment), s, segment) BY <1>1, <1>2
<1> QED BY <1>3 DEF IsReading

PieceLength(p) == IF p = NL THEN 0 ELSE Chars[p]

IsCount(f, n, w) ==
  f = [k \in 0 .. n |-> IF k = 0 THEN 0 ELSE f[k - 1] + PieceLength(w[k])]

LEMMA CountGrows ==
  ASSUME NEW n \in Nat, NEW w, NEW f, IsCount(f, n, w)
  PROVE  \E g : IsCount(g, n + 1, w)
<1> DEFINE g == [k \in 0 .. n + 1 |-> IF k = n + 1 THEN f[n] + PieceLength(w[n + 1])
                                      ELSE f[k]]
<1>1. \A k \in 0 .. n : g[k] = f[k] OBVIOUS
<1>2. \A k \in 0 .. n : f[k] = IF k = 0 THEN 0 ELSE f[k - 1] + PieceLength(w[k])
  BY DEF IsCount
<1>3. g[n + 1] = f[n] + PieceLength(w[n + 1]) OBVIOUS
<1>4. ASSUME NEW k \in 0 .. n + 1
      PROVE  g[k] = IF k = 0 THEN 0 ELSE g[k - 1] + PieceLength(w[k])
  <2>1. CASE k = n + 1
    <3>1. g[k - 1] = f[n] /\ k # 0 BY <2>1, <1>1
    <3> QED BY <2>1, <3>1, <1>3
  <2>2. CASE k \in 1 .. n
    <3>1. g[k - 1] = f[k - 1] BY <2>2, <1>1
    <3> QED BY <2>2, <3>1, <1>1, <1>2
  <2>3. CASE k = 0 BY <2>3, <1>1, <1>2
  <2> QED BY <2>1, <2>2, <2>3
<1>5. g = [k \in 0 .. n + 1 |-> g[k]] OBVIOUS
<1> HIDE DEF g
<1>6. g = [k \in 0 .. n + 1 |-> IF k = 0 THEN 0 ELSE g[k - 1] + PieceLength(w[k])]
  BY <1>4, <1>5
<1> QED BY <1>6 DEF IsCount

LEMMA CountExists ==
  ASSUME NEW w, NEW n \in Nat
  PROVE  \E f : IsCount(f, n, w)
<1> DEFINE Bad == {m \in Nat : ~\E f : IsCount(f, m, w)}
<1> SUFFICES ASSUME Bad # {} PROVE FALSE OBVIOUS
<1>1. PICK m \in Bad : \A k \in Bad : m <= k BY LeastElement
<1>2. m # 0
  <2>1. IsCount([k \in 0 .. 0 |-> 0], 0, w) BY DEF IsCount
  <2> QED BY <2>1
<1>3. m - 1 \in Nat /\ m - 1 \notin Bad BY <1>1, <1>2
<1>4. PICK f : IsCount(f, m - 1, w) BY <1>3
<1>5. \E g : IsCount(g, (m - 1) + 1, w) BY <1>3, <1>4, CountGrows
<1>6. (m - 1) + 1 = m BY <1>1
<1> QED BY <1>1, <1>5, <1>6

(* The characters up to a piece: a natural number, and one run more.       *)
LEMMA CountIs ==
  ASSUME NEW w \in Seq(Pieces \cup {NL})
  PROVE  /\ CharsUpTo(w)[0] = 0
         /\ \A n \in 1 .. Len(w) : CharsUpTo(w)[n] = CharsUpTo(w)[n - 1] + PieceLength(w[n])
         /\ \A n \in 0 .. Len(w) : CharsUpTo(w)[n] \in Nat
<1> DEFINE C == CharsUpTo(w)
<1>0. Len(w) \in Nat OBVIOUS
<1>1. \E f : IsCount(f, Len(w), w) BY <1>0, CountExists
<1>2. C = CHOOSE f : IsCount(f, Len(w), w)
  BY DEF CharsUpTo, IsCount, PieceLength
<1>3. IsCount(C, Len(w), w) BY <1>1, <1>2
<1> HIDE DEF C
<1>4. C[0] = 0 /\ \A n \in 1 .. Len(w) : C[n] = C[n - 1] + PieceLength(w[n])
  BY <1>0, <1>3 DEF IsCount
<1>5. \A n \in 1 .. Len(w) : PieceLength(w[n]) \in Nat
  BY RequestAssumption DEF PieceLength
<1>6. \A n \in 0 .. Len(w) : C[n] \in Nat
  <2> DEFINE Bad == {m \in Nat : m <= Len(w) /\ C[m] \notin Nat}
  <2> SUFFICES ASSUME Bad # {} PROVE FALSE BY <1>0
  <2>1. PICK m \in Bad : \A k \in Bad : m <= k BY LeastElement
  <2>2. m # 0 BY <1>4, <2>1
  <2>3. m \in 1 .. Len(w) /\ m - 1 \in Nat /\ m - 1 \notin Bad BY <1>0, <2>1, <2>2
  <2>4. C[m - 1] \in Nat BY <1>0, <2>3
  <2>5. C[m] \in Nat BY <1>4, <1>5, <2>3, <2>4
  <2> QED BY <2>1, <2>5
<1> QED BY <1>4, <1>6 DEF C

-----------------------------------------------------------------------------
(* The lines of the stream.                                                *)

Words == Seq(Pieces \cup {NL})

(* The line that a line end at k would end starts at j.                    *)
IsStart(w, k, j) ==
  /\ j \in 1 .. k
  /\ j = 1 \/ w[j - 1] = NL
  /\ \A i \in j .. k - 1 : w[i] # NL

LEMMA StartUnique ==
  ASSUME NEW w, NEW k \in Nat, NEW j, IsStart(w, k, j)
  PROVE  LineStart(w, k) = j
<1>1. ASSUME NEW i, IsStart(w, k, i)
      PROVE  i = j
  <2>1. i \in 1 .. k /\ j \in 1 .. k BY <1>1 DEF IsStart
  <2>2. ~(i < j)
    <3>1. SUFFICES ASSUME i < j PROVE FALSE OBVIOUS
    <3>2. j - 1 \in i .. k - 1 /\ j # 1 BY <2>1, <3>1
    <3>3. w[j - 1] = NL BY <3>2 DEF IsStart
    <3>4. w[j - 1] # NL BY <1>1, <3>2 DEF IsStart
    <3> QED BY <3>3, <3>4
  <2>3. ~(j < i)
    <3>1. SUFFICES ASSUME j < i PROVE FALSE OBVIOUS
    <3>2. i - 1 \in j .. k - 1 /\ i # 1 BY <2>1, <3>1
    <3>3. w[i - 1] = NL BY <1>1, <3>2 DEF IsStart
    <3>4. w[i - 1] # NL BY <3>2 DEF IsStart
    <3> QED BY <3>3, <3>4
  <2> QED BY <2>1, <2>2, <2>3
<1>2. LineStart(w, k) = CHOOSE i \in 1 .. k : IsStart(w, k, i)
  BY DEF LineStart, IsStart
<1>3. j \in 1 .. k BY DEF IsStart
<1>4. LineStart(w, k) \in 1 .. k /\ IsStart(w, k, LineStart(w, k))
  BY <1>2, <1>3
<1> QED BY <1>1, <1>4

(* A run of characters adds no line.                                       *)
LEMMA TextAddsNoLine ==
  ASSUME NEW w \in Words, NEW n \in Nat, n + 1 <= Len(w), w[n + 1] # NL
  PROVE  /\ LinesBefore(w, n + 1) = LinesBefore(w, n)
         /\ Parsed(w, n + 1) = Parsed(w, n)
         /\ GoodLines(w, n + 1) <=> GoodLines(w, n)
<1>1. LinesBefore(w, n + 1) = LinesBefore(w, n) BY DEF LinesBefore
<1>2. Parsed(w, n + 1) = Parsed(w, n) BY <1>1 DEF Parsed
<1> QED BY <1>1, <1>2 DEF GoodLines

(* A line end adds the line it ends, which is parsed when it has more than *)
(* ten characters.                                                         *)
LEMMA EndAddsLine ==
  ASSUME NEW w \in Words, NEW n \in Nat, n + 1 <= Len(w), w[n + 1] = NL
  PROVE  /\ LinesBefore(w, n + 1) = LinesBefore(w, n) \cup {n + 1}
         /\ LineLength(w, n + 1) > 10 => Parsed(w, n + 1) = Parsed(w, n) \cup {n + 1}
         /\ ~(LineLength(w, n + 1) > 10) => Parsed(w, n + 1) = Parsed(w, n)
<1>1. LinesBefore(w, n + 1) = LinesBefore(w, n) \cup {n + 1} BY DEF LinesBefore
<1> QED BY <1>1 DEF Parsed

(* What makes the lines good after one more line end.                      *)
LEMMA GoodEnd ==
  ASSUME NEW w \in Words, NEW n \in Nat, n + 1 <= Len(w), w[n + 1] = NL,
         GoodLines(w, n), LineLength(w, n + 1) < LARGE_BUFFER_SIZE,
         LineLength(w, n + 1) > 10 =>
           IF Parsed(w, n) = {} THEN w[LineStart(w, n + 1)] \in RequestLines
                                ELSE w[LineStart(w, n + 1)] \notin Refused
  PROVE  GoodLines(w, n + 1)
<1>1. \A k \in LinesBefore(w, n + 1) : LineLength(w, k) < LARGE_BUFFER_SIZE
  BY EndAddsLine DEF GoodLines
<1>2. \A j \in Parsed(w, n) : j \in 1 .. n BY DEF Parsed, LinesBefore
<1>3. ASSUME NEW k \in Parsed(w, n + 1)
      PROVE  IF \E j \in Parsed(w, n + 1) : j < k THEN w[LineStart(w, k)] \notin Refused
                                                  ELSE w[LineStart(w, k)] \in RequestLines
  <2>1. CASE k \in Parsed(w, n)
    <3>1. (\E j \in Parsed(w, n + 1) : j < k) <=> \E j \in Parsed(w, n) : j < k
      <4>1. k <= n BY <1>2, <2>1
      <4>2. ~(n + 1 < k) BY <4>1, <1>2, <2>1
      <4> QED BY <4>2, EndAddsLine
    <3> QED BY <2>1, <3>1 DEF GoodLines
  <2>2. CASE k \notin Parsed(w, n)
    <3>1. k = n + 1 /\ LineLength(w, n + 1) > 10 BY <2>2, <1>3, EndAddsLine
    <3>2. Parsed(w, n + 1) = Parsed(w, n) \cup {n + 1} BY <3>1, EndAddsLine
    <3>3. (\E j \in Parsed(w, n + 1) : j < k) <=> Parsed(w, n) # {}
      <4>1. \A j \in Parsed(w, n) : j < k BY <1>2, <3>1
      <4>2. ~(k < k) BY <3>1
      <4> QED BY <3>1, <3>2, <4>1, <4>2
    <3> QED BY <3>1, <3>3
  <2> QED BY <2>1, <2>2
<1> QED BY <1>1, <1>3 DEF GoodLines

-----------------------------------------------------------------------------
(* The reader and the stream.                                              *)

States == {"GET_REQUEST", "PROCESS_REQUEST", "DISCONNECT"}
Sockets ==
  [state : States, request_type : {"UNKNOWN", "GET"},
   buffer_position : 0 .. LARGE_BUFFER_SIZE, line : Pieces \cup {NoLine}]
Readers == [s : Sockets, termination : {0, 1}]

(* A reader that has read n pieces has the characters of the line it is in *)
(* in its buffer, knows whether a line was parsed, and read good lines.    *)
Tracks(w, n, s) ==
  /\ \E b \in 1 .. n + 1 :
       /\ IsStart(w, n + 1, b)
       /\ s.buffer_position = CharsUpTo(w)[n] - CharsUpTo(w)[b - 1]
       /\ s.buffer_position = 0 => b = n + 1
       /\ s.buffer_position > 0 => b \in 1 .. n /\ s.line = w[b]
  /\ s.request_type = "UNKNOWN" <=> Parsed(w, n) = {}
  /\ GoodLines(w, n)

(* Some request that ended in an empty line was read.                      *)
Served(w, n) ==
  \E m \in 2 .. n : /\ w[m] = NL /\ w[m - 1] = NL
                    /\ Parsed(w, m) # {} /\ GoodLines(w, m)

(* After n pieces of the stream, within a call.                            *)
ReaderOK(w, n, r) ==
  /\ r \in Readers
  /\ Going(r) => Tracks(w, n, r.s)
  /\ Going(r) /\ r.termination = 1 => n >= 1 /\ w[n] = NL
  /\ r.s.state = "PROCESS_REQUEST" => Served(w, n)

LEMMA ServedStays ==
  ASSUME NEW w, NEW n \in Nat, NEW m \in Nat, n <= m, Served(w, n)
  PROVE  Served(w, m)
BY DEF Served

(* What the line that a line end would now end is.                         *)
LEMMA TrackedLine ==
  ASSUME NEW w \in Words, NEW n \in Nat, n + 1 <= Len(w), NEW s, Tracks(w, n, s)
  PROVE  /\ LineLength(w, n + 1) = s.buffer_position
         /\ s.buffer_position > 0 => w[LineStart(w, n + 1)] = s.line
<1>1. PICK b \in 1 .. n + 1 :
        /\ IsStart(w, n + 1, b)
        /\ s.buffer_position = CharsUpTo(w)[n] - CharsUpTo(w)[b - 1]
        /\ s.buffer_position > 0 => b \in 1 .. n /\ s.line = w[b]
  BY DEF Tracks
<1>2. LineStart(w, n + 1) = b BY <1>1, StartUnique
<1>3. (n + 1) - 1 = n OBVIOUS
<1> QED BY <1>1, <1>2, <1>3 DEF LineLength

-----------------------------------------------------------------------------
(* One piece.                                                              *)

(* A run of characters goes to the buffer as far as it fits.               *)
LEMMA TextFields ==
  ASSUME NEW r \in Readers, NEW piece \in Pieces
  PROVE  /\ TextRun(r, piece) \in Readers
         /\ TextRun(r, piece).termination = 0
         /\ TextRun(r, piece).s.state = r.s.state
         /\ TextRun(r, piece).s.request_type = r.s.request_type
         /\ TextRun(r, piece).s.buffer_position =
              MinOf(r.s.buffer_position + Chars[piece], LARGE_BUFFER_SIZE)
         /\ TextRun(r, piece).s.line =
              IF r.s.buffer_position = 0 THEN piece ELSE r.s.line
<1> DEFINE size == MinOf(r.s.buffer_position + Chars[piece], LARGE_BUFFER_SIZE)
           text == IF r.s.buffer_position = 0 THEN piece ELSE r.s.line
<1>1. r.s \in Sockets BY DEF Readers
<1>2. size \in 0 .. LARGE_BUFFER_SIZE
  <2>1. r.s.buffer_position \in 0 .. LARGE_BUFFER_SIZE BY <1>1 DEF Sockets
  <2>2. Chars[piece] \in Nat /\ LARGE_BUFFER_SIZE \in Nat BY RequestAssumption
  <2> QED BY <2>1, <2>2 DEF MinOf
<1>3. text \in Pieces \cup {NoLine} BY <1>1 DEF Sockets
<1>4. TextRun(r, piece) =
        [r EXCEPT !.termination = 0, !.s.buffer_position = size, !.s.line = text]
  BY <1>1 DEF TextRun, Readers, Sockets
<1> HIDE DEF size, text
<1>5. TextRun(r, piece).s = [r.s EXCEPT !.buffer_position = size, !.line = text]
  BY <1>4 DEF Readers, Sockets
<1>6. TextRun(r, piece).s \in Sockets BY <1>1, <1>2, <1>3, <1>5 DEF Sockets
<1>7. TextRun(r, piece) = [s |-> TextRun(r, piece).s, termination |-> 0]
  BY <1>4 DEF Readers
<1>8. TextRun(r, piece) \in Readers /\ TextRun(r, piece).termination = 0
  <2> DEFINE q == TextRun(r, piece).s
  <2>1. q \in Sockets BY <1>6
  <2> HIDE DEF q
  <2>2. [s |-> q, termination |-> 0] \in Readers BY <2>1 DEF Readers
  <2>3. TextRun(r, piece) = [s |-> q, termination |-> 0] BY <1>7 DEF q
  <2> QED BY <2>2, <2>3
<1>9. /\ TextRun(r, piece).s.state = r.s.state
      /\ TextRun(r, piece).s.request_type = r.s.request_type
      /\ TextRun(r, piece).s.buffer_position = size
      /\ TextRun(r, piece).s.line = text
  BY <1>1, <1>5 DEF Sockets
<1> QED BY <1>8, <1>9 DEF size, text

LEMMA TextKeeps ==
  ASSUME NEW w \in Words, NEW n \in Nat, n + 1 <= Len(w), w[n + 1] \in Pieces,
         NEW r, ReaderOK(w, n, r), Going(r)
  PROVE  ReaderOK(w, n + 1, TextRun(r, w[n + 1]))
<1> DEFINE p == w[n + 1]
           q == TextRun(r, p)
           C == CharsUpTo(w)
<1>1. r \in Readers /\ Tracks(w, n, r.s) BY DEF ReaderOK
<1>2. r.s \in Sockets BY <1>1 DEF Readers
<1>3. p # NL BY RequestAssumption
<1>4. /\ q \in Readers /\ q.termination = 0
      /\ q.s.state = "GET_REQUEST" /\ q.s.request_type = r.s.request_type
      /\ q.s.buffer_position = MinOf(r.s.buffer_position + Chars[p], LARGE_BUFFER_SIZE)
      /\ q.s.line = IF r.s.buffer_position = 0 THEN p ELSE r.s.line
  BY <1>1, TextFields DEF Going
<1>5. ASSUME Going(q)
      PROVE  Tracks(w, n + 1, q.s)
  <2>1. PICK b \in 1 .. n + 1 :
          /\ IsStart(w, n + 1, b)
          /\ r.s.buffer_position = C[n] - C[b - 1]
          /\ r.s.buffer_position = 0 => b = n + 1
          /\ r.s.buffer_position > 0 => b \in 1 .. n /\ r.s.line = w[b]
    BY <1>1 DEF Tracks
  <2>2. Chars[p] \in Nat \ {0} /\ r.s.buffer_position \in Nat /\ LARGE_BUFFER_SIZE \in Nat
    BY <1>2, RequestAssumption DEF Sockets
  <2>3. q.s.buffer_position = r.s.buffer_position + Chars[p]
    BY <1>4, <1>5, <2>2 DEF Going, MinOf
  <2>4. C[n + 1] = C[n] + Chars[p] /\ C[n] \in Nat /\ C[b - 1] \in Nat
    <3>1. n + 1 \in 1 .. Len(w) /\ (n + 1) - 1 = n /\ n \in 0 .. Len(w) /\ b - 1 \in 0 .. Len(w)
      OBVIOUS
    <3>2. w \in Seq(Pieces \cup {NL}) BY DEF Words
    <3>3. C[n + 1] = C[n] + PieceLength(w[n + 1]) BY <3>1, <3>2, CountIs
    <3> QED BY <1>3, <3>1, <3>2, <3>3, CountIs DEF PieceLength
  <2>5. IsStart(w, (n + 1) + 1, b)
    <3>1. \A i \in b .. ((n + 1) + 1) - 1 : i = n + 1 \/ i \in b .. (n + 1) - 1 OBVIOUS
    <3> QED BY <1>3, <2>1, <3>1 DEF IsStart
  <2>6. q.s.buffer_position = C[n + 1] - C[b - 1] BY <2>1, <2>2, <2>3, <2>4
  <2>7. q.s.buffer_position > 0 BY <2>2, <2>3
  <2>8. q.s.line = w[b] BY <1>4, <2>1, <2>2
  <2>9. b \in 1 .. n + 1 /\ b \in 1 .. (n + 1) + 1 OBVIOUS
  <2>10. /\ q.s.request_type = "UNKNOWN" <=> Parsed(w, n + 1) = {}
         /\ GoodLines(w, n + 1)
    BY <1>1, <1>3, <1>4, TextAddsNoLine DEF Tracks
  <2> QED BY <2>5, <2>6, <2>7, <2>8, <2>9, <2>10 DEF Tracks
<1> QED BY <1>4, <1>5 DEF ReaderOK

(* A line end judges the line and starts the next one, or ends the reading.*)
LEMMA EndKeeps ==
  ASSUME NEW w \in Words, NEW n \in Nat, n + 1 <= Len(w), w[n + 1] = NL,
         NEW r, ReaderOK(w, n, r), Going(r)
  PROVE  ReaderOK(w, n + 1, LineEnd(r))
<1> DEFINE q == LineEnd(r)
           parsed == r.s.buffer_position > 10
           s == IF parsed /\ r.s.request_type = "UNKNOWN"
                  THEN [r.s EXCEPT !.request_type = "GET"] ELSE r.s
           t == r.termination + 1
           C == CharsUpTo(w)
<1>1. r \in Readers /\ Tracks(w, n, r.s) /\ r.s.state = "GET_REQUEST" BY DEF ReaderOK, Going
<1>2. r.s \in Sockets /\ r.termination \in {0, 1} BY <1>1 DEF Readers
<1>3. /\ s \in Sockets
      /\ s.request_type = IF parsed THEN "GET" ELSE r.s.request_type
      /\ s.buffer_position = r.s.buffer_position /\ s.state = r.s.state
  BY <1>2 DEF Sockets
<1>4. LineLength(w, n + 1) = r.s.buffer_position BY <1>1, TrackedLine
<1>5. r.s.buffer_position \in Nat /\ r.s.buffer_position < LARGE_BUFFER_SIZE
  BY <1>2 DEF Sockets, Going
<1>6. /\ parsed => Parsed(w, n + 1) = Parsed(w, n) \cup {n + 1}
      /\ ~parsed => Parsed(w, n + 1) = Parsed(w, n)
  BY <1>4, EndAddsLine
<1>7. s.request_type = "UNKNOWN" <=> Parsed(w, n + 1) = {}
  BY <1>1, <1>3, <1>6 DEF Tracks
<1>8. ASSUME parsed => Accepts(r.s)
      PROVE  GoodLines(w, n + 1)
  <2>1. GoodLines(w, n) BY <1>1 DEF Tracks
  <2>2. ASSUME LineLength(w, n + 1) > 10
        PROVE  IF Parsed(w, n) = {} THEN w[LineStart(w, n + 1)] \in RequestLines
                                    ELSE w[LineStart(w, n + 1)] \notin Refused
    <3>1. w[LineStart(w, n + 1)] = r.s.line
      BY <1>1, <1>4, <1>5, <2>2, TrackedLine
    <3>2. Accepts(r.s) BY <1>4, <1>8, <2>2
    <3> QED BY <1>1, <3>1, <3>2 DEF Tracks, Accepts
  <2> QED BY <1>4, <1>5, <2>1, <2>2, GoodEnd
<1> HIDE DEF s
<1>9. CASE parsed /\ ~Accepts(r.s)
  <2>1. q = [r EXCEPT !.s.state = "DISCONNECT"] BY <1>9 DEF LineEnd
  <2>2. q.s = [r.s EXCEPT !.state = "DISCONNECT"] /\ q.termination = r.termination
    BY <1>1, <2>1 DEF Readers
  <2>3. q \in Readers
    <3>1. q.s \in Sockets BY <1>2, <2>2 DEF Sockets, States
    <3> QED BY <1>1, <2>1, <3>1 DEF Readers
  <2>4. q.s.state = "DISCONNECT" BY <1>2, <2>2 DEF Sockets
  <2> QED BY <2>3, <2>4 DEF ReaderOK, Going
<1>10. CASE (parsed => Accepts(r.s)) /\ t = 2
  <2> DEFINE end == IF s.request_type = "GET" THEN "PROCESS_REQUEST" ELSE "DISCONNECT"
  <2>1. q = [r EXCEPT !.s = [s EXCEPT !.state = end]] BY <1>10 DEF LineEnd, s
  <2>2. end \in {"PROCESS_REQUEST", "DISCONNECT"} OBVIOUS
  <2> HIDE DEF end
  <2>3. q.s = [s EXCEPT !.state = end] /\ q.termination = r.termination
    BY <1>1, <2>1 DEF Readers
  <2>4. q.s \in Sockets /\ q.s.state = end BY <1>3, <2>2, <2>3 DEF Sockets, States
  <2>5. q \in Readers BY <1>1, <2>1, <2>4 DEF Readers
  <2>6. r.termination = 1 BY <1>2, <1>10
  <2>7. n >= 1 /\ w[n] = NL BY <2>6 DEF ReaderOK
  <2>8. ASSUME q.s.state = "PROCESS_REQUEST"
        PROVE  Served(w, n + 1)
    <3>1. s.request_type = "GET" BY <2>4, <2>8 DEF end
    <3>2. Parsed(w, n + 1) # {} BY <1>7, <3>1
    <3>3. GoodLines(w, n + 1) BY <1>8, <1>10
    <3>4. n + 1 \in 2 .. n + 1 /\ (n + 1) - 1 = n BY <2>7
    <3> QED BY <2>7, <3>2, <3>3, <3>4 DEF Served
  <2>9. ~Going(q) BY <2>2, <2>4 DEF Going
  <2> QED BY <2>5, <2>8, <2>9 DEF ReaderOK
<1>11. CASE (parsed => Accepts(r.s)) /\ t # 2
  <2> DEFINE z == [s EXCEPT !.buffer_position = 0, !.line = NoLine]
  <2>1. q = [r EXCEPT !.s = z, !.termination = t] BY <1>11 DEF LineEnd, s
  <2>2. /\ z \in Sockets /\ z.buffer_position = 0
        /\ z.request_type = s.request_type /\ z.state = "GET_REQUEST"
    <3>1. 0 \in 0 .. LARGE_BUFFER_SIZE /\ NoLine \in Pieces \cup {NoLine}
      BY RequestAssumption
    <3> QED BY <1>1, <1>3, <3>1 DEF Sockets
  <2> HIDE DEF z
  <2>3. q.s = z /\ q.termination = t BY <1>1, <2>1 DEF Readers
  <2>4. t = 1 BY <1>2, <1>11
  <2>5. q \in Readers BY <1>1, <2>1, <2>2, <2>4 DEF Readers
  <2>6. Tracks(w, n + 1, q.s)
    <3>1. IsStart(w, (n + 1) + 1, (n + 1) + 1) BY DEF IsStart
    <3>2. C[n + 1] \in Nat
      <4>1. n + 1 \in 0 .. Len(w) /\ w \in Seq(Pieces \cup {NL}) BY DEF Words
      <4> QED BY <4>1, CountIs
    <3>3. q.s.buffer_position = C[n + 1] - C[((n + 1) + 1) - 1]
      BY <2>2, <2>3, <3>2
    <3>4. (n + 1) + 1 \in 1 .. (n + 1) + 1 /\ ~(q.s.buffer_position > 0) BY <2>2, <2>3
    <3>5. GoodLines(w, n + 1) BY <1>8, <1>11
    <3>6. q.s.request_type = "UNKNOWN" <=> Parsed(w, n + 1) = {} BY <1>7, <2>2, <2>3
    <3> QED BY <3>1, <3>3, <3>4, <3>5, <3>6 DEF Tracks
  <2>7. q.s.buffer_position = 0 /\ q.s.state = "GET_REQUEST" BY <2>2, <2>3
  <2>8. n + 1 >= 1 OBVIOUS
  <2> QED BY <2>5, <2>6, <2>7, <2>8 DEF ReaderOK
<1> QED BY <1>9, <1>10, <1>11

LEMMA PieceKeeps ==
  ASSUME NEW w \in Words, NEW n \in Nat, n + 1 <= Len(w), NEW r, ReaderOK(w, n, r)
  PROVE  ReaderOK(w, n + 1, NextPiece(r, w[n + 1]))
<1>1. CASE ~Going(r)
  <2>1. r.s.state = "PROCESS_REQUEST" => Served(w, n + 1)
    BY ServedStays DEF ReaderOK
  <2> QED BY <1>1, <2>1 DEF NextPiece, ReaderOK
<1>2. CASE Going(r) /\ w[n + 1] = NL
  BY <1>2, EndKeeps DEF NextPiece
<1>3. CASE Going(r) /\ w[n + 1] # NL
  <2>1. w[n + 1] \in Pieces BY <1>3 DEF Words
  <2> QED BY <1>3, <2>1, TextKeeps DEF NextPiece
<1> QED BY <1>1, <1>2, <1>3

-----------------------------------------------------------------------------
(* One call, and the request.                                              *)

RequestInv ==
  /\ RequestTypeOK
  /\ socket.state = "GET_REQUEST" =>
       socket.buffer_position < LARGE_BUFFER_SIZE /\ Tracks(stream, read, socket)
  /\ socket.state = "PROCESS_REQUEST" => Served(stream, read)

(* However long the segment, the reader follows the stream through it.     *)
LEMMA CallKeeps ==
  ASSUME NEW w \in Words, NEW from \in Nat, NEW n \in Nat, from + n <= Len(w),
         NEW s, s \in Sockets, s.state = "GET_REQUEST",
         s.buffer_position < LARGE_BUFFER_SIZE, Tracks(w, from, s)
  PROVE  LET q == get_client_request(s, SubSeq(w, from + 1, from + n))
         IN  /\ q \in Sockets
             /\ q.state = "GET_REQUEST" =>
                  q.buffer_position < LARGE_BUFFER_SIZE /\ Tracks(w, from + n, q)
             /\ q.state = "PROCESS_REQUEST" => Served(w, from + n)
<1> DEFINE g == SubSeq(w, from + 1, from + n)
           R == Reading(s, g)
           end == R[n].s
           q == get_client_request(s, g)
<1>1. Len(g) = n /\ \A k \in 1 .. n : g[k] = w[from + k] BY DEF Words
<1>2. R[0] = [s |-> s, termination |-> 0] /\ \A k \in 1 .. n : R[k] = NextPiece(R[k - 1], g[k])
  <2> HIDE DEF g
  <2>1. Len(g) \in Nat BY <1>1
  <2>2. R[0] = [s |-> s, termination |-> 0] BY <2>1, ReadingIs
  <2>3. \A k \in 1 .. Len(g) : R[k] = NextPiece(R[k - 1], g[k]) BY <2>1, ReadingIs
  <2> QED BY <1>1, <2>2, <2>3
<1>3. q = IF end.state = "GET_REQUEST" /\ end.buffer_position = LARGE_BUFFER_SIZE
            THEN [end EXCEPT !.state = "DISCONNECT"] ELSE end
  BY <1>1 DEF get_client_request
<1> HIDE DEF g, R, q
<1>4. \A k \in 0 .. n : ReaderOK(w, from + k, R[k])
  <2> DEFINE Bad == {m \in Nat : m <= n /\ ~ReaderOK(w, from + m, R[m])}
  <2> SUFFICES ASSUME Bad # {} PROVE FALSE OBVIOUS
  <2>1. PICK m \in Bad : \A k \in Bad : m <= k BY LeastElement
  <2>2. m # 0
    <3>1. R[0] \in Readers BY <1>2 DEF Readers
    <3>2. R[0].s = s /\ R[0].termination = 0 BY <1>2
    <3>3. from + 0 = from OBVIOUS
    <3>4. ReaderOK(w, from, R[0]) BY <3>1, <3>2 DEF ReaderOK
    <3> QED BY <2>1, <3>3, <3>4
  <2>3. m \in 1 .. n /\ m - 1 \in Nat /\ m - 1 \notin Bad BY <2>1, <2>2
  <2>4. ReaderOK(w, from + (m - 1), R[m - 1]) BY <2>3
  <2>5. from + (m - 1) \in Nat /\ (from + (m - 1)) + 1 = from + m /\ from + m <= Len(w)
    BY <2>3
  <2>6. (from + (m - 1)) + 1 <= Len(w) BY <2>5
  <2>7. ReaderOK(w, (from + (m - 1)) + 1, NextPiece(R[m - 1], w[(from + (m - 1)) + 1]))
    BY <2>4, <2>5, <2>6, PieceKeeps
  <2>8. R[m] = NextPiece(R[m - 1], w[from + m]) BY <1>1, <1>2, <2>3
  <2> QED BY <2>1, <2>5, <2>7, <2>8
<1>5. ReaderOK(w, from + n, R[n]) BY <1>4
<1>6. end \in Sockets BY <1>5 DEF ReaderOK, Readers
<1>7. Going(R[n]) => Tracks(w, from + n, end) BY <1>5 DEF ReaderOK
<1>8. end.state = "PROCESS_REQUEST" => Served(w, from + n) BY <1>5 DEF ReaderOK
<1>9. CASE end.state = "GET_REQUEST" /\ end.buffer_position = LARGE_BUFFER_SIZE
  <2>1. q = [end EXCEPT !.state = "DISCONNECT"] BY <1>3, <1>9
  <2> HIDE DEF end
  <2>2. q \in Sockets /\ q.state = "DISCONNECT" BY <1>6, <2>1 DEF Sockets, States
  <2> QED BY <2>2 DEF q, g
<1>10. CASE ~(end.state = "GET_REQUEST" /\ end.buffer_position = LARGE_BUFFER_SIZE)
  <2>1. q = end BY <1>3, <1>10
  <2>2. end.buffer_position \in 0 .. LARGE_BUFFER_SIZE BY <1>6 DEF Sockets
  <2>3. end.state = "GET_REQUEST" =>
          end.buffer_position < LARGE_BUFFER_SIZE /\ Tracks(w, from + n, end)
    BY <1>7, <1>10, <2>2, RequestAssumption DEF Going
  <2> HIDE DEF end
  <2> QED BY <1>6, <1>8, <2>1, <2>3 DEF q, g
<1> QED BY <1>9, <1>10

LEMMA RequestStarts == RequestInit => RequestInv
<1> SUFFICES ASSUME RequestInit PROVE RequestInv OBVIOUS
<1>1. stream \in Words
  <2>1. PICK n \in 1 .. MaxPieces : stream \in [1 .. n -> Pieces \cup {NL}]
    BY DEF RequestInit, Streams
  <2>2. n \in Nat BY RequestAssumption
  <2> QED BY <2>1, <2>2 DEF Words
<1>2. read = 0 /\ socket = Fresh BY DEF RequestInit
<1>3. socket \in Sockets
  <2>1. 0 \in 0 .. LARGE_BUFFER_SIZE BY RequestAssumption
  <2> QED BY <1>2, <2>1 DEF Fresh, Sockets, States
<1>4. RequestTypeOK BY <1>1, <1>2, <1>3 DEF RequestTypeOK, Words, Sockets, States
<1>5. Tracks(stream, 0, socket)
  <2>1. IsStart(stream, 0 + 1, 1) BY DEF IsStart
  <2>2. CharsUpTo(stream)[0] \in Nat BY <1>1, CountIs DEF Words
  <2>3. LinesBefore(stream, 0) = {} BY DEF LinesBefore
  <2>4. Parsed(stream, 0) = {} BY <2>3 DEF Parsed
  <2>5. GoodLines(stream, 0) BY <2>3, <2>4 DEF GoodLines
  <2>6. socket.buffer_position = 0 /\ socket.request_type = "UNKNOWN" BY <1>2 DEF Fresh
  <2>7. socket.buffer_position = CharsUpTo(stream)[0] - CharsUpTo(stream)[1 - 1]
    BY <2>2, <2>6
  <2>8. 1 \in 1 .. 0 + 1 /\ 1 = 0 + 1 OBVIOUS
  <2> QED BY <2>1, <2>4, <2>5, <2>6, <2>7, <2>8 DEF Tracks
<1>6. socket.buffer_position < LARGE_BUFFER_SIZE /\ socket.state = "GET_REQUEST"
  BY <1>2, RequestAssumption DEF Fresh
<1> QED BY <1>2, <1>4, <1>5, <1>6 DEF RequestInv

LEMMA RequestKeeps == RequestInv /\ [RequestNext]_requestVars => RequestInv'
<1> SUFFICES ASSUME RequestInv, [RequestNext]_requestVars PROVE RequestInv' OBVIOUS
<1>1. CASE UNCHANGED requestVars
  BY <1>1 DEF RequestInv, RequestTypeOK, requestVars
<1>2. ASSUME NEW n \in 1 .. MaxPieces, Segment(n)
      PROVE  RequestInv'
  <2> DEFINE q == get_client_request(socket, SubSeq(stream, read + 1, read + n))
  <2>1. stream \in Words /\ read \in 0 .. Len(stream) /\ socket \in Sockets
    BY DEF RequestInv, RequestTypeOK, Words, Sockets, States
  <2>2. n \in Nat /\ read \in Nat /\ Len(stream) \in Nat
    BY <2>1, RequestAssumption DEF Words
  <2>3. socket.state = "GET_REQUEST" /\ read + n <= Len(stream) BY <1>2 DEF Segment
  <2>4. socket.buffer_position < LARGE_BUFFER_SIZE /\ Tracks(stream, read, socket)
    BY <2>3 DEF RequestInv
  <2>5. /\ q \in Sockets
        /\ q.state = "GET_REQUEST" =>
             q.buffer_position < LARGE_BUFFER_SIZE /\ Tracks(stream, read + n, q)
        /\ q.state = "PROCESS_REQUEST" => Served(stream, read + n)
    BY <2>1, <2>2, <2>3, <2>4, CallKeeps
  <2>6. socket' = q /\ read' = read + n /\ stream' = stream BY <1>2 DEF Segment
  <2> HIDE DEF q
  <2>7. RequestTypeOK'
    BY <2>1, <2>2, <2>3, <2>5, <2>6 DEF RequestTypeOK, Words, Sockets, States
  <2> QED BY <2>5, <2>6, <2>7 DEF RequestInv
<1> QED BY <1>1, <1>2 DEF RequestNext

LEMMA RequestAlways == RequestSpec => []RequestInv
BY RequestStarts, RequestKeeps, PTL DEF RequestSpec

(* Whatever the client sends and however it is cut, the reader's fields    *)
(* keep their types and the line never outgrows its buffer.                *)
THEOREM RequestTypes == RequestSpec => []RequestTypeOK
<1>1. RequestInv => RequestTypeOK BY DEF RequestInv
<1> QED BY <1>1, RequestAlways, PTL

(* get_client_request() serves only a well formed request it has read to   *)
(* an empty line: no cut loses a line, joins two or judges a part of one.  *)
THEOREM ServedRequests == RequestSpec => []ServesOnlyRequests
<1>1. RequestInv => ServesOnlyRequests
  BY DEF RequestInv, ServesOnlyRequests, Served
<1> QED BY <1>1, RequestAlways, PTL

(* A line that is too long or that the parser refuses ends the reading in  *)
(* the call that meets it, in however many parts it arrived.               *)
THEOREM Refusals == RequestSpec => []RefusedInTime
<1>1. RequestInv => RefusedInTime
  BY DEF RequestInv, RefusedInTime, Tracks
<1> QED BY <1>1, RequestAlways, PTL

=============================================================================
