------------------------------ MODULE TextProofs ------------------------------
(***************************************************************************)
(* Proofs about the parts that read and write text piece by piece.         *)
(***************************************************************************)
EXTENDS Chunked, LineParser, Printf, TLAPS, WellFoundedInduction, NaturalsInduction,
        SequenceTheorems

(* A nonempty set of natural numbers has a least element.                  *)
LEMMA LeastElement ==
  ASSUME NEW E \in SUBSET Nat, E # {}
  PROVE  \E k \in E : \A j \in E : k <= j
<1> DEFINE Less == {ss \in Nat \X Nat : ss[1] < ss[2]}
<1>1. IsWellFoundedOn(Less, Nat)
  BY NatLessThanWellFounded DEF OpToRel
<1>2. PICK k \in E : \A j \in E : <<j, k>> \notin Less
  BY <1>1, WFMin
<1>3. \A j \in E : k <= j
  <2> TAKE j \in E
  <2>1. j \in Nat /\ k \in Nat /\ ~(j < k)
    BY <1>2
  <2> QED  BY <2>1
<1> QED  BY <1>3

(* A function that is defined by its first value and a typed step from one *)
(* value to the next exists, as far as it is wanted.                       *)
Follows(f, a, g, n) ==
  /\ f[0] = a
  /\ \A k \in 1 .. n : f[k] = g[<<f[k - 1], k>>]

LEMMA RecursionExists ==
  ASSUME NEW S, NEW a \in S, NEW N \in Nat, NEW g \in [S \X (1 .. N) -> S]
  PROVE  \E f \in [0 .. N -> S] : Follows(f, a, g, N)
<1> DEFINE Good(n) == \E f \in [0 .. n -> S] : Follows(f, a, g, n)
           Bad == {m \in Nat : m <= N /\ ~Good(m)}
<1> SUFFICES ASSUME Bad # {} PROVE FALSE OBVIOUS
<1>1. PICK m \in Bad : \A k \in Bad : m <= k BY LeastElement
<1>2. m # 0
  <2>1. [k \in 0 .. 0 |-> a] \in [0 .. 0 -> S] OBVIOUS
  <2>2. Follows([k \in 0 .. 0 |-> a], a, g, 0) BY DEF Follows
  <2>3. Good(0) BY <2>1, <2>2
  <2> QED BY <2>3
<1>3. m - 1 \in Nat /\ m - 1 \notin Bad /\ m \in 1 .. N BY <1>1, <1>2
<1>4. PICK f \in [0 .. m - 1 -> S] : Follows(f, a, g, m - 1) BY <1>3
<1> DEFINE h == [k \in 0 .. m |-> IF k = m THEN g[<<f[m - 1], m>>] ELSE f[k]]
<1>5. f[m - 1] \in S BY <1>3
<1>6. g[<<f[m - 1], m>>] \in S BY <1>3, <1>5
<1>7. h \in [0 .. m -> S] BY <1>3, <1>6
<1>8. \A k \in 0 .. m - 1 : h[k] = f[k] BY <1>3
<1>9. h[m] = g[<<f[m - 1], m>>] BY <1>3
<1> HIDE DEF h
<1>10. h[0] = a BY <1>3, <1>4, <1>8 DEF Follows
<1>11. ASSUME NEW k \in 1 .. m PROVE h[k] = g[<<h[k - 1], k>>]
  <2>1. k - 1 \in 0 .. m - 1 /\ h[k - 1] = f[k - 1] BY <1>3, <1>8
  <2>2. CASE k = m BY <1>9, <2>1, <2>2
  <2>3. CASE k # m
    <3>1. k \in 1 .. m - 1 /\ k \in 0 .. m - 1 BY <1>3, <2>3
    <3> QED BY <1>4, <1>8, <2>1, <3>1 DEF Follows
  <2> QED BY <2>2, <2>3
<1>12. Follows(h, a, g, m) BY <1>10, <1>11 DEF Follows
<1>13. Good(m) BY <1>7, <1>12
<1> QED BY <1>1, <1>13

-----------------------------------------------------------------------------
(* The answer in chunks.  A text is ordered from a to b when the bytes of  *)
(* the body in it ascend, and lie above a and not above b.                 *)

Ascending(s) ==
  \A i, j \in 1 .. Len(s) : i < j /\ s[i] > DATA /\ s[j] > DATA => s[i] < s[j]

Ordered(s, a, b) ==
  /\ s \in Seq(Int)
  /\ Ascending(s)
  /\ \A i \in 1 .. Len(s) : s[i] > DATA => a < s[i] /\ s[i] <= b

LEMMA PlainOrdered ==
  ASSUME NEW s \in Seq(Int), NEW a, NEW b, \A i \in 1 .. Len(s) : s[i] <= DATA
  PROVE  Ordered(s, a, b)
<1>1. DATA \in Int /\ Len(s) \in Nat /\ \A i \in 1 .. Len(s) : s[i] \in Int BY DEF DATA
<1>2. \A i \in 1 .. Len(s) : ~(s[i] > DATA) BY <1>1
<1> QED BY <1>2 DEF Ordered, Ascending

LEMMA ConcatParts ==
  ASSUME NEW S, NEW s \in Seq(S), NEW t \in Seq(S), NEW u, u = s \o t
  PROVE  /\ u \in Seq(S) /\ Len(s) \in Nat /\ Len(t) \in Nat /\ Len(u) = Len(s) + Len(t)
         /\ \A i \in 1 .. Len(u) :
              \/ i \in 1 .. Len(s) /\ u[i] = s[i]
              \/ i > Len(s) /\ i - Len(s) \in 1 .. Len(t) /\ u[i] = t[i - Len(s)]
<1>1. Len(s) \in Nat /\ Len(t) \in Nat OBVIOUS
<1>2. u \in Seq(S) OBVIOUS
<1>3. Len(u) = Len(s) + Len(t) BY ConcatProperties
<1>4. \A i \in 1 .. Len(s) + Len(t) : u[i] = IF i <= Len(s) THEN s[i] ELSE t[i - Len(s)]
  BY ConcatProperties
<1>5. ASSUME NEW i \in 1 .. Len(u)
      PROVE  \/ i \in 1 .. Len(s) /\ u[i] = s[i]
             \/ i > Len(s) /\ i - Len(s) \in 1 .. Len(t) /\ u[i] = t[i - Len(s)]
  <2>1. CASE i <= Len(s) BY <1>1, <1>3, <1>4, <2>1
  <2>2. CASE ~(i <= Len(s)) BY <1>1, <1>3, <1>4, <2>2
  <2> QED BY <2>1, <2>2
<1> QED BY <1>1, <1>2, <1>3, <1>5

LEMMA ConcatOrdered ==
  ASSUME NEW a \in Int, NEW b \in Int, NEW c \in Int, a <= b, b <= c,
         NEW s, Ordered(s, a, b), NEW t, Ordered(t, b, c), NEW u, u = s \o t
  PROVE  Ordered(u, a, c)
<1>1. s \in Seq(Int) /\ t \in Seq(Int) BY DEF Ordered
<1>2. /\ u \in Seq(Int) /\ Len(s) \in Nat /\ Len(t) \in Nat /\ Len(u) = Len(s) + Len(t)
      /\ \A i \in 1 .. Len(u) :
           \/ i \in 1 .. Len(s) /\ u[i] = s[i]
           \/ i > Len(s) /\ i - Len(s) \in 1 .. Len(t) /\ u[i] = t[i - Len(s)]
  BY <1>1, ConcatParts
<1>3. /\ \A i \in 1 .. Len(s) : s[i] \in Int /\ (s[i] > DATA => a < s[i] /\ s[i] <= b)
      /\ \A i \in 1 .. Len(t) : t[i] \in Int /\ (t[i] > DATA => b < t[i] /\ t[i] <= c)
      /\ \A i, j \in 1 .. Len(s) : i < j /\ s[i] > DATA /\ s[j] > DATA => s[i] < s[j]
      /\ \A i, j \in 1 .. Len(t) : i < j /\ t[i] > DATA /\ t[j] > DATA => t[i] < t[j]
  BY <1>1 DEF Ordered, Ascending
<1>4. DATA \in Int BY DEF DATA
<1>5. \A i \in 1 .. Len(u) : u[i] > DATA => a < u[i] /\ u[i] <= c
  BY <1>2, <1>3, <1>4
<1>6. ASSUME NEW i \in 1 .. Len(u), NEW j \in 1 .. Len(u), i < j, u[i] > DATA, u[j] > DATA
      PROVE  u[i] < u[j]
  <2>1. CASE i \in 1 .. Len(s) /\ u[i] = s[i]
    <3>1. CASE j \in 1 .. Len(s) /\ u[j] = s[j] BY <1>3, <1>6, <2>1, <3>1
    <3>2. CASE j - Len(s) \in 1 .. Len(t) /\ u[j] = t[j - Len(s)]
      BY <1>3, <1>6, <2>1, <3>2
    <3> QED BY <1>2, <3>1, <3>2
  <2>2. CASE i > Len(s) /\ i - Len(s) \in 1 .. Len(t) /\ u[i] = t[i - Len(s)]
    <3>1. j - Len(s) \in 1 .. Len(t) /\ u[j] = t[j - Len(s)] /\ i - Len(s) < j - Len(s)
      BY <1>2, <1>6, <2>2
    <3> QED BY <1>3, <1>6, <2>2, <3>1
  <2> QED BY <1>2, <2>1, <2>2
<1> QED BY <1>2, <1>5, <1>6 DEF Ordered, Ascending

LEMMA BytesIs ==
  /\ BytesUpTo[0] = 0 /\ \A k \in 0 .. Len(Chunks) : BytesUpTo[k] \in Nat
  /\ \A k \in 1 .. Len(Chunks) : BytesUpTo[k] = BytesUpTo[k - 1] + Chunks[k]
<1> DEFINE N == Len(Chunks)
           g == [x \in Nat \X (1 .. N) |-> x[1] + Chunks[x[2]]]
           Is(f) == f = [k \in 0 .. N |-> IF k = 0 THEN 0 ELSE f[k - 1] + Chunks[k]]
           e == BytesUpTo
<1>1. N \in Nat /\ \A k \in 1 .. N : Chunks[k] \in Nat BY ChunkedAssumption
<1>2. g \in [Nat \X (1 .. N) -> Nat] BY <1>1
<1>3. \A x \in Nat, k \in 1 .. N : g[<<x, k>>] = x + Chunks[k] OBVIOUS
<1>4. e = CHOOSE f : Is(f) BY DEF BytesUpTo
<1>0. 0 \in Nat OBVIOUS
<1> HIDE DEF N, g, e
<1>5. PICK f \in [0 .. N -> Nat] : Follows(f, 0, g, N) BY <1>0, <1>1, <1>2, RecursionExists
<1>6. \A k \in 0 .. N : f[k] = IF k = 0 THEN 0 ELSE f[k - 1] + Chunks[k]
  <2> TAKE k \in 0 .. N
  <2>1. CASE k = 0 BY <1>5, <2>1 DEF Follows
  <2>2. CASE k # 0
    <3>1. k \in 1 .. N /\ k - 1 \in 0 .. N BY <1>1, <2>2
    <3>2. f[k - 1] \in Nat BY <3>1
    <3> QED BY <1>3, <1>5, <2>2, <3>1, <3>2 DEF Follows
  <2> QED BY <2>1, <2>2
<1>7. Is(f) BY <1>6
<1>8. Is(e) BY <1>4, <1>7
<1>9. e[0] = 0 /\ \A k \in 1 .. N : e[k] = e[k - 1] + Chunks[k]
  BY <1>1, <1>8
<1>11. \A k \in 0 .. N : e[k] \in Nat
  <2> DEFINE Bad == {m \in Nat : m <= N /\ e[m] \notin Nat}
  <2> SUFFICES ASSUME Bad # {} PROVE FALSE BY <1>1
  <2>1. PICK m \in Bad : \A k \in Bad : m <= k BY LeastElement
  <2>2. m # 0 BY <1>9, <2>1
  <2>3. m - 1 \in Nat /\ m - 1 \notin Bad /\ m \in 1 .. N BY <1>1, <2>1, <2>2
  <2>4. e[m - 1] \in Nat /\ Chunks[m] \in Nat BY <1>1, <2>3
  <2>5. e[m] \in Nat BY <1>9, <2>3, <2>4
  <2> QED BY <2>1, <2>5
<1> QED BY <1>9, <1>11 DEF N, e

LEMMA BodyOrdered ==
  ASSUME NEW from \in Nat, NEW n \in Nat
  PROVE  Ordered(ChunkBody(from, n), BodyByte(from), BodyByte(from + n))
<1> DEFINE s == ChunkBody(from, n)
<1>1. s \in Seq(Int) BY DEF ChunkBody, BodyByte, DATA
<1>2. Len(s) = n BY DEF ChunkBody
<1>3. \A i \in 1 .. n : s[i] = 20 + (from + i) BY DEF ChunkBody, BodyByte, DATA
<1>4. BodyByte(from) = 20 + from /\ BodyByte(from + n) = 20 + (from + n) BY DEF BodyByte, DATA
<1> HIDE DEF s
<1>5. Ordered(s, BodyByte(from), BodyByte(from + n))
  BY <1>1, <1>2, <1>3, <1>4 DEF Ordered, Ascending
<1> QED BY <1>5 DEF s

LEMMA TextOrdered ==
  ASSUME NEW k \in 1 .. Len(Chunks)
  PROVE  /\ BodyByte(BytesUpTo[k - 1]) \in Int /\ BodyByte(BytesUpTo[k]) \in Int
         /\ DATA <= BodyByte(BytesUpTo[k - 1])
         /\ BodyByte(BytesUpTo[k - 1]) <= BodyByte(BytesUpTo[k])
         /\ Ordered(ChunkText(k), BodyByte(BytesUpTo[k - 1]), BodyByte(BytesUpTo[k]))
<1> DEFINE n == Chunks[k]
           from == BytesUpTo[k - 1]
           h == <<n, CR, LF>>
           b == ChunkBody(from, n)
           e == <<CR, LF>>
           low == BodyByte(from)
           high == BodyByte(BytesUpTo[k])
<1>1. n \in 1 .. 15 /\ from \in Nat /\ BytesUpTo[k] = from + n
  <2>1. Len(Chunks) \in Nat BY ChunkedAssumption
  <2>2. k - 1 \in 0 .. Len(Chunks) BY <2>1
  <2> QED BY <2>2, BytesIs, ChunkedAssumption
<1> HIDE DEF n, from
<1>12. low = 20 + from /\ high = 20 + (from + n) /\ high = BodyByte(from + n) /\ DATA = 20
  BY <1>1 DEF BodyByte, DATA
<1>2. low \in Int /\ high \in Int /\ DATA <= low /\ low <= high BY ONLY <1>1, <1>12
<1>3. h \in Seq(Int) /\ \A i \in 1 .. Len(h) : h[i] <= DATA
  <2>1. n \in Int /\ n <= 20 BY <1>1
  <2>2. h = <<n, 16, 17>> /\ DATA = 20 BY DEF CR, LF, DATA
  <2> QED BY <2>1, <2>2
<1>4. e \in Seq(Int) /\ \A i \in 1 .. Len(e) : e[i] <= DATA BY DEF CR, LF, DATA
<1>5. ChunkText(k) = (h \o b) \o e BY DEF ChunkText, n, from
<1>6. Ordered(b, low, high)
  <2>1. n \in Nat BY <1>1
  <2>2. Ordered(ChunkBody(from, n), BodyByte(from), BodyByte(from + n)) BY <1>1, <2>1, BodyOrdered
  <2> QED BY <1>12, <2>2
<1> HIDE DEF h, b, e, low, high
<1>7. Ordered(h, low, low) /\ Ordered(e, high, high) BY <1>3, <1>4, PlainOrdered
<1> DEFINE q == h \o b
<1>8. low <= low /\ high <= high BY <1>2
<1>9. Ordered(q, low, high)
  <2>1. low \in Int /\ high \in Int /\ low <= high BY <1>2
  <2> HIDE DEF q
  <2>2. q = h \o b BY DEF q
  <2> QED BY <1>6, <1>7, <1>8, <2>1, <2>2, ConcatOrdered
<1> DEFINE u == q \o e
<1> HIDE DEF q, u
<1>10. Ordered(u, low, high)
  <2>1. low \in Int /\ high \in Int /\ low <= high BY <1>2
  <2>2. u = q \o e BY DEF u
  <2> QED BY <1>7, <1>8, <1>9, <2>1, <2>2, ConcatOrdered
<1>11. u = ChunkText(k) BY <1>5 DEF u, q
<1> QED BY <1>2, <1>10, <1>11 DEF low, high, from

LEMMA AnswerIs ==
  /\ AnswerUpTo[0] = <<HEAD>>
  /\ \A k \in 1 .. Len(Chunks) : AnswerUpTo[k] = AnswerUpTo[k - 1] \o ChunkText(k)
<1> DEFINE N == Len(Chunks)
           a == <<HEAD>>
           g == [x \in Seq(Int) \X (1 .. N) |-> x[1] \o ChunkText(x[2])]
           Is(f) == f = [k \in 0 .. N |-> IF k = 0 THEN a ELSE f[k - 1] \o ChunkText(k)]
           e == AnswerUpTo
<1>1. N \in Nat BY ChunkedAssumption
<1>2. \A k \in 1 .. N : ChunkText(k) \in Seq(Int) BY TextOrdered DEF Ordered
<1>3. g \in [Seq(Int) \X (1 .. N) -> Seq(Int)] BY <1>2
<1>4. \A x \in Seq(Int), k \in 1 .. N : g[<<x, k>>] = x \o ChunkText(k) OBVIOUS
<1>5. e = CHOOSE f : Is(f) BY DEF AnswerUpTo
<1>6. a \in Seq(Int) BY DEF HEAD
<1> HIDE DEF N, g, e, a
<1>7. PICK f \in [0 .. N -> Seq(Int)] : Follows(f, a, g, N) BY <1>1, <1>3, <1>6, RecursionExists
<1>8. \A k \in 0 .. N : f[k] = IF k = 0 THEN a ELSE f[k - 1] \o ChunkText(k)
  <2> TAKE k \in 0 .. N
  <2>1. CASE k = 0 BY <1>7, <2>1 DEF Follows
  <2>2. CASE k # 0
    <3>1. k \in 1 .. N /\ k - 1 \in 0 .. N BY <1>1, <2>2
    <3>2. f[k - 1] \in Seq(Int) BY <3>1
    <3> QED BY <1>4, <1>7, <2>2, <3>1, <3>2 DEF Follows
  <2> QED BY <2>1, <2>2
<1>9. Is(f) BY <1>8
<1>10. Is(e) BY <1>5, <1>9
<1>12. \A k \in 0 .. N : e[k] = IF k = 0 THEN a ELSE e[k - 1] \o ChunkText(k) BY <1>10
<1> HIDE DEF Is
<1>11. e[0] = a /\ \A k \in 1 .. N : e[k] = e[k - 1] \o ChunkText(k)
  <2>1. 0 \in 0 .. N /\ \A k \in 1 .. N : k \in 0 .. N /\ k # 0 BY <1>1
  <2> QED BY <1>12, <2>1
<1> QED BY <1>11 DEF N, e, a

LEMMA AnswerOrdered ==
  ASSUME NEW k \in 0 .. Len(Chunks)
  PROVE  Ordered(AnswerUpTo[k], DATA, BodyByte(BytesUpTo[k]))
<1> DEFINE Good(m) == Ordered(AnswerUpTo[m], DATA, BodyByte(BytesUpTo[m]))
           Bad == {m \in Nat : m <= Len(Chunks) /\ ~Good(m)}
<1>0. Len(Chunks) \in Nat BY ChunkedAssumption
<1> SUFFICES ASSUME Bad # {} PROVE FALSE BY <1>0
<1>1. PICK m \in Bad : \A j \in Bad : m <= j BY LeastElement
<1>2. m # 0
  <2>1. AnswerUpTo[0] = <<18>> BY AnswerIs DEF HEAD
  <2>2. AnswerUpTo[0] \in Seq(Int) /\ \A i \in 1 .. Len(AnswerUpTo[0]) : AnswerUpTo[0][i] <= DATA
    BY <2>1 DEF DATA
  <2>3. Good(0) BY <2>2, PlainOrdered
  <2> QED BY <2>3
<1>3. m - 1 \in Nat /\ m - 1 \notin Bad /\ m \in 1 .. Len(Chunks) BY <1>0, <1>1, <1>2
<1>4. Good(m - 1) BY <1>3
<1> DEFINE s == AnswerUpTo[m - 1]
           t == ChunkText(m)
           u == AnswerUpTo[m]
           low == BodyByte(BytesUpTo[m - 1])
           high == BodyByte(BytesUpTo[m])
<1>5. low \in Int /\ high \in Int /\ DATA <= low /\ low <= high /\ Ordered(t, low, high)
  BY <1>3, TextOrdered
<1>6. u = s \o t BY <1>3, AnswerIs
<1>7. DATA \in Int BY DEF DATA
<1>8. Ordered(s, DATA, low) BY <1>4
<1>10. ~Good(m) BY <1>1
<1> HIDE DEF s, t, u, low, high
<1>9. Ordered(u, DATA, high) BY <1>5, <1>6, <1>7, <1>8, ConcatOrdered
<1> QED BY <1>9, <1>10 DEF u, high

LEMMA HttpAnswerOrdered ==
  HttpAnswer \in Seq(Int) /\ Len(HttpAnswer) \in Nat /\ Ascending(HttpAnswer)
<1> DEFINE N == Len(Chunks)
           s == AnswerUpTo[N]
           t == <<0, CR, LF, CR, LF>>
           u == s \o t
           high == BodyByte(BytesUpTo[N])
<1>1. N \in 0 .. N BY ChunkedAssumption
<1>2. Ordered(s, DATA, high) BY <1>1, AnswerOrdered
<1>3. t \in Seq(Int) /\ \A i \in 1 .. Len(t) : t[i] <= DATA BY DEF CR, LF, DATA
<1>4. BytesUpTo[N] \in Nat BY <1>1, BytesIs
<1>5. high \in Int /\ DATA \in Int /\ DATA <= high /\ high <= high BY <1>4 DEF BodyByte, DATA
<1>6. u = HttpAnswer BY DEF HttpAnswer
<1> HIDE DEF s, t, high, N
<1>7. Ordered(t, high, high) BY <1>3, PlainOrdered
<1>9. u = s \o t OBVIOUS
<1> HIDE DEF u
<1>8. Ordered(u, DATA, high) BY <1>2, <1>5, <1>7, <1>9, ConcatOrdered
<1> QED BY <1>6, <1>8 DEF Ordered

-----------------------------------------------------------------------------
(* What was captured is tight at p when its bytes ascend, and none of them *)
(* is still to come behind the first p characters of the answer.           *)
Tight(s, p) ==
  /\ s \in Seq(Int)
  /\ Ascending(s)
  /\ \A i \in 1 .. Len(s), j \in 1 .. Len(HttpAnswer) :
       p < j /\ s[i] > DATA /\ HttpAnswer[j] > DATA => s[i] < HttpAnswer[j]

(* Text taken from the answer in its order, between p and q, may follow.   *)
Taken(t, p, q) ==
  /\ t \in Seq(Int)
  /\ \A i \in 1 .. Len(t) :
       t[i] > DATA => p + i <= q /\ p + i \in 1 .. Len(HttpAnswer) /\ t[i] = HttpAnswer[p + i]

LEMMA TakenTight ==
  ASSUME NEW p \in Nat, NEW q \in Nat, p <= q, NEW s, Tight(s, p), NEW t, Taken(t, p, q),
         NEW u, u = s \o t
  PROVE  Tight(u, q)
<1> DEFINE H == HttpAnswer
<1>0. H \in Seq(Int) /\ Len(H) \in Nat
      /\ \A i, j \in 1 .. Len(H) : i < j /\ H[i] > DATA /\ H[j] > DATA => H[i] < H[j]
  BY HttpAnswerOrdered DEF Ascending
<1>1. s \in Seq(Int) /\ t \in Seq(Int) BY DEF Tight, Taken
<1>2. /\ u \in Seq(Int) /\ Len(s) \in Nat /\ Len(t) \in Nat /\ Len(u) = Len(s) + Len(t)
      /\ \A i \in 1 .. Len(u) :
           \/ i \in 1 .. Len(s) /\ u[i] = s[i]
           \/ i > Len(s) /\ i - Len(s) \in 1 .. Len(t) /\ u[i] = t[i - Len(s)]
  BY <1>1, ConcatParts
<1>3. /\ \A i \in 1 .. Len(s) : s[i] \in Int
      /\ \A i \in 1 .. Len(t) : t[i] \in Int
      /\ \A i \in 1 .. Len(H) : H[i] \in Int
      /\ \A i, j \in 1 .. Len(s) : i < j /\ s[i] > DATA /\ s[j] > DATA => s[i] < s[j]
      /\ \A i \in 1 .. Len(s), j \in 1 .. Len(H) :
           p < j /\ s[i] > DATA /\ H[j] > DATA => s[i] < H[j]
      /\ \A i \in 1 .. Len(t) :
           t[i] > DATA => p + i <= q /\ p + i \in 1 .. Len(H) /\ t[i] = H[p + i]
  BY <1>0, <1>1 DEF Tight, Taken, Ascending
<1>4. DATA \in Int BY DEF DATA
<1> HIDE DEF H
<1>5. ASSUME NEW i \in 1 .. Len(u), NEW j \in 1 .. Len(H), q < j, u[i] > DATA, H[j] > DATA
      PROVE  u[i] < H[j]
  <2>1. CASE i \in 1 .. Len(s) /\ u[i] = s[i] BY <1>0, <1>3, <1>5, <2>1
  <2>2. CASE i - Len(s) \in 1 .. Len(t) /\ u[i] = t[i - Len(s)]
    <3> DEFINE k == i - Len(s)
    <3>1. p + k <= q /\ p + k \in 1 .. Len(H) /\ t[k] = H[p + k] BY <1>3, <1>5, <2>2
    <3>2. p + k < j BY <1>0, <1>2, <1>5, <3>1
    <3> QED BY <1>0, <1>5, <2>2, <3>1, <3>2
  <2> QED BY <1>2, <2>1, <2>2
<1>6. ASSUME NEW i \in 1 .. Len(u), NEW j \in 1 .. Len(u), i < j, u[i] > DATA, u[j] > DATA
      PROVE  u[i] < u[j]
  <2>1. CASE j \in 1 .. Len(s) /\ u[j] = s[j]
    <3>1. i \in 1 .. Len(s) /\ u[i] = s[i] BY <1>2, <1>6, <2>1
    <3> QED BY <1>3, <1>6, <2>1, <3>1
  <2>2. CASE j > Len(s) /\ j - Len(s) \in 1 .. Len(t) /\ u[j] = t[j - Len(s)]
    <3> DEFINE k == j - Len(s)
    <3>1. p + k \in 1 .. Len(H) /\ u[j] = H[p + k] /\ k \in 1 .. Len(t) BY <1>3, <1>6, <2>2
    <3> HIDE DEF k
    <3>2. CASE i \in 1 .. Len(s) /\ u[i] = s[i]
      <4>1. p < p + k BY <1>2, <3>1
      <4> QED BY <1>3, <1>6, <3>1, <3>2, <4>1
    <3>3. CASE i > Len(s) /\ i - Len(s) \in 1 .. Len(t) /\ u[i] = t[i - Len(s)]
      <4> DEFINE l == i - Len(s)
      <4>1. p + l \in 1 .. Len(H) /\ u[i] = H[p + l] BY <1>3, <1>6, <3>3
      <4>2. p + l < p + k BY <1>2, <1>6, <3>3 DEF k
      <4> QED BY <1>0, <1>6, <3>1, <4>1, <4>2
    <3> QED BY <1>2, <3>2, <3>3
  <2> QED BY <1>2, <2>1, <2>2
<1> QED BY <1>2, <1>5, <1>6 DEF Tight, Ascending, H

(* The packet is what is left of the answer between q and e.               *)
Left(q, e) == SubSeq(HttpAnswer, q + 1, e)

LEMMA LeftIs ==
  ASSUME NEW q \in Nat, NEW e \in Nat, q <= e, e <= Len(HttpAnswer), NEW s, s = Left(q, e)
  PROVE  /\ s \in Seq(Int) /\ Len(s) = e - q
         /\ \A i \in 1 .. e - q : q + i \in 1 .. Len(HttpAnswer) /\ s[i] = HttpAnswer[q + i]
<1> DEFINE H == HttpAnswer
<1>1. H \in Seq(Int) /\ Len(H) \in Nat BY HttpAnswerOrdered
<1> HIDE DEF H
<1>2. s = SubSeq(H, q + 1, e) BY DEF Left, H
<1>3. e <= Len(H) BY DEF H
<1>4. s \in Seq(Int) BY <1>1, <1>2, <1>3
<1>5. Len(s) = e - q BY <1>1, <1>2, <1>3
<1>6. \A i \in 1 .. e - q : s[i] = H[q + i] BY <1>1, <1>2, <1>3
<1>7. \A i \in 1 .. e - q : q + i \in 1 .. Len(H) BY <1>1, <1>3
<1> QED BY <1>4, <1>5, <1>6, <1>7 DEF H

(* Taking n characters from the packet, or all there are.                  *)
LEMMA RestIs ==
  ASSUME NEW q \in Nat, NEW e \in Nat, q <= e, e <= Len(HttpAnswer), NEW n \in Nat,
         NEW s, s = Left(q, e)
  PROVE  \E p \in q .. e : Rest(s, n) = Left(p, e) /\ p = IF n <= e - q THEN q + n ELSE e
<1> DEFINE p == IF n <= e - q THEN q + n ELSE e
           u == Rest(s, n)
           v == Left(p, e)
<1>1. p \in Nat /\ p \in q .. e OBVIOUS
<1>2. s \in Seq(Int) /\ Len(s) = e - q /\ \A i \in 1 .. e - q : s[i] = HttpAnswer[q + i]
  BY LeftIs
<1> HIDE DEF p
<1>3. v \in Seq(Int) /\ Len(v) = e - p /\ \A i \in 1 .. e - p : v[i] = HttpAnswer[p + i]
  <2>1. p <= e BY <1>1
  <2> QED BY <1>1, <2>1, LeftIs
<1>4. u \in Seq(Int) BY <1>2 DEF Rest
<1>5. Len(u) = e - p /\ \A i \in 1 .. e - p : u[i] = s[n + i]
  <2>1. u = SubSeq(s, n + 1, Len(s)) BY DEF Rest
  <2>2. s \in Seq(Int) /\ Len(s) = e - q BY <1>2
  <2> HIDE DEF u
  <2>3. CASE n <= e - q
    <3>1. p = q + n /\ e - p = Len(s) - n /\ n <= Len(s) BY <1>2, <2>3 DEF p
    <3>2. Len(u) = Len(s) - n BY <2>1, <2>2, <3>1
    <3>3. \A i \in 1 .. Len(s) - n : u[i] = s[n + i] BY <2>1, <2>2, <3>1
    <3> QED BY <3>1, <3>2, <3>3
  <2>4. CASE ~(n <= e - q)
    <3>1. e - p = 0 BY <2>4 DEF p
    <3>2. Len(u) = 0 BY <2>1, <2>2, <2>4
    <3> QED BY <3>1, <3>2
  <2> QED BY <2>3, <2>4
<1> HIDE DEF u, v
<1>6. ASSUME NEW i \in 1 .. e - p PROVE u[i] = v[i]
  <2>1. n <= e - q /\ p = q + n BY <1>1 DEF p
  <2>2. n + i \in 1 .. e - q /\ q + (n + i) = p + i BY <2>1
  <2> QED BY <1>2, <1>3, <1>5, <2>2
<1>7. u = v BY <1>3, <1>4, <1>5, <1>6
<1> QED BY <1>1, <1>7 DEF u, v, p

LEMMA ReadTaken ==
  ASSUME NEW q \in Nat, NEW e \in Nat, q <= e, e <= Len(HttpAnswer), NEW n \in Nat,
         NEW s, s = Left(q, e), NEW p, p = IF n <= e - q THEN q + n ELSE e
  PROVE  Taken(ReadBytes(s, n), q, p)
<1> DEFINE t == ReadBytes(s, n)
<1>1. /\ s \in Seq(Int) /\ Len(s) = e - q
      /\ \A i \in 1 .. e - q : q + i \in 1 .. Len(HttpAnswer) /\ s[i] = HttpAnswer[q + i]
  BY LeftIs
<1>2. JUNK \in Int /\ DATA \in Int /\ JUNK < DATA BY DEF JUNK, DATA
<1>3. \A i \in 1 .. n : t[i] = IF i <= e - q THEN s[i] ELSE JUNK BY <1>1 DEF ReadBytes
<1>4. Len(t) = n BY DEF ReadBytes
<1>5. t \in Seq(Int)
  <2>1. \A i \in 1 .. n : (IF i <= Len(s) THEN s[i] ELSE JUNK) \in Int BY <1>1, <1>2
  <2> QED BY <2>1 DEF ReadBytes
<1> HIDE DEF t
<1>6. ASSUME NEW i \in 1 .. Len(t), t[i] > DATA
      PROVE  q + i <= p /\ q + i \in 1 .. Len(HttpAnswer) /\ t[i] = HttpAnswer[q + i]
  <2>1. i <= e - q BY <1>2, <1>3, <1>4, <1>6
  <2>2. t[i] = s[i] /\ i \in 1 .. e - q BY <1>3, <1>4, <2>1
  <2>3. q + i <= p BY <1>4, <2>1
  <2> QED BY <1>1, <2>2, <2>3
<1> QED BY <1>5, <1>6 DEF Taken, t

LEMMA TightLater ==
  ASSUME NEW p \in Nat, NEW q \in Nat, p <= q, NEW s, Tight(s, p)
  PROVE  Tight(s, q)
<1>1. \A j \in 1 .. Len(HttpAnswer) : q < j => p < j BY HttpAnswerOrdered
<1> QED BY <1>1 DEF Tight

(* The size line takes characters from the packet; how many it reports as  *)
(* removed is another matter.                                              *)
LEMMA SizeTakes ==
  ASSUME NEW bytes, NEW old
  PROVE  /\ lineparse_get_chunked_size(bytes, old).taken \in Nat
         /\ lineparse_get_chunked_size(bytes, old).removed \in Int
<1> DEFINE I == {i \in 1 .. Len(Take(bytes, 7)) : Take(bytes, 7)[i] = LF}
           lf == SelectInSeq(Take(bytes, 7), LAMBDA x : x = LF)
<1>1. lf \in Nat
  <2>1. lf = IF I # {} THEN Min(I) ELSE 0 BY DEF SelectInSeq
  <2>2. CASE I = {} BY <2>1, <2>2
  <2>3. CASE I # {}
    <3>1. I \in SUBSET Nat OBVIOUS
    <3>2. \E k \in I : \A j \in I : k <= j BY <2>3, <3>1, LeastElement
    <3> HIDE DEF I
    <3>3. Min(I) \in I BY <3>2 DEF Min
    <3> QED BY <2>1, <2>3, <3>1, <3>3
  <2> QED BY <2>2, <2>3
<1> HIDE DEF lf
<1>2. lineparse_get_chunked_size(bytes, old)
        = IF lf = 0 THEN [new_size |-> old, removed |-> 0, taken |-> 7]
          ELSE [new_size |-> xtoi(Upto(bytes, {CR, LF})), removed |-> lf - 1, taken |-> lf]
  BY DEF lineparse_get_chunked_size, lf
<1> QED BY <1>1, <1>2

-----------------------------------------------------------------------------
(* The loop of get_data().                                                 *)
StartOfLoop(packet) ==
  [len |-> Len(packet), packet |-> packet, position |-> chunked_position,
   buffer |-> <<>>, download_flag |-> FALSE]

IsLoop(f, n, packet) ==
  f = [k \in 0 .. n |-> IF k = 0 THEN StartOfLoop(packet) ELSE NextPass(f[k - 1])]

LEMMA LoopGrows ==
  ASSUME NEW n \in Nat, NEW packet, NEW f, IsLoop(f, n, packet)
  PROVE  \E g : IsLoop(g, n + 1, packet)
<1> DEFINE a == StartOfLoop(packet)
           g == [k \in 0 .. n + 1 |-> IF k = n + 1 THEN NextPass(f[n]) ELSE f[k]]
<1> HIDE DEF a
<1>1. \A k \in 0 .. n : g[k] = f[k] OBVIOUS
<1>2. \A k \in 0 .. n : f[k] = IF k = 0 THEN a ELSE NextPass(f[k - 1])
  BY DEF IsLoop, a
<1>3. g[n + 1] = NextPass(f[n]) OBVIOUS
<1>4. ASSUME NEW k \in 0 .. n + 1
      PROVE  g[k] = IF k = 0 THEN a ELSE NextPass(g[k - 1])
  <2>1. CASE k = n + 1
    <3>1. g[k - 1] = f[n] /\ k # 0 BY <2>1, <1>1
    <3> QED BY <1>3, <2>1, <3>1
  <2>2. CASE k # n + 1
    <3>1. k \in 0 .. n /\ (k # 0 => k - 1 \in 0 .. n) BY <2>2
    <3> QED BY <1>1, <1>2, <3>1
  <2> QED BY <2>1, <2>2
<1>5. g = [k \in 0 .. n + 1 |-> g[k]] OBVIOUS
<1> HIDE DEF g
<1>6. g = [k \in 0 .. n + 1 |-> IF k = 0 THEN a ELSE NextPass(g[k - 1])]
  BY <1>4, <1>5
<1> QED BY <1>6 DEF IsLoop, a

LEMMA LoopExists ==
  ASSUME NEW packet, NEW n \in Nat
  PROVE  \E f : IsLoop(f, n, packet)
<1> DEFINE Bad == {m \in Nat : ~\E f : IsLoop(f, m, packet)}
<1> SUFFICES ASSUME Bad # {} PROVE FALSE OBVIOUS
<1>1. PICK m \in Bad : \A k \in Bad : m <= k BY LeastElement
<1>2. m # 0
  <2>1. IsLoop([k \in 0 .. 0 |-> StartOfLoop(packet)], 0, packet)
    BY DEF IsLoop
  <2> QED BY <2>1
<1>3. m - 1 \in Nat /\ m - 1 \notin Bad BY <1>1, <1>2
<1>4. PICK f : IsLoop(f, m - 1, packet) BY <1>3
<1>5. \E g : IsLoop(g, (m - 1) + 1, packet) BY <1>3, <1>4, LoopGrows
<1>6. (m - 1) + 1 = m BY <1>1
<1> QED BY <1>1, <1>5, <1>6

LEMMA PassesAre ==
  ASSUME NEW packet, Len(packet) \in Nat
  PROVE  /\ Passes(packet)[0] = StartOfLoop(packet)
         /\ \A k \in 1 .. Len(packet) : Passes(packet)[k] = NextPass(Passes(packet)[k - 1])
<1>1. \E f : IsLoop(f, Len(packet), packet) BY LoopExists
<1>2. Passes(packet) = CHOOSE f : IsLoop(f, Len(packet), packet)
  BY DEF Passes, IsLoop, StartOfLoop
<1>3. IsLoop(Passes(packet), Len(packet), packet) BY <1>1, <1>2
<1> QED BY <1>3 DEF IsLoop

(* Some of the packet has been taken, and what went to the buffer of it    *)
(* may follow what was captured.                                           *)
Loop(r, e) ==
  /\ DOMAIN r = {"len", "packet", "position", "buffer", "download_flag"}
  /\ r.buffer \in Seq(Int)
  /\ \E q \in 0 .. e : r.packet = Left(q, e) /\ Tight(captured \o r.buffer, q)

LEMMA PassKeeps ==
  ASSUME captured \in Seq(Int), NEW e \in Nat, e <= Len(HttpAnswer), NEW r, Loop(r, e)
  PROVE  Loop(NextPass(r), e)
<1>1. CASE r.len = 0 BY <1>1 DEF NextPass
<1>2. CASE r.len # 0
  <2> DEFINE c == lineparse_get_chunked_size(ReadBytes(r.packet, 7), 0)
             v == NextPass(r)
  <2>1. v = Pass(r) BY <1>2 DEF NextPass
  <2>2. PICK q \in 0 .. e : r.packet = Left(q, e) /\ Tight(captured \o r.buffer, q) BY DEF Loop
  <2>3. DOMAIN r = {"len", "packet", "position", "buffer", "download_flag"} /\ r.buffer \in Seq(Int)
    BY DEF Loop
  <2>4. q \in Nat /\ q <= e OBVIOUS
  <2>5. c.taken \in Nat BY SizeTakes
  <2> HIDE DEF v
  <2>6. CASE r.position = 0
    <3>1. v = [r EXCEPT !.len = (@ - 1 - c.removed) % WRAP, !.packet = Rest(@, c.taken),
                        !.position = c.new_size, !.download_flag = @ \/ c.new_size = 0]
      BY <2>1, <2>6 DEF Pass
    <3> HIDE DEF c
    <3>2. DOMAIN v = DOMAIN r /\ v.buffer = r.buffer /\ v.packet = Rest(r.packet, c.taken)
      BY <2>3, <3>1
    <3>3. PICK p \in q .. e : Rest(r.packet, c.taken) = Left(p, e) BY <2>2, <2>4, <2>5, RestIs
    <3>4. p \in 0 .. e /\ p \in Nat /\ q <= p BY <2>4
    <3>5. Tight(captured \o r.buffer, p) BY <2>2, <2>4, <3>4, TightLater
    <3> QED BY <2>3, <3>2, <3>3, <3>4, <3>5 DEF Loop, v
  <2>7. CASE r.position # 0
    <3> DEFINE t == ReadBytes(r.packet, 1)
    <3>1. v = [r EXCEPT !.len = @ - 1, !.packet = Rest(@, 1),
                        !.position = @ - 1, !.buffer = @ \o t]
      BY <2>1, <2>7 DEF Pass
    <3> HIDE DEF t
    <3>2. DOMAIN v = DOMAIN r /\ v.buffer = r.buffer \o t /\ v.packet = Rest(r.packet, 1)
      BY <2>3, <3>1
    <3>3. 1 \in Nat OBVIOUS
    <3>4. PICK p \in q .. e : Rest(r.packet, 1) = Left(p, e) /\ p = IF 1 <= e - q THEN q + 1 ELSE e
      BY <2>2, <2>4, <3>3, RestIs
    <3>5. Taken(t, q, p) BY <2>2, <2>4, <3>3, <3>4, ReadTaken DEF t
    <3>6. p \in 0 .. e /\ p \in Nat /\ q <= p BY <2>4
    <3>7. t \in Seq(Int) BY <3>5 DEF Taken
    <3>8. (captured \o r.buffer) \o t = captured \o (r.buffer \o t)
      <4> DEFINE b == r.buffer
      <4>1. b \in Seq(Int) BY <2>3
      <4> HIDE DEF b
      <4>2. (captured \o b) \o t = captured \o (b \o t) BY <3>7, <4>1, ConcatAssociative, SMTT(30)
      <4> QED BY <4>2 DEF b
    <3> DEFINE s == captured \o r.buffer
               u == captured \o (r.buffer \o t)
    <3>9. Tight(s, q) /\ u = s \o t BY <2>2, <3>8
    <3>10. r.buffer \o t \in Seq(Int) BY <2>3, <3>7
    <3> HIDE DEF s, u
    <3>11. Tight(u, p) BY <2>4, <3>5, <3>6, <3>9, TakenTight
    <3> QED BY <2>3, <3>2, <3>4, <3>6, <3>10, <3>11 DEF Loop, v, u
  <2> QED BY <2>6, <2>7
<1> QED BY <1>1, <1>2

LEMMA LoopKeeps ==
  ASSUME NEW p \in Nat, NEW e \in Nat, p <= e, e <= Len(HttpAnswer), Tight(captured, p),
         NEW packet, packet = Left(p, e)
  PROVE  Loop(Passes(packet)[Len(packet)], e)
<1> DEFINE f == Passes(packet)
           n == Len(packet)
           Bad == {m \in Nat : m <= n /\ ~Loop(f[m], e)}
<1>1. n \in Nat BY LeftIs
<1>2. captured \in Seq(Int) BY DEF Tight
<1>3. f[0] = StartOfLoop(packet) /\ \A k \in 1 .. n : f[k] = NextPass(f[k - 1])
  BY <1>1, PassesAre
<1> HIDE DEF f, n
<1> SUFFICES ASSUME Bad # {} PROVE FALSE BY <1>1 DEF f, n
<1>4. PICK m \in Bad : \A k \in Bad : m <= k BY LeastElement
<1>5. m # 0
  <2>1. captured \o <<>> = captured BY <1>2, ConcatEmptySeq
  <2>2. p \in 0 .. e OBVIOUS
  <2>3. Loop(f[0], e) BY <1>3, <2>1, <2>2 DEF Loop, StartOfLoop
  <2> QED BY <1>4, <2>3
<1>6. m - 1 \in Nat /\ m - 1 \notin Bad /\ m \in 1 .. n BY <1>1, <1>4, <1>5
<1>7. Loop(f[m - 1], e) BY <1>1, <1>6
<1>8. f[m] = NextPass(f[m - 1]) BY <1>3, <1>6
<1> QED BY <1>2, <1>4, <1>7, <1>8, PassKeeps

-----------------------------------------------------------------------------
(* What has arrived and what was captured of it.                           *)
ChunkInv == sent \in 0 .. Len(HttpAnswer) /\ Tight(captured, sent)

LEMMA NothingTight == ASSUME NEW p \in Nat PROVE Tight(<<>>, p)
  BY DEF Tight, Ascending

LEMMA SegmentKeeps ==
  ASSUME ChunkInv, NEW n \in 1 .. Len(HttpAnswer), ChunkSegment(n)
  PROVE  ChunkInv'
<1> DEFINE e == sent + n
           packet == SubSeq(HttpAnswer, sent + 1, e)
<1>1. sent \in Nat /\ e \in Nat /\ sent < e /\ e <= Len(HttpAnswer) /\ sent' = e
  BY HttpAnswerOrdered DEF ChunkInv, ChunkSegment, Ends
<1>2. packet = Left(sent, e) BY DEF Left
<1>3. \/ state = "GET_RESPONSE" /\ get_response(Tail(packet))
      \/ state = "GET_DATA" /\ get_data(packet)
  BY DEF ChunkSegment
<1> HIDE DEF e, packet
<1>4. CASE get_response(Tail(packet))
  <2> DEFINE c == lineparse_get_chunked_size(ReadBytes(Tail(packet), 7), 0)
             remaining == (Len(Tail(packet)) - c.removed) % WRAP
             s == Rest(Tail(packet), c.taken)
  <2>1. c.taken \in Nat /\ c.removed \in Int BY SizeTakes
  <2>2. captured' = <<>> \o ReadBytes(s, remaining) BY <1>4 DEF get_response, Written
  <2> HIDE DEF c
  <2>3. Tail(packet) = Left(sent + 1, e) /\ Len(Tail(packet)) \in Nat
    <3>2. 1 \in Nat /\ sent <= e BY <1>1
    <3>1. packet \in Seq(Int) /\ Len(packet) = e - sent BY <1>1, <1>2, <3>2, LeftIs
    <3>3. PICK p \in sent .. e :
            Rest(packet, 1) = Left(p, e) /\ p = IF 1 <= e - sent THEN sent + 1 ELSE e
      BY <1>1, <1>2, <3>2, RestIs
    <3>4. p = sent + 1 BY <1>1, <3>3
    <3>5. Tail(packet) = Rest(packet, 1) BY <1>1, <3>1 DEF Rest
    <3>6. Tail(packet) \in Seq(Int) BY <1>1, <3>1
    <3> QED BY <3>3, <3>4, <3>5, <3>6
  <2>4. sent + 1 \in Nat /\ sent + 1 <= e BY <1>1
  <2>5. PICK q \in sent + 1 .. e : s = Left(q, e)
    <3> DEFINE k == sent + 1
               tail == Tail(packet)
               m == c.taken
    <3>1. k \in Nat /\ e \in Nat /\ k <= e /\ e <= Len(HttpAnswer) /\ tail = Left(k, e) /\ m \in Nat
      BY <1>1, <2>1, <2>3, <2>4
    <3> HIDE DEF k, tail, m
    <3>2. \E q \in k .. e : Rest(tail, m) = Left(q, e) /\ q = IF m <= e - k THEN k + m ELSE e
      BY <3>1, RestIs
    <3> QED BY <3>2 DEF k, tail, m
  <2>6. remaining \in Nat
    <3>1. WRAP \in Nat \ {0} BY ChunkedAssumption
    <3> QED BY <2>1, <2>3, <3>1
  <2>7. q \in Nat /\ q <= e BY <2>4
  <2> HIDE DEF s, remaining
  <2> DEFINE p == IF remaining <= e - q THEN q + remaining ELSE e
             t == ReadBytes(s, remaining)
  <2>8. p \in Nat /\ q <= p /\ p <= e BY <1>1, <2>6, <2>7
  <2>9. Taken(t, q, p) BY <1>1, <2>5, <2>6, <2>7, ReadTaken
  <2>10. Tight(<<>>, q) BY <2>7, NothingTight
  <2> DEFINE u == <<>> \o t
  <2> HIDE DEF p, t
  <2>11. u = <<>> \o t OBVIOUS
  <2> HIDE DEF u
  <2>12. Tight(u, p) BY <2>7, <2>8, <2>9, <2>10, <2>11, TakenTight
  <2>13. Tight(u, e) BY <1>1, <2>8, <2>12, TightLater
  <2>14. captured' = u BY <2>2, <2>11 DEF t
  <2> QED BY <1>1, <2>13, <2>14 DEF ChunkInv, Tight, Ascending
<1>5. CASE get_data(packet)
  <2> DEFINE end == Passes(packet)[Len(packet)]
             s == captured \o end.buffer
  <2>1. captured' = s BY <1>5 DEF get_data, Written
  <2>2. Loop(end, e)
    <3>1. Tight(captured, sent) /\ sent <= e BY <1>1 DEF ChunkInv
    <3> QED BY <1>1, <1>2, <3>1, LoopKeeps
  <2> HIDE DEF end
  <2>3. PICK q \in 0 .. e : Tight(s, q) BY <2>2 DEF Loop
  <2>4. q \in Nat /\ q <= e BY <1>1
  <2> HIDE DEF s
  <2>5. Tight(s, e) BY <1>1, <2>3, <2>4, TightLater
  <2> QED BY <1>1, <2>1, <2>5 DEF ChunkInv, Tight, Ascending
<1> QED BY <1>3, <1>4, <1>5

(* However an answer in chunks is cut and its sizes are misread by         *)
(* get_data(): no byte of the body is captured twice or out of order.      *)
THEOREM ChunksInOrder == ChunkSpec => []InOrder
<1>1. ChunkInit => ChunkInv
  <2> SUFFICES ASSUME ChunkInit PROVE ChunkInv OBVIOUS
  <2>1. sent = 0 /\ captured = <<>> BY DEF ChunkInit
  <2>2. Tight(<<>>, 0) BY NothingTight
  <2> QED BY <2>1, <2>2, HttpAnswerOrdered DEF ChunkInv
<1>2. ChunkInv /\ [ChunkNext]_chunkedVars => ChunkInv'
  <2> SUFFICES ASSUME ChunkInv, [ChunkNext]_chunkedVars PROVE ChunkInv' OBVIOUS
  <2>1. CASE UNCHANGED chunkedVars BY <2>1 DEF ChunkInv, chunkedVars, Tight, Ascending
  <2>2. CASE ChunkNext BY <2>2, SegmentKeeps DEF ChunkNext
  <2> QED BY <2>1, <2>2
<1>3. ChunkInv => InOrder BY DEF ChunkInv, Tight, Ascending, InOrder
<1> QED BY <1>1, <1>2, <1>3, PTL DEF ChunkSpec

-----------------------------------------------------------------------------
(* Names in the lines of a request or a response.                          *)

(* What stands before the first stop.                                      *)
LEMMA SelectFirst ==
  ASSUME NEW s, NEW stop, Len(s) \in Nat, NEW k \in 1 .. Len(s), s[k] \in stop,
         \A i \in 1 .. k - 1 : s[i] \notin stop
  PROVE  SelectInSeq(s, LAMBDA x : x \in stop) = k
<1> DEFINE I == {i \in 1 .. Len(s) : s[i] \in stop}
<1>1. SelectInSeq(s, LAMBDA x : x \in stop) = IF I # {} THEN Min(I) ELSE 0 BY DEF SelectInSeq
<1>2. k \in I OBVIOUS
<1>3. \A i \in I : k <= i OBVIOUS
<1>4. I \in SUBSET Nat OBVIOUS
<1> HIDE DEF I
<1>5. \A x \in I : (\A y \in I : x <= y) => x = k BY <1>2, <1>3, <1>4
<1>6. Min(I) = CHOOSE x \in I : \A y \in I : x <= y BY DEF Min
<1>7. \E x \in I : \A y \in I : x <= y BY <1>2, <1>3
<1>8. Min(I) = k BY <1>5, <1>6, <1>7
<1> QED BY <1>1, <1>2, <1>8

LEMMA UptoIs ==
  ASSUME NEW s, NEW stop, Len(s) \in Nat, NEW k \in 1 .. Len(s), s[k] \in stop,
         \A i \in 1 .. k - 1 : s[i] \notin stop
  PROVE  Upto(s, stop) = SubSeq(s, 1, k - 1)
<1>1. SelectInSeq(s, LAMBDA x : x \in stop) = k BY SelectFirst
<1>2. k # 0 OBVIOUS
<1> QED BY <1>1, <1>2 DEF Upto

(* A text has a name of base b and extension e in it, behind o characters. *)
Spelled(t, o, b, e) ==
  /\ t \in Seq(Characters) /\ o + Len(b) + Len(e) + 2 <= Len(t)
  /\ \A i \in 1 .. Len(b) : t[o + i] = b[i]
  /\ t[o + Len(b) + 1] = DOT
  /\ \A i \in 1 .. Len(e) : t[o + Len(b) + 1 + i] = e[i]
  /\ t[o + Len(b) + Len(e) + 2] \in {QUOTE, END}

EndOf(o, b, e) == o + Len(b) + Len(e) + 2
SpelledFirst(t, b, e) == Spelled(t, 0, b, e)

LEMMA LetterChars ==
  ASSUME NEW s \in Seq(Letters)
  PROVE  /\ s \in Seq(Characters) /\ Len(s) \in Nat
         /\ \A i \in 1 .. Len(s) : s[i] # DOT /\ s[i] # QUOTE /\ s[i] # SLASH /\ s[i] # END
<1>1. Len(s) \in Nat OBVIOUS
<1>2. \A i \in 1 .. Len(s) : s[i] \in Letters OBVIOUS
<1>3. s \in Seq(Characters)
  <2>1. \A i \in 1 .. Len(s) : s[i] \in Characters BY <1>2 DEF Characters
  <2>2. s = [i \in 1 .. Len(s) |-> s[i]] OBVIOUS
  <2> QED BY <1>1, <2>1, <2>2
<1> QED BY <1>1, <1>2, <1>3, LineParserAssumption

LEMMA FourChars ==
  /\ DOT \in Characters /\ QUOTE \in Characters /\ SLASH \in Characters /\ END \in Characters
  /\ DOT # QUOTE /\ DOT # SLASH /\ DOT # END /\ QUOTE # SLASH /\ QUOTE # END /\ SLASH # END
<1>1. DOT \in Characters /\ QUOTE \in Characters /\ SLASH \in Characters /\ END \in Characters
  BY DEF Characters
<1>2. DOT # QUOTE /\ DOT # SLASH /\ DOT # END BY DEF DOT, QUOTE, SLASH, END
<1>3. QUOTE # SLASH /\ QUOTE # END /\ SLASH # END BY DEF QUOTE, SLASH, END
<1> QED BY <1>1, <1>2, <1>3

(* The characters from a place on, and the first of them before a stop.    *)
LEMMA FromIs ==
  ASSUME NEW t \in Seq(Characters), NEW p \in 1 .. Len(t), NEW u, u = From(t, p)
  PROVE  /\ u \in Seq(Characters) /\ Len(u) = Len(t) - p + 1
         /\ \A i \in 1 .. Len(u) : u[i] = t[p - 1 + i]
<1>1. Len(t) \in Nat /\ p \in Nat /\ u = SubSeq(t, p, Len(t)) BY DEF From
<1>2. u \in Seq(Characters) BY <1>1
<1>3. Len(u) = Len(t) - p + 1 BY <1>1
<1>4. \A i \in 1 .. Len(u) : u[i] = t[p - 1 + i] BY <1>1, <1>3
<1> QED BY <1>2, <1>3, <1>4

LEMMA PartIs ==
  ASSUME NEW s \in Seq(Characters), NEW k \in Nat, k <= Len(s), NEW u, u = SubSeq(s, k + 1, Len(s))
  PROVE  /\ u \in Seq(Characters) /\ Len(u) = Len(s) - k
         /\ \A i \in 1 .. Len(s) - k : u[i] = s[k + i]
<1>1. Len(s) \in Nat OBVIOUS
<1>2. u \in Seq(Characters) BY <1>1
<1>3. Len(u) = Len(s) - k BY <1>1
<1>4. \A i \in 1 .. Len(s) - k : u[i] = s[k + i] BY <1>1
<1> QED BY <1>2, <1>3, <1>4

LEMMA TextBefore ==
  ASSUME NEW u \in Seq(Characters), NEW s \in Seq(Characters), NEW stop, Len(s) < Len(u),
         \A i \in 1 .. Len(s) : u[i] = s[i] /\ s[i] \notin stop, u[Len(s) + 1] \in stop
  PROVE  Upto(u, stop) = s
<1> DEFINE k == Len(s) + 1
<1>1. Len(s) \in Nat /\ Len(u) \in Nat OBVIOUS
<1>2. k \in 1 .. Len(u) /\ u[k] \in stop /\ \A i \in 1 .. k - 1 : u[i] \notin stop BY <1>1
<1>3. Upto(u, stop) = SubSeq(u, 1, k - 1) BY <1>1, <1>2, UptoIs
<1> DEFINE v == SubSeq(u, 1, Len(s))
<1>4. v \in Seq(Characters) BY <1>1
<1>5. Len(v) = Len(s) BY <1>1
<1>6. \A i \in 1 .. Len(s) : v[i] = s[i] BY <1>1
<1> HIDE DEF v
<1>7. v = s BY <1>4, <1>5, <1>6
<1> QED BY <1>1, <1>3, <1>7 DEF v

LEMMA TakeIs ==
  ASSUME NEW s \in Seq(Characters), NEW n \in Nat, NEW u, u = Take(s, n)
  PROVE  /\ u \in Seq(Characters) /\ Len(u) = IF Len(s) < n THEN Len(s) ELSE n
         /\ \A i \in 1 .. Len(u) : u[i] = s[i]
         /\ Len(s) <= n => u = s
<1> DEFINE m == IF Len(s) < n THEN Len(s) ELSE n
<1>1. m \in Nat /\ m <= Len(s) /\ Len(s) \in Nat /\ u = SubSeq(s, 1, m) BY DEF Take
<1>5. Len(s) <= n => m = Len(s) OBVIOUS
<1> HIDE DEF m
<1>2. u \in Seq(Characters) BY <1>1
<1>3. Len(u) = m BY <1>1
<1>4. \A i \in 1 .. m : u[i] = s[i] BY <1>1
<1>6. ASSUME Len(s) <= n PROVE u = s BY <1>1, <1>2, <1>3, <1>4, <1>5, <1>6
<1> QED BY <1>2, <1>3, <1>4, <1>6 DEF m

LEMMA DispositionOf ==
  ASSUME NEW b \in Seq(Letters), NEW e \in Seq(Letters), NEW t, SpelledFirst(t, b, e)
  PROVE  DispositionName(t) = Take(b, 8) \o <<DOT>> \o Take(e, 3)
<1> DEFINE n == Len(b)
           m == Len(e)
           base == Take(b, 8)
           p == DotOrEnd(t, base)
<1>1. /\ n \in Nat /\ m \in Nat /\ b \in Seq(Characters) /\ e \in Seq(Characters)
      /\ \A i \in 1 .. n : b[i] # DOT /\ b[i] # QUOTE /\ b[i] # SLASH /\ b[i] # END
      /\ \A i \in 1 .. m : e[i] # DOT /\ e[i] # QUOTE /\ e[i] # SLASH /\ e[i] # END
  BY LetterChars
<1>2. /\ t \in Seq(Characters) /\ n + m + 2 <= Len(t) /\ Len(t) \in Nat
      /\ \A i \in 1 .. n : t[i] = b[i]
      /\ t[n + 1] = DOT
      /\ \A i \in 1 .. m : t[n + 1 + i] = e[i]
      /\ t[n + m + 2] \in {QUOTE, END}
  BY <1>1 DEF Spelled, SpelledFirst
<1>3. Upto(t, {DOT}) = b BY <1>1, <1>2, TextBefore, SMTT(30)
<1>4. Len(base) = (IF n < 8 THEN n ELSE 8) /\ (n <= 8 => base = b)
  <2> DEFINE w == 8
  <2>1. w \in Nat /\ base = Take(b, w) /\ b \in Seq(Characters) BY <1>1
  <2> HIDE DEF base, w
  <2>2. Len(base) = IF Len(b) < w THEN Len(b) ELSE w BY ONLY <2>1, TakeIs
  <2>3. Len(b) <= w => base = b BY ONLY <2>1, TakeIs
  <2> QED BY <2>2, <2>3 DEF w
<1>5. p = n + 1
  <2>1. CASE n <= 8
    <3>1. Len(base) + 1 = n + 1 BY <1>1, <1>4, <2>1
    <3>2. t[n + 1] \in {DOT, END} BY <1>2
    <3> QED BY <3>1, <3>2 DEF DotOrEnd
  <2>2. CASE n > 8
    <3>1. Len(base) + 1 = 9
      <4> HIDE DEF base
      <4>1. ~(n < 8) BY <1>1, <2>2
      <4> QED BY <1>4, <4>1
    <3>2. t[9] = b[9] /\ t[9] \notin {DOT, END} BY <1>1, <1>2, <2>2
    <3>3. p = 10 + Len(Upto(From(t, 10), {DOT})) BY <3>1, <3>2 DEF DotOrEnd
    <3> DEFINE u == From(t, 10)
               w == 9
               s == SubSeq(b, w + 1, Len(b))
    <3>4. u \in Seq(Characters) /\ Len(u) = Len(t) - 9 /\ \A i \in 1 .. Len(u) : u[i] = t[9 + i]
      BY <1>1, <1>2, <2>2, FromIs
    <3>5. s \in Seq(Characters) /\ Len(s) = n - 9 /\ \A i \in 1 .. n - 9 : s[i] = b[9 + i]
      <4>0. w \in Nat OBVIOUS
      <4>1. w <= Len(b) /\ b \in Seq(Characters)
        <5>1. 9 <= Len(b) BY <1>1, <2>2
        <5> QED BY <1>1, <5>1
      <4> HIDE DEF w
      <4>2. s = SubSeq(b, w + 1, Len(b)) OBVIOUS
      <4> HIDE DEF s
      <4>3. s \in Seq(Characters) BY ONLY <4>0, <4>1, <4>2, PartIs
      <4>4. Len(s) = Len(b) - w BY ONLY <4>0, <4>1, <4>2, PartIs
      <4>5. \A i \in 1 .. Len(b) - w : s[i] = b[w + i] BY ONLY <4>0, <4>1, <4>2, PartIs
      <4> QED BY <4>3, <4>4, <4>5 DEF w
    <3> HIDE DEF u, s
    <3>6. \A i \in 1 .. n - 9 : u[i] = s[i] /\ s[i] \notin {DOT}
      <4> TAKE i \in 1 .. n - 9
      <4>1. 9 + i \in 1 .. n /\ i \in 1 .. Len(u) BY <1>1, <1>2, <2>2, <3>4
      <4> QED BY <1>1, <1>2, <3>4, <3>5, <4>1
    <3>7. u[(n - 9) + 1] \in {DOT} /\ n - 9 < Len(u)
      <4>1. (n - 9) + 1 \in 1 .. Len(u) /\ 9 + ((n - 9) + 1) = n + 1 BY <1>1, <1>2, <2>2, <3>4
      <4> QED BY <1>2, <3>4, <4>1
    <3>8. Upto(u, {DOT}) = s
      <4>1. u \in Seq(Characters) /\ s \in Seq(Characters) /\ Len(s) = n - 9 BY <3>4, <3>5
      <4>2. Len(s) < Len(u) BY <3>7, <4>1
      <4>3. \A i \in 1 .. Len(s) : u[i] = s[i] /\ s[i] \notin {DOT} BY <3>6, <4>1
      <4>4. u[Len(s) + 1] \in {DOT} BY <3>7, <4>1
      <4> QED BY ONLY <4>1, <4>2, <4>3, <4>4, TextBefore
    <3> QED BY <1>1, <2>2, <3>3, <3>5, <3>8 DEF u
  <2> QED BY <1>1, <2>1, <2>2
<1> DEFINE v == From(t, n + 2)
<1>6. Upto(v, {QUOTE, END}) = e
  <2>0. n + 2 \in 1 .. Len(t) BY <1>1, <1>2
  <2>1. v \in Seq(Characters) /\ Len(v) = Len(t) - (n + 2) + 1
        /\ \A i \in 1 .. Len(v) : v[i] = t[n + 2 - 1 + i]
    <3> DEFINE k == n + 2
    <3>1. k \in 1 .. Len(t) /\ v = From(t, k) /\ t \in Seq(Characters) BY <1>2, <2>0
    <3> HIDE DEF k, v
    <3>2. v \in Seq(Characters) BY ONLY <3>1, FromIs
    <3>3. Len(v) = Len(t) - k + 1 BY ONLY <3>1, FromIs
    <3>4. \A i \in 1 .. Len(v) : v[i] = t[k - 1 + i] BY ONLY <3>1, FromIs
    <3> QED BY <3>2, <3>3, <3>4 DEF k
  <2> HIDE DEF v
  <2>2. \A i \in 1 .. m : v[i] = e[i] /\ e[i] \notin {QUOTE, END}
    <3> TAKE i \in 1 .. m
    <3>1. i \in 1 .. Len(v) /\ n + 2 - 1 + i = n + 1 + i BY <1>1, <1>2, <2>1
    <3> QED BY <1>1, <1>2, <2>1, <3>1
  <2>3. v[m + 1] \in {QUOTE, END} /\ m < Len(v)
    <3>1. m + 1 \in 1 .. Len(v) /\ n + 2 - 1 + (m + 1) = n + m + 2 BY <1>1, <1>2, <2>1
    <3> QED BY <1>2, <2>1, <3>1
  <2> QED BY <1>1, <2>1, <2>2, <2>3, TextBefore
<1>7. t[p] = DOT /\ p + 1 = n + 2 BY <1>1, <1>2, <1>5
<1> HIDE DEF p, base, v, n
<1>8. DispositionName(t) = base \o <<t[p]>> \o Take(Upto(From(t, p + 1), {QUOTE, END}), 3)
  BY <1>3 DEF DispositionName, p, base
<1> QED BY <1>6, <1>7, <1>8 DEF v, base

LEMMA SlashIs ==
  ASSUME NEW t, Len(t) \in Nat, NEW k \in 1 .. Len(t), t[k] = SLASH,
         \A i \in k + 1 .. Len(t) : t[i] # SLASH
  PROVE  LastSlash(t) = k
<1> DEFINE I == {i \in 1 .. Len(t) : t[i] = SLASH}
<1>1. LastSlash(t) = IF I # {} THEN Max(I) ELSE 0 BY DEF LastSlash, SelectLastInSeq
<1>2. k \in I OBVIOUS
<1>3. \A i \in I : k >= i OBVIOUS
<1>4. I \in SUBSET Nat OBVIOUS
<1> HIDE DEF I
<1>5. \A x \in I : (\A y \in I : x >= y) => x = k BY <1>2, <1>3, <1>4
<1>6. Max(I) = CHOOSE x \in I : \A y \in I : x >= y BY DEF Max
<1>7. \E x \in I : \A y \in I : x >= y BY <1>2, <1>3
<1>8. Max(I) = k BY <1>5, <1>6, <1>7
<1> QED BY <1>1, <1>2, <1>8

LEMMA DotIs ==
  ASSUME NEW t, Len(t) \in Nat, NEW k \in 1 .. Len(t), t[k] = DOT,
         \A i \in 1 .. k - 1 : t[i] # DOT
  PROVE  SelectInSeq(t, LAMBDA x : x = DOT) = k
<1> DEFINE I == {i \in 1 .. Len(t) : t[i] = DOT}
<1>1. SelectInSeq(t, LAMBDA x : x = DOT) = IF I # {} THEN Min(I) ELSE 0 BY DEF SelectInSeq
<1>2. k \in I OBVIOUS
<1>3. \A i \in I : k <= i OBVIOUS
<1>4. I \in SUBSET Nat OBVIOUS
<1> HIDE DEF I
<1>5. \A x \in I : (\A y \in I : x <= y) => x = k BY <1>2, <1>3, <1>4
<1>6. Min(I) = CHOOSE x \in I : \A y \in I : x <= y BY DEF Min
<1>7. \E x \in I : \A y \in I : x <= y BY <1>2, <1>3
<1>8. Min(I) = k BY <1>5, <1>6, <1>7
<1> QED BY <1>1, <1>2, <1>8

LEMMA TakeExtension ==
  ASSUME NEW e \in Seq(Characters), NEW y, y = <<DOT>> \o e
  PROVE  Take(y, 4) = <<DOT>> \o Take(e, 3)
<1> DEFINE a == <<DOT>>
           u == Take(e, 3)
           v == Take(y, 4)
           w == a \o u
<1>1. a \in Seq(Characters) /\ Len(a) = 1 /\ a[1] = DOT BY FourChars
<1>2. y = a \o e OBVIOUS
<1> HIDE DEF a
<1>3. /\ y \in Seq(Characters) /\ Len(a) \in Nat /\ Len(e) \in Nat /\ Len(y) = Len(a) + Len(e)
      /\ \A i \in 1 .. Len(y) :
           \/ i \in 1 .. Len(a) /\ y[i] = a[i]
           \/ i > Len(a) /\ i - Len(a) \in 1 .. Len(e) /\ y[i] = e[i - Len(a)]
  BY <1>1, <1>2, ConcatParts
<1>4. u \in Seq(Characters) /\ Len(u) = (IF Len(e) < 3 THEN Len(e) ELSE 3)
      /\ \A i \in 1 .. Len(u) : u[i] = e[i]
  <2> DEFINE k == 3
  <2>1. k \in Nat /\ u = Take(e, k) OBVIOUS
  <2> HIDE DEF u, k
  <2>2. u \in Seq(Characters) BY ONLY <2>1, TakeIs
  <2>3. Len(u) = IF Len(e) < k THEN Len(e) ELSE k BY ONLY <2>1, TakeIs
  <2>4. \A i \in 1 .. Len(u) : u[i] = e[i] BY ONLY <2>1, TakeIs
  <2> QED BY <2>2, <2>3, <2>4 DEF k
<1>5. v \in Seq(Characters) /\ Len(v) = (IF Len(y) < 4 THEN Len(y) ELSE 4)
      /\ \A i \in 1 .. Len(v) : v[i] = y[i]
  <2> DEFINE k == 4
  <2>1. k \in Nat /\ v = Take(y, k) /\ y \in Seq(Characters) BY <1>3
  <2> HIDE DEF v, k
  <2>2. v \in Seq(Characters) BY ONLY <2>1, TakeIs
  <2>3. Len(v) = IF Len(y) < k THEN Len(y) ELSE k BY ONLY <2>1, TakeIs
  <2>4. \A i \in 1 .. Len(v) : v[i] = y[i] BY ONLY <2>1, TakeIs
  <2> QED BY <2>2, <2>3, <2>4 DEF k
<1> HIDE DEF u, v
<1>10. w = a \o u OBVIOUS
<1> HIDE DEF w
<1>6. /\ w \in Seq(Characters) /\ Len(a) \in Nat /\ Len(u) \in Nat /\ Len(w) = Len(a) + Len(u)
      /\ \A i \in 1 .. Len(w) :
           \/ i \in 1 .. Len(a) /\ w[i] = a[i]
           \/ i > Len(a) /\ i - Len(a) \in 1 .. Len(u) /\ w[i] = u[i - Len(a)]
  <2>1. a \in Seq(Characters) /\ u \in Seq(Characters) BY <1>1, <1>4
  <2> QED BY ONLY <1>10, <2>1, ConcatParts
<1>7. Len(v) = Len(w) BY <1>1, <1>3, <1>4, <1>5, <1>6
<1>8. ASSUME NEW i \in 1 .. Len(w) PROVE v[i] = w[i]
  <2>1. i \in Nat /\ i \in 1 .. Len(v) BY <1>6, <1>7
  <2>4. i \in 1 .. Len(y)
    <3>1. Len(v) <= Len(y) /\ Len(y) \in Nat BY <1>1, <1>3, <1>5
    <3> QED BY <2>1, <3>1
  <2>2. CASE i = 1
    <3>1. y[i] = a[i] BY <1>1, <1>3, <2>2, <2>4
    <3>2. w[i] = a[i] BY <1>1, <1>6, <2>2
    <3> QED BY <1>5, <2>1, <3>1, <3>2
  <2>3. CASE i # 1
    <3>1. i - 1 \in 1 .. Len(u) /\ w[i] = u[i - 1] BY <1>1, <1>6, <2>3
    <3>2. y[i] = e[i - 1] BY <1>1, <1>3, <2>3, <2>4
    <3> QED BY <1>4, <1>5, <2>1, <3>1, <3>2
  <2> QED BY <2>2, <2>3
<1>9. v = w BY <1>5, <1>6, <1>7, <1>8
<1> QED BY <1>9 DEF v, w, u, a

LEMMA FileNameOf ==
  ASSUME NEW b \in Seq(Letters), NEW e \in Seq(Letters), NEW o \in Nat, o > 0,
         NEW t, Spelled(t, o, b, e), Len(t) = o + Len(b) + Len(e) + 2, t[Len(t)] = END,
         t[o] = SLASH, \A i \in 1 .. o : t[i] # DOT
  PROVE  get_file_name(t) = Take(b, 8) \o <<DOT>> \o Take(e, 3)
<1> DEFINE n == Len(b)
           m == Len(e)
<1>1. /\ n \in Nat /\ m \in Nat /\ b \in Seq(Characters) /\ e \in Seq(Characters)
      /\ \A i \in 1 .. n : b[i] # DOT /\ b[i] # QUOTE /\ b[i] # SLASH /\ b[i] # END
      /\ \A i \in 1 .. m : e[i] # DOT /\ e[i] # QUOTE /\ e[i] # SLASH /\ e[i] # END
  BY LetterChars
<1>2. /\ t \in Seq(Characters) /\ Len(t) = o + n + m + 2 /\ Len(t) \in Nat
      /\ \A i \in 1 .. n : t[o + i] = b[i]
      /\ t[o + n + 1] = DOT
      /\ \A i \in 1 .. m : t[o + n + 1 + i] = e[i]
      /\ t[o + n + m + 2] = END
  BY <1>1 DEF Spelled
<1> HIDE DEF n, m
<1>3. ASSUME NEW i \in o + 1 .. Len(t) PROVE t[i] # SLASH
  <2>1. CASE i <= o + n
    <3>1. i - o \in 1 .. n /\ o + (i - o) = i BY <1>1, <2>1
    <3> QED BY <1>1, <1>2, <3>1
  <2>2. CASE i = o + n + 1 BY <1>2, <2>2, FourChars
  <2>3. CASE i > o + n + 1 /\ i <= o + n + 1 + m
    <3> DEFINE j == i - (o + n + 1)
    <3>1. j \in 1 .. m /\ o + n + 1 + j = i BY <1>1, <2>3
    <3> HIDE DEF j
    <3> QED BY <1>1, <1>2, <3>1
  <2>4. CASE i > o + n + 1 + m
    <3>1. i = o + n + m + 2 BY <1>1, <1>2, <2>4
    <3> QED BY <1>2, <3>1, FourChars
  <2>5. i \in Int /\ o \in Nat /\ n \in Nat /\ m \in Nat BY <1>1
  <2>6. i <= o + n \/ i = o + n + 1 \/ (i > o + n + 1 /\ i <= o + n + 1 + m) \/ i > o + n + 1 + m
    BY ONLY <2>5
  <2> QED BY <2>1, <2>2, <2>3, <2>4, <2>6
<1>4. LastSlash(t) = o
  <2>1. o \in 1 .. Len(t) BY <1>1, <1>2
  <2> QED BY <1>2, <1>3, <2>1, SlashIs
<1>5. SelectInSeq(t, LAMBDA x : x = DOT) = o + n + 1
  <2> DEFINE k == o + n + 1
  <2>1. k \in 1 .. Len(t) /\ t[k] = DOT BY <1>1, <1>2
  <2>2. ASSUME NEW i \in 1 .. k - 1 PROVE t[i] # DOT
    <3>1. CASE i <= o BY <3>1
    <3>2. CASE i > o
      <4>1. i - o \in 1 .. n /\ o + (i - o) = i BY <1>1, <3>2
      <4> QED BY <1>1, <1>2, <4>1
    <3> QED BY <3>1, <3>2
  <2> HIDE DEF k
  <2>3. SelectInSeq(t, LAMBDA x : x = DOT) = k BY <1>2, <2>1, <2>2, DotIs
  <2> QED BY <2>3 DEF k
<1>6. Upto(From(t, o + 1), {DOT, END}) = b
  <2> DEFINE k == o + 1
             u == From(t, k)
  <2>1. k \in 1 .. Len(t) /\ u = From(t, k) /\ t \in Seq(Characters) BY <1>1, <1>2
  <2> HIDE DEF k, u
  <2>2. u \in Seq(Characters) BY ONLY <2>1, FromIs
  <2>3. Len(u) = Len(t) - k + 1 BY ONLY <2>1, FromIs
  <2>4. \A i \in 1 .. Len(u) : u[i] = t[k - 1 + i] BY ONLY <2>1, FromIs
  <2>5. Len(u) = n + m + 2 BY <1>1, <1>2, <2>3 DEF k
  <2>6. \A i \in 1 .. n + 1 : u[i] = t[o + i]
    <3> TAKE i \in 1 .. n + 1
    <3>1. i \in 1 .. Len(u) /\ k - 1 + i = o + i BY <1>1, <2>5 DEF k
    <3> QED BY <2>4, <3>1
  <2>7. \A i \in 1 .. n : u[i] = b[i] /\ b[i] \notin {DOT, END}
    <3> TAKE i \in 1 .. n
    <3>1. i \in 1 .. n + 1 BY <1>1
    <3> QED BY <1>1, <1>2, <2>6, <3>1
  <2>8. u[n + 1] \in {DOT, END} /\ n < Len(u)
    <3>1. n + 1 \in 1 .. n + 1 /\ o + (n + 1) = o + n + 1 BY <1>1
    <3> QED BY <1>1, <1>2, <2>5, <2>6, <3>1
  <2>9. n = Len(b) BY DEF n
  <2>10. Upto(u, {DOT, END}) = b BY <1>1, <2>2, <2>7, <2>8, <2>9, TextBefore
  <2> QED BY <2>10 DEF u, k
<1> DEFINE y == <<DOT>> \o e
<1>7. Upto(From(t, o + n + 1), {END}) = y
  <2> DEFINE k == o + n + 1
             u == From(t, k)
             a == <<DOT>>
  <2>1. k \in 1 .. Len(t) /\ u = From(t, k) /\ t \in Seq(Characters) BY <1>1, <1>2
  <2>2. a \in Seq(Characters) /\ Len(a) = 1 /\ a[1] = DOT BY FourChars
  <2>3. y = a \o e OBVIOUS
  <2> HIDE DEF k, u, a, y
  <2>4. u \in Seq(Characters) BY ONLY <2>1, FromIs
  <2>5. Len(u) = Len(t) - k + 1 BY ONLY <2>1, FromIs
  <2>6. \A i \in 1 .. Len(u) : u[i] = t[k - 1 + i] BY ONLY <2>1, FromIs, SMTT(30)
  <2>14. n \in Nat /\ m \in Nat /\ Len(t) = o + n + m + 2 BY <1>1, <1>2
  <2>7. Len(u) = m + 2 BY ONLY <2>5, <2>14, o \in Nat DEF k
  <2>8. \A i \in 1 .. m + 2 : u[i] = t[o + n + i]
    <3> TAKE i \in 1 .. m + 2
    <3>1. i \in 1 .. Len(u) /\ k - 1 + i = o + n + i BY <1>1, <2>7 DEF k
    <3> QED BY <2>6, <3>1
  <2>9. /\ y \in Seq(Characters) /\ Len(a) \in Nat /\ Len(e) \in Nat /\ Len(y) = Len(a) + Len(e)
        /\ \A i \in 1 .. Len(y) :
             \/ i \in 1 .. Len(a) /\ y[i] = a[i]
             \/ i > Len(a) /\ i - Len(a) \in 1 .. Len(e) /\ y[i] = e[i - Len(a)]
    <3>1. a \in Seq(Characters) /\ e \in Seq(Characters) BY <1>1, <2>2
    <3> QED BY ONLY <2>3, <3>1, ConcatParts
  <2>10. Len(y) = m + 1 BY <1>1, <2>2, <2>9 DEF m
  <2>11. ASSUME NEW i \in 1 .. Len(y) PROVE u[i] = y[i] /\ y[i] \notin {END}
    <3>1. i \in 1 .. m + 2 /\ u[i] = t[o + n + i] BY <1>1, <2>8, <2>10
    <3>2. CASE i = 1 BY <1>2, <2>2, <2>9, <3>1, <3>2, FourChars
    <3>3. CASE i # 1
      <4>0. i \in Nat /\ i > 1 /\ i - 1 \in 1 .. m BY <1>1, <2>10, <3>3
      <4>3. y[i] = e[i - 1] BY <2>2, <2>9, <4>0
      <4>1. i - 1 \in 1 .. m /\ y[i] = e[i - 1] /\ o + n + 1 + (i - 1) = o + n + i
        BY <1>1, <4>0, <4>3
      <4>2. t[o + n + 1 + (i - 1)] = e[i - 1] /\ e[i - 1] # END BY <1>1, <1>2, <4>1
      <4> QED BY <3>1, <4>1, <4>2
    <3> QED BY <3>2, <3>3
  <2>12. u[Len(y) + 1] \in {END} /\ Len(y) < Len(u)
    <3>1. m + 2 \in 1 .. m + 2 /\ o + n + (m + 2) = o + n + m + 2 /\ Len(y) + 1 = m + 2
      <4>1. m \in Nat /\ n \in Nat BY <1>1
      <4> QED BY ONLY <2>10, <4>1, o \in Nat
    <3> QED BY <1>1, <1>2, <2>7, <2>8, <2>10, <3>1
  <2>13. Upto(u, {END}) = y BY <2>4, <2>9, <2>11, <2>12, TextBefore
  <2> QED BY <2>13 DEF u, k
<1>8. Take(y, 4) = <<DOT>> \o Take(e, 3) BY <1>1, TakeExtension
<1> HIDE DEF y
<1>9. get_file_name(t) = Take(b, 8) \o Take(y, 4)
  BY <1>4, <1>5, <1>6, <1>7 DEF get_file_name
<1>10. /\ Take(b, 8) \in Seq(Characters) /\ Take(e, 3) \in Seq(Characters)
       /\ <<DOT>> \in Seq(Characters)
  BY <1>1, TakeIs, FourChars
<1> DEFINE f == Take(b, 8)
           g == Take(e, 3)
           a == <<DOT>>
<1> HIDE DEF f, g, a
<1>11. f \in Seq(Characters) /\ g \in Seq(Characters) /\ a \in Seq(Characters) BY <1>10 DEF f, g, a
<1>12. (f \o a) \o g = f \o (a \o g) BY <1>11, ConcatAssociative, SMTT(30)
<1> QED BY <1>8, <1>9, <1>12 DEF f, g, a

LEMMA NameIs ==
  ASSUME NEW b \in Seq(Letters), NEW e \in Seq(Letters), NEW t, t = Name(b, e)
  PROVE  /\ t \in Seq(Characters) /\ Len(t) = Len(b) + Len(e) + 1
         /\ \A i \in 1 .. Len(b) : t[i] = b[i]
         /\ t[Len(b) + 1] = DOT
         /\ \A i \in 1 .. Len(e) : t[Len(b) + 1 + i] = e[i]
<1> DEFINE a == <<DOT>>
           q == b \o a
<1>1. b \in Seq(Characters) /\ e \in Seq(Characters) /\ Len(b) \in Nat /\ Len(e) \in Nat
  BY LetterChars
<1>2. a \in Seq(Characters) /\ Len(a) = 1 /\ a[1] = DOT BY FourChars
<1>3. q = b \o a OBVIOUS
<1>4. t = q \o e BY DEF Name
<1> HIDE DEF a, q
<1>5. /\ q \in Seq(Characters) /\ Len(b) \in Nat /\ Len(a) \in Nat /\ Len(q) = Len(b) + Len(a)
      /\ \A i \in 1 .. Len(q) :
           \/ i \in 1 .. Len(b) /\ q[i] = b[i]
           \/ i > Len(b) /\ i - Len(b) \in 1 .. Len(a) /\ q[i] = a[i - Len(b)]
  <2>1. b \in Seq(Characters) /\ a \in Seq(Characters) BY <1>1, <1>2
  <2> QED BY ONLY <1>3, <2>1, ConcatParts
<1>6. /\ t \in Seq(Characters) /\ Len(q) \in Nat /\ Len(e) \in Nat /\ Len(t) = Len(q) + Len(e)
      /\ \A i \in 1 .. Len(t) :
           \/ i \in 1 .. Len(q) /\ t[i] = q[i]
           \/ i > Len(q) /\ i - Len(q) \in 1 .. Len(e) /\ t[i] = e[i - Len(q)]
  <2>1. q \in Seq(Characters) /\ e \in Seq(Characters) BY <1>1, <1>5
  <2> QED BY ONLY <1>4, <2>1, ConcatParts
<1>7. Len(q) = Len(b) + 1 /\ Len(t) = Len(b) + Len(e) + 1 BY <1>1, <1>2, <1>5, <1>6
<1>8. ASSUME NEW i \in 1 .. Len(b) PROVE t[i] = b[i]
  <2>1. i \in 1 .. Len(q) /\ i \in 1 .. Len(t) BY <1>1, <1>7
  <2> QED BY <1>1, <1>2, <1>5, <1>6, <2>1
<1>9. t[Len(b) + 1] = DOT
  <2>1. Len(b) + 1 \in 1 .. Len(q) /\ Len(b) + 1 \in 1 .. Len(t) /\ Len(b) + 1 - Len(b) = 1
    BY <1>1, <1>7
  <2> QED BY <1>1, <1>2, <1>5, <1>6, <2>1
<1>10. ASSUME NEW i \in 1 .. Len(e) PROVE t[Len(b) + 1 + i] = e[i]
  <2> DEFINE k == Len(b) + 1 + i
  <2>1. k \in 1 .. Len(t) /\ ~(k \in 1 .. Len(q)) /\ k - Len(q) = i BY <1>1, <1>7
  <2> HIDE DEF k
  <2>2. t[k] = e[i] BY <1>6, <2>1
  <2> QED BY <2>2 DEF k
<1> QED BY <1>6, <1>7, <1>8, <1>9, <1>10

LEMMA SpelledText ==
  ASSUME NEW d \in Seq(Characters), NEW b \in Seq(Letters), NEW e \in Seq(Letters),
         NEW c \in {QUOTE, END}, NEW x, x = d \o Name(b, e), NEW t, t = x \o <<c>>
  PROVE  /\ Spelled(t, Len(d), b, e) /\ Len(t) = EndOf(Len(d), b, e)
         /\ t[Len(t)] = c /\ \A i \in 1 .. Len(d) : t[i] = d[i]
<1> DEFINE a == <<c>>
           s == Name(b, e)
<1>1. Len(d) \in Nat /\ Len(b) \in Nat /\ Len(e) \in Nat BY LetterChars
<1>2. a \in Seq(Characters) /\ Len(a) = 1 /\ a[1] = c BY FourChars
<1>3. x = d \o s /\ t = x \o a OBVIOUS
<1>11. s = Name(b, e) OBVIOUS
<1> HIDE DEF a, s
<1>4. /\ s \in Seq(Characters) /\ Len(s) = Len(b) + Len(e) + 1
      /\ \A i \in 1 .. Len(b) : s[i] = b[i]
      /\ s[Len(b) + 1] = DOT
      /\ \A i \in 1 .. Len(e) : s[Len(b) + 1 + i] = e[i]
  BY <1>11, NameIs, SMTT(30)
<1>5. /\ x \in Seq(Characters) /\ Len(d) \in Nat /\ Len(s) \in Nat /\ Len(x) = Len(d) + Len(s)
      /\ \A i \in 1 .. Len(x) :
           \/ i \in 1 .. Len(d) /\ x[i] = d[i]
           \/ i > Len(d) /\ i - Len(d) \in 1 .. Len(s) /\ x[i] = s[i - Len(d)]
  <2>1. d \in Seq(Characters) /\ s \in Seq(Characters) BY <1>4
  <2> QED BY ONLY <1>3, <2>1, ConcatParts
<1>6. /\ t \in Seq(Characters) /\ Len(x) \in Nat /\ Len(a) \in Nat /\ Len(t) = Len(x) + Len(a)
      /\ \A i \in 1 .. Len(t) :
           \/ i \in 1 .. Len(x) /\ t[i] = x[i]
           \/ i > Len(x) /\ i - Len(x) \in 1 .. Len(a) /\ t[i] = a[i - Len(x)]
  <2>1. x \in Seq(Characters) /\ a \in Seq(Characters) BY <1>2, <1>5
  <2> QED BY ONLY <1>3, <2>1, ConcatParts
<1>7. Len(x) = Len(d) + Len(b) + Len(e) + 1 /\ Len(t) = Len(d) + Len(b) + Len(e) + 2
  BY <1>1, <1>2, <1>4, <1>5, <1>6
<1>8. \A i \in 1 .. Len(d) : t[i] = d[i]
  <2> TAKE i \in 1 .. Len(d)
  <2>1. i \in 1 .. Len(x) /\ i \in 1 .. Len(t) BY <1>1, <1>7
  <2>2. x[i] = d[i] BY <1>1, <1>5, <2>1
  <2>3. t[i] = x[i] BY <1>1, <1>6, <1>7, <2>1
  <2> QED BY <2>2, <2>3
<1>9. ASSUME NEW i \in 1 .. Len(s) PROVE t[Len(d) + i] = s[i]
  <2> DEFINE k == Len(d) + i
  <2>1. k \in 1 .. Len(x) /\ k \in 1 .. Len(t) /\ ~(k \in 1 .. Len(d)) /\ k - Len(d) = i
        /\ ~(k > Len(x))
    BY <1>1, <1>4, <1>7
  <2> HIDE DEF k
  <2>2. x[k] = s[i] BY <1>5, <2>1
  <2>3. t[k] = x[k] BY <1>6, <2>1
  <2> QED BY <2>2, <2>3 DEF k
<1>10. t[Len(t)] = c
  <2> DEFINE k == Len(t)
  <2>1. k \in 1 .. Len(t) /\ ~(k \in 1 .. Len(x)) /\ k - Len(x) = 1 BY <1>1, <1>7
  <2> HIDE DEF k
  <2>2. t[k] = a[1] BY <1>6, <2>1
  <2> QED BY <1>2, <2>2 DEF k
<1>12. Spelled(t, Len(d), b, e)
  <2>1. ASSUME NEW i \in 1 .. Len(b) PROVE t[Len(d) + i] = b[i]
    <3>1. i \in 1 .. Len(s) BY <1>1, <1>4
    <3> QED BY <1>4, <1>9, <3>1
  <2>2. t[Len(d) + Len(b) + 1] = DOT
    <3>1. Len(b) + 1 \in 1 .. Len(s) /\ Len(d) + (Len(b) + 1) = Len(d) + Len(b) + 1 BY <1>1, <1>4
    <3> QED BY <1>4, <1>9, <3>1
  <2>3. ASSUME NEW i \in 1 .. Len(e) PROVE t[Len(d) + Len(b) + 1 + i] = e[i]
    <3>1. Len(b) + 1 + i \in 1 .. Len(s)
          /\ Len(d) + (Len(b) + 1 + i) = Len(d) + Len(b) + 1 + i
      BY <1>1, <1>4
    <3> QED BY <1>4, <1>9, <3>1
  <2>4. t[Len(d) + Len(b) + Len(e) + 2] \in {QUOTE, END} BY <1>7, <1>10
  <2>5. Len(d) + Len(b) + Len(e) + 2 <= Len(t) BY <1>1, <1>7
  <2> QED BY <1>6, <2>1, <2>2, <2>3, <2>4, <2>5 DEF Spelled
<1> QED BY <1>7, <1>8, <1>10, <1>12 DEF EndOf

LEMMA SpelledBefore ==
  ASSUME NEW o \in Nat, NEW b \in Seq(Letters), NEW e \in Seq(Letters), NEW s, Spelled(s, o, b, e),
         NEW w \in Seq(Characters), NEW t, t = s \o w
  PROVE  Spelled(t, o, b, e)
<1>1. s \in Seq(Characters) /\ w \in Seq(Characters) BY DEF Spelled
<1>2. Len(b) \in Nat /\ Len(e) \in Nat BY LetterChars
<1>3. /\ t \in Seq(Characters) /\ Len(s) \in Nat /\ Len(w) \in Nat /\ Len(t) = Len(s) + Len(w)
      /\ \A i \in 1 .. Len(t) :
           \/ i \in 1 .. Len(s) /\ t[i] = s[i]
           \/ i > Len(s) /\ i - Len(s) \in 1 .. Len(w) /\ t[i] = w[i - Len(s)]
  BY ONLY <1>1, t = s \o w, ConcatParts
<1>4. \A i \in 1 .. Len(s) : t[i] = s[i]
  <2> TAKE i \in 1 .. Len(s)
  <2>1. i \in 1 .. Len(t) /\ ~(i > Len(s)) BY <1>3
  <2> QED BY <1>3, <2>1
<1>5. o + Len(b) + Len(e) + 2 <= Len(s) BY DEF Spelled
<1>6. ASSUME NEW i \in 1 .. Len(b) PROVE t[o + i] = b[i]
  <2>1. o + i \in 1 .. Len(s) BY <1>2, <1>3, <1>5
  <2> QED BY <1>4, <2>1 DEF Spelled
<1>7. t[o + Len(b) + 1] = DOT
  <2>1. o + Len(b) + 1 \in 1 .. Len(s) BY <1>2, <1>3, <1>5
  <2> QED BY <1>4, <2>1 DEF Spelled
<1>8. ASSUME NEW i \in 1 .. Len(e) PROVE t[o + Len(b) + 1 + i] = e[i]
  <2>1. o + Len(b) + 1 + i \in 1 .. Len(s) BY <1>2, <1>3, <1>5
  <2> QED BY <1>4, <2>1 DEF Spelled
<1>9. t[o + Len(b) + Len(e) + 2] \in {QUOTE, END}
  <2>1. o + Len(b) + Len(e) + 2 \in 1 .. Len(s) BY <1>2, <1>3, <1>5
  <2> QED BY <1>4, <2>1 DEF Spelled
<1>10. o + Len(b) + Len(e) + 2 <= Len(t) BY <1>2, <1>3, <1>5
<1> QED BY <1>3, <1>6, <1>7, <1>8, <1>9, <1>10 DEF Spelled

(* What is in the line buffer after a Content-Disposition line.            *)
LEMMA DispositionSpelled ==
  ASSUME NEW b \in Seq(Letters), NEW e \in Seq(Letters), NEW q \in {<<QUOTE>>, <<>>},
         NEW t, t = Name(b, e) \o q \o <<END>> \o Stale
  PROVE  SpelledFirst(t, b, e)
<1> DEFINE none == <<>>
           o == 0
           x == Name(b, e)
           z == <<END>>
<1>1. none \in Seq(Characters) /\ Len(none) = o /\ o \in Nat OBVIOUS
<1>2. z \in Seq(Characters) /\ Stale \in Seq(Characters) BY FourChars, LineParserAssumption
<1>3. x \in Seq(Characters) BY NameIs
<1>4. x = none \o x /\ x = x \o none BY <1>3
<1>5. t = ((x \o q) \o z) \o Stale OBVIOUS
<1>6. z = <<END>> /\ x = Name(b, e) /\ none = <<>> OBVIOUS
<1> HIDE DEF none, o, x, z
<1>7. ASSUME NEW c \in {QUOTE, END}, NEW s, s = x \o <<c>> PROVE Spelled(s, o, b, e)
  <2>1. x = none \o Name(b, e) BY <1>4, <1>6
  <2>2. Spelled(s, Len(none), b, e) BY ONLY <1>1, <1>7, <2>1, SpelledText
  <2> QED BY <1>1, <2>2
<1>8. ASSUME NEW s, Spelled(s, o, b, e), NEW w \in Seq(Characters) PROVE Spelled(s \o w, o, b, e)
  <2> DEFINE u == s \o w
  <2>1. u = s \o w OBVIOUS
  <2> HIDE DEF u
  <2>2. Spelled(u, o, b, e) BY ONLY <1>1, <1>8, <2>1, SpelledBefore
  <2> QED BY <2>2 DEF u
<1>9. Spelled((x \o q) \o z, o, b, e)
  <2>1. CASE q = <<QUOTE>>
    <3>1. Spelled(x \o q, o, b, e) BY <1>7, <2>1
    <3> QED BY <1>2, <1>8, <3>1
  <2>2. CASE q = <<>>
    <3>1. x \o q = x BY <1>4, <1>6, <2>2
    <3>2. Spelled(x \o z, o, b, e) BY <1>6, <1>7
    <3> QED BY <3>1, <3>2
  <2> QED BY <2>1, <2>2
<1>10. Spelled(t, o, b, e) BY <1>2, <1>5, <1>8, <1>9
<1> QED BY <1>10 DEF o, SpelledFirst

LEMMA DispositionNamed ==
  ASSUME NEW b \in Seq(Letters), NEW e \in Seq(Letters), NEW q \in {<<QUOTE>>, <<>>},
         NEW t, t = Name(b, e) \o q \o <<END>> \o Stale
  PROVE  DispositionName(t) = Take(b, 8) \o <<DOT>> \o Take(e, 3)
<1>1. SpelledFirst(t, b, e) BY DispositionSpelled
<1> QED BY <1>1, DispositionOf

(* A request names no directory with a dot in it.  With one, the extension *)
(* that get_file_name() takes begins at that dot, and NameCut is false.    *)
NoDotAbove == \A d \in Dirs : \A i \in 1 .. Len(d) : d[i] # DOT

LEMMA RequestName ==
  ASSUME NoDotAbove, NEW d \in Dirs, NEW b \in Seq(Letters), NEW e \in Seq(Letters),
         NEW t, t = d \o Name(b, e) \o <<END>>
  PROVE  get_file_name(t) = Take(b, 8) \o <<DOT>> \o Take(e, 3)
<1> DEFINE o == Len(d)
           x == d \o Name(b, e)
           c == END
<1>1. d \in Seq(Characters) /\ o > 0 /\ o \in Nat /\ d[o] = SLASH
  BY LineParserAssumption DEF Last
<1>2. x = d \o Name(b, e) /\ t = x \o <<c>> /\ c \in {QUOTE, END} OBVIOUS
<1>6. b \in Seq(Letters) /\ e \in Seq(Letters) OBVIOUS
<1> HIDE DEF x, c
<1>7. d \in Seq(Characters) BY <1>1
<1>3. /\ Spelled(t, Len(d), b, e) /\ Len(t) = EndOf(Len(d), b, e)
      /\ t[Len(t)] = c /\ \A i \in 1 .. Len(d) : t[i] = d[i]
  <2>1. Spelled(t, Len(d), b, e) BY ONLY <1>2, <1>6, <1>7, SpelledText
  <2>2. Len(t) = EndOf(Len(d), b, e)
    <3> DEFINE s == Name(b, e)
               z == <<c>>
    <3>1. s \in Seq(Characters) /\ Len(s) = Len(b) + Len(e) + 1 BY <1>6, NameIs
    <3>2. z \in Seq(Characters) /\ Len(z) = 1 BY FourChars DEF c
    <3>3. x = d \o s /\ t = x \o z BY <1>2
    <3> HIDE DEF s, z, o
    <3>4. x \in Seq(Characters) /\ Len(x) = Len(d) + Len(s)
      BY ONLY <1>7, <3>1, <3>3, ConcatProperties
    <3>5. Len(t) = Len(x) + Len(z) BY ONLY <3>2, <3>3, <3>4, ConcatProperties
    <3>6. Len(d) \in Nat /\ Len(b) \in Nat /\ Len(e) \in Nat BY <1>6, <1>7
    <3> QED BY ONLY <3>1, <3>2, <3>4, <3>5, <3>6 DEF EndOf
  <2>3. t[Len(t)] = c BY ONLY <1>2, <1>6, <1>7, SpelledText
  <2>4. \A i \in 1 .. Len(d) : t[i] = d[i] BY ONLY <1>2, <1>6, <1>7, SpelledText
  <2> QED BY <2>1, <2>2, <2>3, <2>4
<1>4. t[o] = SLASH /\ \A i \in 1 .. o : t[i] # DOT
  <2>1. o \in 1 .. o BY <1>1
  <2> QED BY <1>1, <1>3, <2>1 DEF NoDotAbove
<1>5. Spelled(t, o, b, e) /\ Len(t) = o + Len(b) + Len(e) + 2 /\ t[Len(t)] = END
  BY <1>3 DEF c, EndOf
<1> HIDE DEF o
<1> QED BY <1>1, <1>4, <1>5, FileNameOf

LineTyped ==
  /\ LineTypeOK
  /\ DOMAIN fields = {"response", "file_name", "content_length", "connect", "encoding"}

(* A line of a server's response sets its field and no other.              *)
LEMMA ServerLineKeeps ==
  ASSUME LineTyped, ServerLine
  PROVE  LineTyped' /\ NameCut'
<1> DEFINE Dispositions ==
             {[kind |-> "disposition", base |-> b, ext |-> e,
               text |-> Name(b, e) \o q \o <<END>> \o Stale] :
                b \in Bases, e \in Exts, q \in {<<QUOTE>>, <<>>}}
<1>1. PICK l \in Headers \cup Dispositions :
        parsed_line' = l /\ fields' = lineparse_server_response(fields, l)
  BY DEF ServerLine
<1>2. CASE l \in Dispositions
  <2>1. PICK b \in Bases, e \in Exts, q \in {<<QUOTE>>, <<>>} :
          l = [kind |-> "disposition", base |-> b, ext |-> e,
               text |-> Name(b, e) \o q \o <<END>> \o Stale]
    BY <1>2
  <2>2. b \in Seq(Letters) /\ e \in Seq(Letters) BY LineParserAssumption
  <2> DEFINE t == Name(b, e) \o q \o <<END>> \o Stale
  <2>3. l.text = t /\ l.kind = "disposition" /\ l.base = b /\ l.ext = e BY <2>1
  <2>8. t = Name(b, e) \o q \o <<END>> \o Stale OBVIOUS
  <2> HIDE DEF t
  <2> HIDE DEF Dispositions
  <2>9. q \in {<<QUOTE>>, <<>>} OBVIOUS
  <2>4. DispositionName(t) = Take(b, 8) \o <<DOT>> \o Take(e, 3)
    BY ONLY <2>2, <2>8, <2>9, DispositionNamed
  <2> DEFINE name == DispositionName(t)
  <2>5. fields' = [fields EXCEPT !.file_name = name]
    BY <1>1, <2>3 DEF lineparse_server_response
  <2>10. name = Take(b, 8) \o <<DOT>> \o Take(e, 3) BY <2>4
  <2> HIDE DEF name
  <2>6. NameCut'
    <3>1. fields'.file_name = Take(b, 8) \o <<DOT>> \o Take(e, 3)
      BY <2>5, <2>10 DEF LineTyped
    <3>2. parsed_line'.base = b /\ parsed_line'.ext = e BY <1>1, <2>3
    <3> QED BY <3>1, <3>2 DEF NameCut
  <2>7. LineTypeOK' /\ DOMAIN fields' = DOMAIN fields BY <2>5 DEF LineTyped, LineTypeOK
  <2> QED BY <2>6, <2>7 DEF LineTyped
<1>3. CASE l \in Headers
  <2>1. l.kind \in {"status", "length", "connection", "encoding", "bad", "other"}
        /\ (l.kind = "length" => l.value \in Nat)
    BY <1>3, LineParserAssumption
  <2>2. NameCut'
    <3>1. ~(l.kind \in {"disposition", "request"}) BY <2>1
    <3> QED BY <1>1, <3>1 DEF NameCut
  <2>3. \/ fields' = fields
        \/ fields' = [fields EXCEPT !.response = "200_OK"]
        \/ l.kind = "length" /\ fields' = [fields EXCEPT !.content_length = l.value]
        \/ /\ l.value \in {"CLOSE", "KEEP_ALIVE"}
           /\ fields' = [fields EXCEPT !.connect = l.value]
        \/ l.value = "CHUNKED" /\ fields' = [fields EXCEPT !.encoding = l.value]
    <3>1. CASE l.kind = "status" BY <1>1, <3>1 DEF lineparse_server_response
    <3>2. CASE l.kind = "length" BY <1>1, <3>2 DEF lineparse_server_response
    <3>3. CASE l.kind = "connection" BY <1>1, <3>3 DEF lineparse_server_response
    <3>4. CASE l.kind = "encoding" BY <1>1, <3>4 DEF lineparse_server_response
    <3>5. CASE l.kind \in {"bad", "other"} BY <1>1, <3>5 DEF lineparse_server_response
    <3> QED BY <2>1, <3>1, <3>2, <3>3, <3>4, <3>5
  <2>4. LineTypeOK' /\ DOMAIN fields' = DOMAIN fields BY <2>1, <2>3 DEF LineTyped, LineTypeOK
  <2> QED BY <2>2, <2>4 DEF LineTyped
<1> QED BY <1>1, <1>2, <1>3

LEMMA RequestLineTyped ==
  ASSUME LineTyped, RequestLine
  PROVE  LineTyped'
<1>1. PICK text : fields' = [fields EXCEPT !.file_name = get_file_name(text)] BY DEF RequestLine
<1> QED BY <1>1 DEF LineTyped, LineTypeOK

LEMMA RequestLineNames ==
  ASSUME NoDotAbove, LineTyped, RequestLine
  PROVE  NameCut'
<1>1. PICK d \in Dirs, b \in Bases, e \in Exts :
        LET text == d \o Name(b, e) \o <<END>>
        IN  /\ parsed_line' = [kind |-> "request", base |-> b, ext |-> e, text |-> text]
            /\ fields' = [fields EXCEPT !.file_name = get_file_name(text)]
  BY DEF RequestLine
<1> DEFINE text == d \o Name(b, e) \o <<END>>
<1>2. b \in Seq(Letters) /\ e \in Seq(Letters) BY LineParserAssumption
<1>3. get_file_name(text) = Take(b, 8) \o <<DOT>> \o Take(e, 3) BY <1>2, RequestName
<1>4. /\ parsed_line' = [kind |-> "request", base |-> b, ext |-> e, text |-> text]
      /\ fields' = [fields EXCEPT !.file_name = get_file_name(text)]
  BY <1>1
<1> HIDE DEF text
<1> QED BY <1>3, <1>4 DEF NameCut, LineTyped

(* The fields that the lines set keep their types, whatever the lines say. *)
THEOREM LineTypes == LineSpec => []LineTypeOK
<1>1. LineInit => LineTyped BY DEF LineInit, LineTyped, LineTypeOK
<1>2. LineTyped /\ [LineNext]_lineVars => LineTyped'
  <2> SUFFICES ASSUME LineTyped, [LineNext]_lineVars PROVE LineTyped' OBVIOUS
  <2>1. CASE ServerLine BY <2>1, ServerLineKeeps
  <2>2. CASE RequestLine BY <2>2, RequestLineTyped
  <2>3. CASE UNCHANGED lineVars BY <2>3 DEF lineVars, LineTyped, LineTypeOK
  <2> QED BY <2>1, <2>2, <2>3 DEF LineNext
<1>3. LineTyped => LineTypeOK BY DEF LineTyped
<1> QED BY <1>1, <1>2, <1>3, PTL DEF LineSpec

(* Whether a server's response or a client's request names a file, at most *)
(* eight characters of its base and three of its extension go into         *)
(* file_name, with the dot between them:  for every name, and whatever an  *)
(* earlier line has left in the buffer.                                    *)
THEOREM NamesCut ==
  ASSUME NoDotAbove
  PROVE  LineSpec => []NameCut
<1>1. LineInit => LineTyped /\ NameCut BY DEF LineInit, LineTyped, LineTypeOK, NameCut
<1>2. LineTyped /\ NameCut /\ [LineNext]_lineVars => LineTyped' /\ NameCut'
  <2> SUFFICES ASSUME LineTyped, NameCut, [LineNext]_lineVars PROVE LineTyped' /\ NameCut'
    OBVIOUS
  <2>1. CASE ServerLine BY <2>1, ServerLineKeeps
  <2>2. CASE RequestLine BY <2>2, RequestLineTyped, RequestLineNames
  <2>3. CASE UNCHANGED lineVars BY <2>3 DEF lineVars, LineTyped, LineTypeOK, NameCut
  <2> QED BY <2>1, <2>2, <2>3 DEF LineNext
<1> QED BY <1>1, <1>2, PTL DEF LineSpec

-----------------------------------------------------------------------------
(* lwprintf.c: a number is printed digit by digit, and reads back.          *)
Cyphers == {Lower, Upper}

LEMMA CyphersApart ==
  \A k, j \in 1 .. 16 : (Lower[k] = Lower[j] \/ Upper[k] = Upper[j] \/ Lower[k] = Upper[j]) => k = j
BY DEF Lower, Upper

LEMMA DigitIs == ASSUME NEW D \in Cyphers, NEW k \in 1 .. 16 PROVE Digit(D[k]) = k - 1
<1>1. PICK x : x = D[k] OBVIOUS
<1>2. Lower[k] = x \/ Upper[k] = x BY <1>1 DEF Cyphers
<1>3. \A j \in 1 .. 16 : Lower[j] = x \/ Upper[j] = x => j = k BY <1>1, CyphersApart DEF Cyphers
<1> HIDE DEF Cyphers
<1>4. (CHOOSE j \in 1 .. 16 : Lower[j] = x \/ Upper[j] = x) = k BY <1>2, <1>3
<1> QED BY <1>1, <1>4 DEF Digit

(* A numeral is read digit by digit.                                       *)
ReadTo(f, u, base) ==
  /\ f \in [0 .. Len(u) -> Nat] /\ f[0] = 0
  /\ \A k \in 1 .. Len(u) : f[k] = base * f[k - 1] + Digit(u[k])

LEMMA ReadIs ==
  ASSUME NEW u, Len(u) \in Nat, NEW base \in Nat, \A k \in 1 .. Len(u) : Digit(u[k]) \in Nat
  PROVE  \E f : ReadTo(f, u, base) /\ Read(u, base) = f[Len(u)]
<1> DEFINE N == Len(u)
           g == [x \in Nat \X (1 .. N) |-> base * x[1] + Digit(u[x[2]])]
           Is(f) == f = [k \in 0 .. N |-> IF k = 0 THEN 0 ELSE base * f[k - 1] + Digit(u[k])]
           e == CHOOSE f : Is(f)
<1>1. N \in Nat /\ \A k \in 1 .. N : Digit(u[k]) \in Nat OBVIOUS
<1>2. g \in [Nat \X (1 .. N) -> Nat]
  <2>1. \A r \in Nat, k \in 1 .. N : base * r + Digit(u[k]) \in Nat BY <1>1
  <2> QED BY <2>1
<1>3. \A x \in Nat, k \in 1 .. N : g[<<x, k>>] = base * x + Digit(u[k]) OBVIOUS
<1>4. Read(u, base) = e[N] BY DEF Read
<1>0. 0 \in Nat OBVIOUS
<1>13. e = CHOOSE f : Is(f) OBVIOUS
<1> HIDE DEF N, g, e
<1>5. PICK f \in [0 .. N -> Nat] : Follows(f, 0, g, N) BY <1>0, <1>1, <1>2, RecursionExists
<1>6. \A k \in 0 .. N : f[k] = IF k = 0 THEN 0 ELSE base * f[k - 1] + Digit(u[k])
  <2> TAKE k \in 0 .. N
  <2>1. CASE k = 0 BY <1>5, <2>1 DEF Follows
  <2>2. CASE k # 0
    <3>1. k \in 1 .. N /\ k - 1 \in 0 .. N BY <1>1, <2>2
    <3>2. f[k - 1] \in Nat BY <3>1
    <3>3. f[k] = g[<<f[k - 1], k>>] BY <1>5, <3>1 DEF Follows
    <3>4. g[<<f[k - 1], k>>] = base * f[k - 1] + Digit(u[k]) BY <1>3, <3>1, <3>2
    <3> QED BY <2>2, <3>3, <3>4
  <2> QED BY <2>1, <2>2
<1>7. Is(f) BY <1>6
<1>8. Is(e) BY <1>7, <1>13
<1> HIDE DEF Is
<1>9. e[0] = 0 /\ \A k \in 1 .. N : e[k] = base * e[k - 1] + Digit(u[k])
  <2>1. e = [k \in 0 .. N |-> IF k = 0 THEN 0 ELSE base * e[k - 1] + Digit(u[k])] BY <1>8 DEF Is
  <2> QED BY <1>1, <2>1
<1>10. e = [k \in 0 .. N |-> e[k]]
  <2>1. e = [k \in 0 .. N |-> IF k = 0 THEN 0 ELSE base * e[k - 1] + Digit(u[k])] BY <1>8 DEF Is
  <2>2. DOMAIN e = 0 .. N BY <2>1
  <2>3. \A k \in 0 .. N : e[k] = IF k = 0 THEN 0 ELSE base * e[k - 1] + Digit(u[k]) BY <2>1
  <2> QED BY <2>1, <2>3
<1>14. \A r, d \in Nat : base * r + d \in Nat OBVIOUS
<1>11. \A k \in 0 .. N : e[k] \in Nat
  <2> SUFFICES ASSUME NEW k \in 0 .. N, e[k] \notin Nat PROVE FALSE OBVIOUS
  <2> DEFINE Bad == {m \in Nat : m <= N /\ e[m] \notin Nat}
  <2>7. k \in Bad BY <1>1
  <2>1. PICK m \in Bad : \A j \in Bad : m <= j BY <2>7, LeastElement
  <2>2. m # 0 BY <1>9, <2>1
  <2>3. m - 1 \in Nat /\ m - 1 \notin Bad /\ m \in 1 .. N BY <1>1, <2>1, <2>2
  <2>4. e[m - 1] \in Nat /\ Digit(u[m]) \in Nat BY <1>1, <2>3
  <2>5. e[m] = base * e[m - 1] + Digit(u[m]) BY <1>9, <2>3
  <2>6. e[m] \in Nat BY <1>14, <2>4, <2>5
  <2> QED BY <2>1, <2>6
<1>12. e \in [0 .. N -> Nat] BY <1>10, <1>11
<1> QED BY <1>4, <1>9, <1>12 DEF ReadTo, N

LEMMA ReadNothing == ASSUME NEW base \in Nat PROVE Read(<<>>, base) = 0
<1> DEFINE u == <<>>
<1>1. Len(u) = 0 OBVIOUS
<1> HIDE DEF u
<1>2. Len(u) \in Nat /\ \A k \in 1 .. Len(u) : Digit(u[k]) \in Nat BY <1>1
<1>3. PICK f : ReadTo(f, u, base) /\ Read(u, base) = f[Len(u)] BY <1>2, ReadIs
<1>4. Read(u, base) = 0 BY <1>1, <1>3 DEF ReadTo
<1> QED BY <1>4 DEF u

ReadOn(n, x, base) == base * n + Digit(x)

LEMMA ReadMore ==
  ASSUME NEW S, NEW u \in Seq(S), NEW x \in S, NEW base \in Nat, \A y \in S : Digit(y) \in Nat
  PROVE  Read(u, base) \in Nat /\ Read(Append(u, x), base) = ReadOn(Read(u, base), x, base)
<1> DEFINE n == Len(u)
           v == Append(u, x)
<1>1. n \in Nat /\ v \in Seq(S) /\ Len(v) = n + 1 OBVIOUS
<1>2. v[n + 1] = x /\ \A k \in 1 .. n : v[k] = u[k] OBVIOUS
<1>3. \A k \in 1 .. n : Digit(u[k]) \in Nat OBVIOUS
<1>4. \A k \in 1 .. Len(v) : Digit(v[k]) \in Nat BY <1>1
<1>5. PICK f : ReadTo(f, u, base) /\ Read(u, base) = f[n] BY <1>1, <1>3, ReadIs
<1>6. Len(v) \in Nat BY <1>1
<1>7. PICK h : ReadTo(h, v, base) /\ Read(v, base) = h[Len(v)] BY <1>4, <1>6, ReadIs
<1> HIDE DEF n, v
<1>8. f \in [0 .. n -> Nat] /\ f[0] = 0 /\ \A k \in 1 .. n : f[k] = base * f[k - 1] + Digit(u[k])
  BY <1>5 DEF ReadTo, n
<1>9. h[0] = 0 /\ \A k \in 1 .. n + 1 : h[k] = base * h[k - 1] + Digit(v[k])
  BY <1>1, <1>7 DEF ReadTo
<1>10. \A k \in 0 .. n : h[k] = f[k]
  <2> DEFINE Bad == {m \in Nat : m <= n /\ h[m] # f[m]}
  <2> SUFFICES ASSUME Bad # {} PROVE FALSE BY <1>1
  <2>1. PICK m \in Bad : \A k \in Bad : m <= k BY LeastElement
  <2>2. m # 0 BY <1>8, <1>9, <2>1
  <2>3. m - 1 \in Nat /\ m - 1 \notin Bad /\ m \in 1 .. n /\ m \in 1 .. n + 1 BY <1>1, <2>1, <2>2
  <2>4. h[m - 1] = f[m - 1] BY <1>1, <2>3
  <2>5. v[m] = u[m] BY <1>2, <2>3
  <2>6. h[m] = base * h[m - 1] + Digit(v[m]) BY <1>9, <2>3
  <2>7. f[m] = base * f[m - 1] + Digit(u[m]) BY <1>8, <2>3
  <2>8. h[m] = f[m] BY <2>4, <2>5, <2>6, <2>7
  <2> QED BY <2>1, <2>8
<1>11. n \in 0 .. n /\ n + 1 \in 1 .. n + 1 /\ n + 1 - 1 = n BY <1>1
<1>12. f[n] \in Nat BY <1>8, <1>11
<1>13. h[n + 1] = base * h[n] + Digit(v[n + 1])
  <2> DEFINE m == n + 1
  <2>1. m \in 1 .. n + 1 /\ m - 1 = n BY <1>11
  <2> HIDE DEF m
  <2>2. h[m] = base * h[m - 1] + Digit(v[m]) BY <1>9, <2>1
  <2> QED BY <2>1, <2>2 DEF m
<1> QED BY <1>1, <1>2, <1>5, <1>7, <1>10, <1>11, <1>12, <1>13 DEF ReadOn, v

Figures(base) == {Lower[d] : d \in 1 .. base} \cup {Upper[d] : d \in 1 .. base}

(* What a text is made of.                                                 *)
Marks == STRING \cup {"0", " ", "-"} \cup Figures(16)

LEMMA FiguresAre ==
  ASSUME NEW base \in {10, 16}
  PROVE  /\ \A y \in Figures(base) : y \in Marks /\ Digit(y) \in Nat
         /\ \A D \in Cyphers, d \in 0 .. base - 1 :
              D[d + 1] \in Figures(base) /\ Digit(D[d + 1]) = d
<1>1. base \in Nat /\ \A d \in 1 .. base : d \in 1 .. 16 OBVIOUS
<1>2. ASSUME NEW y \in Figures(base) PROVE y \in Marks /\ Digit(y) \in Nat
  <2>1. PICK D \in Cyphers, d \in 1 .. base : y = D[d] BY DEF Figures, Cyphers
  <2>2. d \in 1 .. 16 BY <1>1
  <2>3. Digit(D[d]) = d - 1 BY <2>2, DigitIs
  <2>4. d - 1 \in Nat BY <2>2
  <2>5. D[d] \in Figures(16) BY <2>2 DEF Figures, Cyphers
  <2> QED BY <2>1, <2>3, <2>4, <2>5 DEF Marks
<1>3. ASSUME NEW D \in Cyphers, NEW d \in 0 .. base - 1
      PROVE  D[d + 1] \in Figures(base) /\ Digit(D[d + 1]) = d
  <2> DEFINE k == d + 1
  <2>1. k \in 1 .. 16 /\ k \in 1 .. base /\ k - 1 = d BY <1>1
  <2> HIDE DEF k
  <2>2. Digit(D[k]) = k - 1 BY <2>1, DigitIs
  <2>3. D[k] \in Figures(base) BY <2>1 DEF Figures, Cyphers
  <2> QED BY <2>1, <2>2, <2>3 DEF k
<1> QED BY <1>2, <1>3

LEMMA AppendBehind ==
  ASSUME NEW S, NEW g \in Seq(S), NEW u \in Seq(S), NEW x \in S
  PROVE  Append(g \o u, x) = g \o Append(u, x)
<1> DEFINE a == <<x>>
<1>1. a \in Seq(S) OBVIOUS
<1>2. Append(u, x) = u \o a /\ Append(g \o u, x) = (g \o u) \o a OBVIOUS
<1> HIDE DEF a
<1>3. (g \o u) \o a = g \o (u \o a) BY <1>1, ConcatAssociative
<1> QED BY <1>2, <1>3

(* The state of the printer once it has written sign g and digits u of the *)
(* number M, with what is left below p:  no zero leads.                    *)
Printed(s, g, u, base, p, M, l) ==
  /\ DOMAIN s = {"num", "bf", "zs"}
  /\ s.num \in 0 .. p - 1 /\ s.bf = g \o u /\ s.zs = (Len(u) > 0)
  /\ u \in Seq(Figures(base)) /\ Len(u) <= l /\ (Len(u) > 0 => Digit(u[1]) # 0)
  /\ Read(u, base) * p + s.num = M

(* State r is s with digit d written behind the digits u, which makes v.   *)
DigitOut(s, r, g, u, v, base, d) ==
  /\ DOMAIN r = {"num", "bf", "zs"} /\ r.num = s.num /\ r.bf = g \o v /\ r.zs = TRUE
  /\ v \in Seq(Figures(base)) /\ Len(v) = Len(u) + 1 /\ Len(u) \in Nat
  /\ Len(u) > 0 => v[1] = u[1]
  /\ Len(u) = 0 => Digit(v[1]) = d
  /\ Read(u, base) \in Nat /\ Read(v, base) = base * Read(u, base) + d

LEMMA OutIs ==
  ASSUME NEW base \in {10, 16}, NEW D \in Cyphers, NEW g \in Seq(Marks),
         NEW u \in Seq(Figures(base)), NEW s, DOMAIN s = {"num", "bf", "zs"}, s.bf = g \o u,
         NEW d \in 0 .. base - 1, NEW v, v = Append(u, D[d + 1]),
         NEW r, r = outDgt(s, d, D)
  PROVE  DigitOut(s, r, g, u, v, base, d)
<1> DEFINE F == Figures(base)
           x == D[d + 1]
<1>1. /\ \A y \in F : y \in Marks /\ Digit(y) \in Nat
      /\ x \in F /\ Digit(x) = d
  BY FiguresAre
<1>2. v = Append(u, x) /\ u \in Seq(F) /\ base \in Nat OBVIOUS
<1>3. DOMAIN r = {"num", "bf", "zs"} /\ r.num = s.num /\ r.bf = Append(s.bf, x) /\ r.zs = TRUE
  BY DEF outDgt
<1> HIDE DEF F, x
<1>4. u \in Seq(Marks) /\ x \in Marks
  <2>1. Len(u) \in Nat /\ \A k \in 1 .. Len(u) : u[k] \in Marks BY <1>1, <1>2
  <2>2. u = [k \in 1 .. Len(u) |-> u[k]] BY <1>2
  <2>3. u \in Seq(Marks) BY ONLY <2>1, <2>2
  <2> QED BY <1>1, <2>3
<1>10. g \in Seq(Marks) OBVIOUS
<1>5. Append(g \o u, x) = g \o v
  <2>1. Append(g \o u, x) = g \o Append(u, x) BY ONLY <1>4, <1>10, AppendBehind
  <2> QED BY <1>2, <2>1
<1>6. v \in Seq(F) /\ Len(v) = Len(u) + 1 /\ Len(u) \in Nat BY <1>1, <1>2
<1>7. Len(u) > 0 => v[1] = u[1] BY <1>1, <1>2
<1>8. Len(u) = 0 => v[1] = x BY <1>1, <1>2
<1>9. Read(u, base) \in Nat /\ Read(v, base) = base * Read(u, base) + Digit(x)
  <2>1. \A y \in F : Digit(y) \in Nat BY <1>1
  <2>2. u \in Seq(F) /\ x \in F BY <1>1, <1>2
  <2>3. base \in Nat /\ v = Append(u, x) BY <1>2
  <2>4. Read(u, base) \in Nat BY ONLY <2>1, <2>2, <2>3, ReadMore
  <2>5. Read(Append(u, x), base) = ReadOn(Read(u, base), x, base)
    BY ONLY <2>1, <2>2, <2>3, ReadMore
  <2> QED BY <2>3, <2>4, <2>5 DEF ReadOn
<1> QED BY <1>1, <1>3, <1>5, <1>6, <1>7, <1>8, <1>9 DEF F, DigitOut

Places ==
  {<<10000, 10>>, <<1000, 10>>, <<100, 10>>, <<10, 10>>, <<4096, 16>>, <<256, 16>>, <<16, 16>>}

(* What one divisor does to a number, and to what was read so far.         *)
LEMMA PlaceDivides ==
  ASSUME NEW q, NEW base, <<q, base>> \in Places
  PROVE  /\ base \in {10, 16} /\ q \in Nat /\ q > 0
         /\ \A n \in 0 .. q * base - 1 :
              n \div q \in 0 .. base - 1 /\ n % q \in 0 .. q - 1 /\ n = (n \div q) * q + (n % q)
         /\ \A r, d \in Nat : (base * r + d) * q = r * (q * base) + d * q
<1>1. base \in {10, 16} /\ q \in Nat /\ q > 0 BY DEF Places
<1>2. base \in Nat /\ q * base \in Nat BY <1>1
<1>3. ASSUME NEW n \in 0 .. q * base - 1
      PROVE  n \div q \in 0 .. base - 1 /\ n % q \in 0 .. q - 1 /\ n = (n \div q) * q + (n % q)
  <2>1. n \in Nat /\ n < q * base BY <1>2
  <2>2. n \div q \in Nat /\ n % q \in 0 .. q - 1 /\ n = (n \div q) * q + (n % q) BY <1>1, <2>1
  <2>3. n \div q < base BY <1>1, <1>2, <2>1
  <2>4. n \div q \in 0 .. base - 1 BY <1>2, <2>2, <2>3
  <2> QED BY <2>2, <2>4
<1>4. ASSUME NEW r \in Nat, NEW d \in Nat PROVE (base * r + d) * q = r * (q * base) + d * q
  BY <1>1, <1>2
<1> QED BY <1>1, <1>3, <1>4

LEMMA DivOutPrints ==
  ASSUME NEW q, NEW base, <<q, base>> \in Places, NEW D \in Cyphers, NEW g \in Seq(Marks),
         NEW M \in Nat, NEW l \in Nat, NEW s, NEW u, Printed(s, g, u, base, q * base, M, l)
  PROVE  \E v : Printed(divOut(s, q, D), g, v, base, q, M, l + 1)
<1> DEFINE n == s.num
           d == n \div q
           m == n % q
           t == [s EXCEPT !.num = @ % q]
           R == Read(u, base)
           r == divOut(s, q, D)
<1>1. /\ DOMAIN s = {"num", "bf", "zs"}
      /\ n \in 0 .. q * base - 1 /\ s.bf = g \o u /\ s.zs = (Len(u) > 0)
      /\ u \in Seq(Figures(base)) /\ Len(u) <= l /\ (Len(u) > 0 => Digit(u[1]) # 0)
      /\ R * (q * base) + n = M
  BY DEF Printed
<1>2. /\ base \in {10, 16} /\ q \in Nat /\ q > 0
      /\ d \in 0 .. base - 1 /\ m \in 0 .. q - 1 /\ n = d * q + m
      /\ \A k, j \in Nat : (base * k + j) * q = k * (q * base) + j * q
  BY <1>1, PlaceDivides
<1>3. DOMAIN t = {"num", "bf", "zs"} /\ t.num = m /\ t.bf = g \o u /\ t.zs = s.zs BY <1>1
<1>4. Len(u) \in Nat BY <1>1
<1>5. CASE Len(u) > 0 \/ d > 0
  <2> DEFINE v == Append(u, D[d + 1])
  <2>1. r = outDgt(t, d, D) BY <1>1, <1>5 DEF divOut
  <2>2. v = Append(u, D[d + 1]) OBVIOUS
  <2> HIDE DEF d, m, n, t, R, r, v
  <2>3. /\ DOMAIN r = {"num", "bf", "zs"} /\ r.num = t.num /\ r.bf = g \o v /\ r.zs = TRUE
        /\ v \in Seq(Figures(base)) /\ Len(v) = Len(u) + 1 /\ Len(u) \in Nat
        /\ Len(u) > 0 => v[1] = u[1]
        /\ Len(u) = 0 => Digit(v[1]) = d
        /\ Read(u, base) \in Nat /\ Read(v, base) = base * Read(u, base) + d
    <3>1. base \in {10, 16} /\ D \in Cyphers /\ g \in Seq(Marks) BY <1>2
    <3>2. u \in Seq(Figures(base)) BY <1>1
    <3>3. DOMAIN t = {"num", "bf", "zs"} /\ t.bf = g \o u BY <1>3
    <3>4. d \in 0 .. base - 1 BY <1>2
    <3>5. DigitOut(t, r, g, u, v, base, d) BY ONLY <3>1, <3>2, <3>3, <3>4, <2>1, <2>2, OutIs
    <3> QED BY <3>5 DEF DigitOut
  <2>4. r.num \in 0 .. q - 1 BY <1>2, <1>3, <2>3
  <2>5. r.zs = (Len(v) > 0)
    <3>1. Len(v) > 0 BY <1>4, <2>3
    <3> QED BY <2>3, <3>1
  <2>6. Len(v) <= l + 1 BY <1>1, <1>4, <2>3
  <2>7. Digit(v[1]) # 0
    <3>1. CASE Len(u) > 0 BY <1>1, <2>3, <3>1
    <3>2. CASE Len(u) = 0
      <4>1. d > 0 BY <1>4, <1>5, <3>2
      <4>2. d # 0 BY <1>2, <4>1
      <4> QED BY <2>3, <3>2, <4>2
    <3> QED BY <1>4, <3>1, <3>2
  <2>8. Read(v, base) * q + r.num = M
    <3>1. d \in Nat /\ R \in Nat BY <1>2, <2>3 DEF R
    <3>2. (base * R + d) * q = R * (q * base) + d * q BY <1>2, <3>1
    <3>3. Read(v, base) = base * R + d /\ r.num = m BY <1>3, <2>3 DEF R
    <3>4. q * base \in Nat /\ d * q \in Nat /\ m \in Nat BY <1>2, <3>1
    <3>5. R * (q * base) \in Nat BY <3>1, <3>4
    <3> QED BY <1>1, <1>2, <3>2, <3>3, <3>4, <3>5
  <2>9. Printed(r, g, v, base, q, M, l + 1) BY <2>3, <2>4, <2>5, <2>6, <2>7, <2>8 DEF Printed
  <2> QED BY <2>9 DEF r
<1>6. CASE ~(Len(u) > 0 \/ d > 0)
  <2>1. r = t BY <1>1, <1>6 DEF divOut
  <2>2. d = 0 /\ Len(u) = 0
    <3> HIDE DEF d
    <3> QED BY <1>2, <1>4, <1>6
  <2>3. u = <<>> BY <1>1, <2>2
  <2>4. R = 0 BY <1>2, <2>3, ReadNothing
  <2>5. m = n /\ m \in Nat
    <3> HIDE DEF d, m, n
    <3> QED BY <1>2, <2>2
  <2>6. R * q + m = M
    <3> HIDE DEF R, d, m, n
    <3>1. 0 * (q * base) = 0 /\ 0 * q = 0 BY <1>2
    <3>2. n \in Nat BY <2>5
    <3> QED BY <1>1, <2>4, <2>5, <3>1, <3>2
  <2>7. Len(u) <= l + 1 BY <1>1, <1>4
  <2> HIDE DEF d, m, n, t, r
  <2>8. Printed(r, g, u, base, q, M, l + 1)
    BY <1>1, <1>2, <1>3, <2>1, <2>6, <2>7 DEF Printed, R
  <2> QED BY <2>8 DEF r
<1> QED BY <1>5, <1>6

(* The finished text t: sign g, and a numeral v of at most l digits, for M. *)
Numbered(t, g, v, base, M, l) ==
  /\ t = g \o v /\ v \in Seq(Figures(base)) /\ Len(v) \in 1 .. l
  /\ Read(v, base) = M /\ (Len(v) > 1 => v[1] # "0")

LEMMA LastDigit ==
  ASSUME NEW base \in {10, 16}, NEW D \in Cyphers, NEW g \in Seq(Marks),
         NEW M \in Nat, NEW l \in Nat, NEW s, NEW u, Printed(s, g, u, base, base, M, l)
  PROVE  \E v : Numbered(outDgt(s, s.num, D).bf, g, v, base, M, l + 1)
<1> DEFINE d == s.num
           v == Append(u, D[d + 1])
           r == outDgt(s, d, D)
<1>1. /\ DOMAIN s = {"num", "bf", "zs"} /\ d \in 0 .. base - 1 /\ s.bf = g \o u
      /\ u \in Seq(Figures(base)) /\ Len(u) <= l /\ (Len(u) > 0 => Digit(u[1]) # 0)
      /\ Read(u, base) * base + d = M
  BY DEF Printed
<1>2. r = outDgt(s, d, D) /\ v = Append(u, D[d + 1]) OBVIOUS
<1> HIDE DEF d, v, r
<1>3. DigitOut(s, r, g, u, v, base, d)
  <2>1. base \in {10, 16} /\ D \in Cyphers /\ g \in Seq(Marks) OBVIOUS
  <2>2. u \in Seq(Figures(base)) /\ DOMAIN s = {"num", "bf", "zs"} BY <1>1
  <2>3. s.bf = g \o u /\ d \in 0 .. base - 1 BY <1>1
  <2> QED BY ONLY <1>2, <2>1, <2>2, <2>3, OutIs
<1>4. r.bf = g \o v /\ v \in Seq(Figures(base)) /\ Len(v) = Len(u) + 1 /\ Len(u) \in Nat
  BY <1>3 DEF DigitOut
<1>5. Len(v) \in 1 .. l + 1 BY <1>1, <1>4
<1>6. Read(v, base) = M
  <2>1. Read(u, base) \in Nat /\ Read(v, base) = base * Read(u, base) + d BY <1>3 DEF DigitOut
  <2>2. \A k \in Nat : k * base = base * k OBVIOUS
  <2> QED BY <1>1, <2>1, <2>2
<1>7. ASSUME Len(v) > 1 PROVE v[1] # "0"
  <2>1. v[1] = u[1] /\ Digit(u[1]) # 0
    <3>1. Len(u) > 0 BY <1>4, <1>7
    <3> QED BY <1>1, <1>3, <3>1 DEF DigitOut
  <2>2. Lower \in Cyphers /\ 1 \in 1 .. 16 BY DEF Cyphers
  <2>3. Digit(Lower[1]) = 0 BY <2>2, DigitIs
  <2>4. Lower[1] = "0" BY DEF Lower
  <2> QED BY <2>1, <2>3, <2>4
<1>8. Numbered(r.bf, g, v, base, M, l + 1) BY <1>4, <1>5, <1>6, <1>7 DEF Numbered
<1> QED BY <1>8 DEF r, d

TensTop == 100000
SixteensTop == 65536

(* One more place, of a row that goes down by the base.                    *)
LEMMA PlacePrints ==
  ASSUME NEW q, NEW base, <<q, base>> \in Places, NEW D \in Cyphers, NEW g \in Seq(Marks),
         NEW M \in Nat, NEW l \in Nat, NEW k, k = l + 1, NEW p, p = q * base, NEW s,
         \E u : Printed(s, g, u, base, p, M, l)
  PROVE  \E v : Printed(divOut(s, q, D), g, v, base, q, M, k)
<1>1. PICK u : Printed(s, g, u, base, q * base, M, l) OBVIOUS
<1> QED BY <1>1, DivOutPrints

LEMMA TensPrint ==
  ASSUME NEW g \in Seq(Marks), NEW M \in Nat, NEW s,
         Printed(s, g, <<>>, 10, TensTop, M, 0)
  PROVE  \E v : Numbered(Tens(s), g, v, 10, M, 5)
<1> DEFINE q == 10000
           h == 1000
           a == divOut(s, q, Lower)
           b == divOut(a, h, Lower)
           c == divOut(b, 100, Lower)
           t == divOut(c, 10, Lower)
<1>1. Lower \in Cyphers BY DEF Cyphers
<1>2. <<q, 10>> \in Places /\ <<h, 10>> \in Places BY SMT DEF Places
<1>3. <<100, 10>> \in Places /\ <<10, 10>> \in Places BY SMT DEF Places
<1>4. TensTop = q * 10 /\ q = h * 10 /\ h = 100 * 10 /\ 100 = 10 * 10 BY SMT DEF TensTop
<1>5. 1 = 0 + 1 /\ 2 = 1 + 1 /\ 3 = 2 + 1 /\ 4 = 3 + 1 /\ 5 = 4 + 1 OBVIOUS
<1>6. Tens(s) = outDgt(t, t.num, Lower).bf BY SMT DEF Tens
<1> HIDE DEF q, h, a, b, c, t
<1>7. \E v : Printed(a, g, v, 10, q, M, 1) BY <1>1, <1>2, <1>4, <1>5, PlacePrints DEF a
<1>8. \E v : Printed(b, g, v, 10, h, M, 2) BY <1>1, <1>2, <1>4, <1>5, <1>7, PlacePrints DEF b
<1>9. \E v : Printed(c, g, v, 10, 100, M, 3) BY <1>1, <1>3, <1>4, <1>5, <1>8, PlacePrints DEF c
<1>10. PICK u : Printed(t, g, u, 10, 10, M, 4)
  BY <1>1, <1>3, <1>4, <1>5, <1>9, PlacePrints DEF t
<1>11. 10 \in {10, 16} /\ 4 \in Nat OBVIOUS
<1>12. \E v : Numbered(outDgt(t, t.num, Lower).bf, g, v, 10, M, 4 + 1)
  BY <1>1, <1>10, <1>11, LastDigit
<1> QED BY <1>5, <1>6, <1>12

LEMMA SixteensPrint ==
  ASSUME NEW D \in Cyphers, NEW g \in Seq(Marks), NEW M \in Nat, NEW s,
         Printed(s, g, <<>>, 16, SixteensTop, M, 0)
  PROVE  \E v : Numbered(Sixteens(s, D), g, v, 16, M, 4)
<1> DEFINE q == 4096
           h == 256
           a == divOut(s, q, D)
           b == divOut(a, h, D)
           t == divOut(b, 16, D)
<1>2. <<q, 16>> \in Places /\ <<h, 16>> \in Places /\ <<16, 16>> \in Places BY SMT DEF Places
<1>3. SixteensTop = q * 16 /\ q = h * 16 /\ h = 16 * 16 BY SMT DEF SixteensTop
<1>4. 1 = 0 + 1 /\ 2 = 1 + 1 /\ 3 = 2 + 1 /\ 4 = 3 + 1 OBVIOUS
<1>5. Sixteens(s, D) = outDgt(t, t.num, D).bf BY SMT DEF Sixteens
<1> HIDE DEF q, h, a, b, t
<1>6. \E v : Printed(a, g, v, 16, q, M, 1) BY <1>2, <1>3, <1>4, PlacePrints DEF a
<1>7. \E v : Printed(b, g, v, 16, h, M, 2) BY <1>2, <1>3, <1>4, <1>6, PlacePrints DEF b
<1>8. PICK u : Printed(t, g, u, 16, 16, M, 3) BY <1>2, <1>3, <1>4, <1>7, PlacePrints DEF t
<1>9. 16 \in {10, 16} /\ 3 \in Nat OBVIOUS
<1>10. \E v : Numbered(outDgt(t, t.num, D).bf, g, v, 16, M, 3 + 1) BY <1>8, <1>9, LastDigit
<1> QED BY <1>4, <1>5, <1>10

Numbers == {"u", "d", "x", "X"}
Numerals == {n \in Nat : n <= 65535}

(* What the negation of a negative int leaves in a word.                   *)
LEMMA Negated ==
  ASSUME NEW n \in Numerals, Signed(n) < 0
  PROVE  (-n) % 65536 = -Signed(n) /\ -Signed(n) \in Numerals
<1>1. n \in Nat /\ n <= 65535 BY SMT DEF Numerals
<1>2. n > 32767 /\ Signed(n) = n - 65536 BY <1>1, SMT DEF Signed
<1>3. (-n) % 65536 = 65536 - n BY <1>1, <1>2, SMT
<1>4. -Signed(n) = 65536 - n BY <1>1, <1>2, SMT
<1>5. 65536 - n \in Nat /\ 65536 - n <= 65535 BY <1>1, <1>2, SMT
<1>6. 65536 - n \in Numerals BY <1>5, SMT DEF Numerals
<1> QED BY <1>3, <1>4, <1>6, SMT

LEMMA StartIs ==
  ASSUME NEW c, c.ch \in Numbers, c.arg \in Numerals
  PROVE  /\ Start(c.ch, c.arg) = [num |-> Magnitude(c), bf |-> Sign(c), zs |-> FALSE]
         /\ Magnitude(c) \in Numerals
<1>1. CASE Negative(c)
  <2>1. c.ch = "d" /\ Signed(c.arg) < 0 BY <1>1, Zenon DEF Negative
  <2>2. (-c.arg) % 65536 = -Signed(c.arg) /\ -Signed(c.arg) \in Numerals BY <2>1, Negated, SMT
  <2>3. Magnitude(c) = -Signed(c.arg) /\ Sign(c) = <<"-">> BY <1>1, Zenon DEF Magnitude, Sign
  <2>4. Start(c.ch, c.arg) = [num |-> (-c.arg) % 65536, bf |-> <<"-">>, zs |-> FALSE]
    BY <2>1, SMT DEF Start
  <2> DEFINE m == (-c.arg) % 65536
             z == -Signed(c.arg)
  <2>5. m = z /\ z \in Numerals BY <2>2, SMT
  <2>6. Magnitude(c) = z BY <2>3, Zenon
  <2>7. Start(c.ch, c.arg) = [num |-> m, bf |-> <<"-">>, zs |-> FALSE] BY <2>4, SMT
  <2> HIDE DEF m, z
  <2> QED BY <2>3, <2>5, <2>6, <2>7
<1>2. CASE ~Negative(c)
  <2>1. ~(c.ch = "d" /\ Signed(c.arg) < 0) BY <1>2, Zenon DEF Negative
  <2>2. Start(c.ch, c.arg) = [num |-> c.arg, bf |-> <<>>, zs |-> FALSE] BY <2>1, SMT DEF Start
  <2>3. Magnitude(c) = c.arg /\ Sign(c) = <<>> BY <1>2, Zenon DEF Magnitude, Sign
  <2> QED BY <2>2, <2>3, SMT
<1> QED BY <1>1, <1>2, Zenon

LEMMA StartPrints ==
  ASSUME NEW c, c.ch \in Numbers, c.arg \in Numerals, NEW base \in {10, 16},
         NEW p \in Nat, \A n \in Numerals : n \in 0 .. p - 1
  PROVE  /\ Printed(Start(c.ch, c.arg), Sign(c), <<>>, base, p, Magnitude(c), 0)
         /\ Magnitude(c) \in Nat /\ Sign(c) \in Seq(Marks)
<1> DEFINE s == Start(c.ch, c.arg)
           u == <<>>
<1>1. u \in Seq(Figures(base)) /\ Len(u) = 0 OBVIOUS
<1>2. Read(u, base) = 0
  <2>1. base \in Nat OBVIOUS
  <2> QED BY <2>1, ReadNothing
<1>3. Sign(c) \in Seq(Marks)
  <2>1. "-" \in Marks BY DEF Marks
  <2>2. <<"-">> \in Seq(Marks) /\ <<>> \in Seq(Marks) BY <2>1
  <2> QED BY <2>2 DEF Sign
<1>4. /\ s = [num |-> Magnitude(c), bf |-> Sign(c), zs |-> FALSE]
      /\ Magnitude(c) \in Numerals
  BY StartIs
<1>5. Magnitude(c) \in 0 .. p - 1 /\ Magnitude(c) \in Nat BY <1>4
<1>6. /\ DOMAIN s = {"num", "bf", "zs"}
      /\ s.num = Magnitude(c) /\ s.bf = Sign(c) /\ s.zs = FALSE
  BY <1>4
<1>7. Sign(c) \o u = Sign(c) BY <1>3
<1> HIDE DEF s, u
<1>8. Read(u, base) * p + s.num = Magnitude(c)
  <2>1. 0 * p = 0 OBVIOUS
  <2> QED BY <1>2, <1>5, <1>6, <2>1
<1>9. s.zs = (Len(u) > 0)
  <2>1. s.zs = FALSE /\ (Len(u) > 0) = FALSE BY <1>1, <1>6
  <2> QED BY ONLY <2>1
<1>10. Len(u) <= 0 /\ (Len(u) > 0 => Digit(u[1]) # 0) BY <1>1
<1>11. Printed(s, Sign(c), u, base, p, Magnitude(c), 0)
  BY <1>1, <1>5, <1>6, <1>7, <1>8, <1>9, <1>10 DEF Printed
<1> QED BY <1>3, <1>5, <1>11 DEF s, u

LEMMA ConvertedIs ==
  ASSUME NEW c, c.ch \in Numbers, c.arg \in Numerals
  PROVE  /\ \E v : Numbered(Converted(c.ch, c.arg), Sign(c), v, NumeralBase(c), Magnitude(c), 5)
         /\ Sign(c) \in Seq(Marks)
<1> DEFINE s == Start(c.ch, c.arg)
           t == Converted(c.ch, c.arg)
           g == Sign(c)
           M == Magnitude(c)
<1>1. 10 \in {10, 16} /\ 16 \in {10, 16} /\ Lower \in Cyphers /\ Upper \in Cyphers
  BY DEF Cyphers
<1>2. /\ TensTop \in Nat /\ \A n \in Numerals : n \in 0 .. TensTop - 1
      /\ SixteensTop \in Nat /\ \A n \in Numerals : n \in 0 .. SixteensTop - 1
  <2>1. TensTop \in Nat /\ SixteensTop \in Nat BY SMT DEF TensTop, SixteensTop
  <2>2. \A n \in Numerals : n \in Nat /\ n <= TensTop - 1 /\ n <= SixteensTop - 1
    BY SMT DEF TensTop, SixteensTop, Numerals
  <2> QED BY <2>1, <2>2
<1>3. /\ Printed(s, g, <<>>, 10, TensTop, M, 0) /\ Printed(s, g, <<>>, 16, SixteensTop, M, 0)
      /\ M \in Nat /\ g \in Seq(Marks)
  BY <1>1, <1>2, StartPrints
<1> HIDE DEF s, g, M
<1>4. CASE c.ch \in {"u", "d"}
  <2>1. t = Tens(s) /\ NumeralBase(c) = 10 BY <1>4 DEF Converted, NumeralBase, s
  <2>2. \E v : Numbered(Tens(s), g, v, 10, M, 5) BY <1>3, TensPrint
  <2> QED BY <1>3, <2>1, <2>2 DEF g, M
<1>5. CASE c.ch \in {"x", "X"}
  <2> DEFINE D == IF c.ch = "x" THEN Lower ELSE Upper
  <2>1. t = Sixteens(s, D) /\ NumeralBase(c) = 16 BY <1>5 DEF Converted, NumeralBase, s
  <2>2. D \in Cyphers BY <1>1
  <2> HIDE DEF D
  <2>3. PICK v : Numbered(Sixteens(s, D), g, v, 16, M, 4) BY <1>3, <2>2, SixteensPrint
  <2>4. Numbered(Sixteens(s, D), g, v, 16, M, 5) BY <2>3 DEF Numbered
  <2> QED BY <1>3, <2>1, <2>4 DEF g, M
<1> QED BY <1>4, <1>5 DEF Numbers

LEMMA MiddleIs ==
  ASSUME NEW S, NEW a \in Seq(S), NEW b \in Seq(S), NEW t \in Seq(S),
         NEW x, x = a \o (b \o t), NEW m, m = Len(a) + 1, NEW n, n = Len(a) + Len(b)
  PROVE  SubSeq(x, m, n) = b
<1> DEFINE s == b \o t
           y == SubSeq(x, m, n)
<1>1. s \in Seq(S) /\ Len(s) = Len(b) + Len(t) /\ \A i \in 1 .. Len(b) : s[i] = b[i]
  <2>1. /\ s \in Seq(S) /\ Len(s) = Len(b) + Len(t)
        /\ \A i \in 1 .. Len(b) + Len(t) : s[i] = IF i <= Len(b) THEN b[i] ELSE t[i - Len(b)]
    BY ConcatProperties
  <2> QED BY <2>1
<1> HIDE DEF s
<1>2. /\ x \in Seq(S) /\ Len(x) = Len(a) + Len(s)
      /\ \A i \in 1 .. Len(a) + Len(s) : x[i] = IF i <= Len(a) THEN a[i] ELSE s[i - Len(a)]
  <2>1. x = a \o s /\ a \in Seq(S) /\ s \in Seq(S) BY <1>1 DEF s
  <2>2. x \in Seq(S) /\ Len(x) = Len(a) + Len(s) BY ONLY <2>1, ConcatProperties
  <2>3. \A i \in 1 .. Len(a) + Len(s) : x[i] = IF i <= Len(a) THEN a[i] ELSE s[i - Len(a)]
    BY ONLY <2>1, ConcatProperties
  <2> QED BY <2>2, <2>3
<1>3. Len(a) \in Nat /\ Len(b) \in Nat /\ Len(t) \in Nat OBVIOUS
<1>4. \A i \in 1 .. Len(b) : x[Len(a) + i] = b[i]
  <2> TAKE i \in 1 .. Len(b)
  <2>1. Len(a) + i \in 1 .. Len(a) + Len(s) BY <1>1, <1>3
  <2>2. ~(Len(a) + i <= Len(a)) /\ Len(a) + i - Len(a) = i BY <1>3
  <2> QED BY <1>1, <1>2, <2>1, <2>2
<1>5. n <= Len(x) /\ m \in Nat /\ n \in Nat /\ m >= 1 BY <1>1, <1>2, <1>3
<1>6. y \in Seq(S) /\ Len(y) = Len(b)
  <2>1. y \in Seq(S) BY <1>2, <1>5
  <2>2. Len(y) = n - m + 1
    <3>1. CASE m <= n BY <1>2, <1>5, <3>1
    <3>2. CASE ~(m <= n)
      <4>1. n - m + 1 = 0 BY <1>3, <3>2
      <4>2. Len(y) = 0 BY <1>2, <1>5, <3>2
      <4> QED BY <4>1, <4>2
    <3> QED BY <3>1, <3>2
  <2> QED BY <1>3, <2>1, <2>2
<1>7. \A i \in 1 .. Len(b) : y[i] = x[Len(a) + i] BY <1>2, <1>3, <1>5
<1> HIDE DEF y
<1>8. \A i \in 1 .. Len(b) : y[i] = b[i] BY <1>4, <1>7
<1>9. y = b
  <2>1. y = [i \in 1 .. Len(y) |-> y[i]] /\ b = [i \in 1 .. Len(b) |-> b[i]] BY <1>6
  <2> QED BY <1>6, <1>8, <2>1
<1> QED BY <1>9 DEF y

(* The padding of a call's text, and what stands in it.                    *)
Padding(c, text) == [k \in 1 .. Pad(c.width % 256, text) |-> IF c.lz THEN "0" ELSE " "]

LEMMA PaddingIs ==
  ASSUME NEW c, c.width \in Nat, NEW text \in Seq(Marks), NEW a, a = Padding(c, text)
  PROVE  /\ a \in Seq(Marks) /\ \A k \in 1 .. Len(a) : a[k] = IF c.lz THEN "0" ELSE " "
         /\ Len(a) \in Nat
         /\ c.width < 256 =>
              Len(a) + Len(text) = IF c.width > Len(text) THEN c.width ELSE Len(text)
<1> DEFINE w == c.width % 256
           n == Pad(w, text)
           x == IF c.lz THEN "0" ELSE " "
<1>1. w \in Nat /\ (c.width < 256 => w = c.width) OBVIOUS
<1>2. Len(text) \in Nat OBVIOUS
<1> HIDE DEF w
<1>3. n \in Nat /\ n + Len(text) = IF w > Len(text) THEN w ELSE Len(text) BY <1>1, <1>2 DEF Pad
<1>4. x \in Marks BY DEF Marks
<1>5. a = [k \in 1 .. n |-> x] BY DEF Padding, w
<1> HIDE DEF n, x
<1>6. a \in Seq(Marks) /\ Len(a) = n /\ \A k \in 1 .. n : a[k] = x BY <1>3, <1>4, <1>5
<1> QED BY <1>1, <1>3, <1>6 DEF x

LEMMA PrintfIs ==
  ASSUME NEW c, c.width \in Nat, NEW text \in Seq(Marks), text = Converted(c.ch, c.arg)
  PROVE  tfp_printf(c) = Padding(c, text) \o text
BY DEF tfp_printf, Padding

LEMMA TextPrints ==
  ASSUME NEW c, c.ch = "s", c.width \in Nat, c.arg \in Seq(STRING), NEW out, out = tfp_printf(c)
  PROVE  \E k \in 1 .. Len(out) + 1 : SubSeq(out, k, Len(out)) = c.arg
<1> DEFINE text == c.arg
           a == Padding(c, text)
           e == <<>>
<1>1. text = Converted(c.ch, c.arg) BY DEF Converted
<1>2. text \in Seq(Marks)
  <2>3. STRING \subseteq Marks BY DEF Marks
  <2>4. \A k \in 1 .. Len(text) : text[k] \in STRING OBVIOUS
  <2>1. \A k \in 1 .. Len(text) : text[k] \in Marks BY <2>3, <2>4
  <2>2. text = [k \in 1 .. Len(text) |-> text[k]] /\ Len(text) \in Nat OBVIOUS
  <2> QED BY <2>1, <2>2
<1>3. out = a \o text BY <1>1, <1>2, PrintfIs
<1>4. a \in Seq(Marks) /\ Len(a) \in Nat BY <1>2, PaddingIs
<1>5. e \in Seq(Marks) OBVIOUS
<1>6. text = text \o e BY <1>2
<1> HIDE DEF text, a, e
<1>7. Len(out) = Len(a) + Len(text) /\ Len(text) \in Nat
  <2>1. Len(a \o text) = Len(a) + Len(text) BY <1>2, <1>4, ConcatProperties
  <2> QED BY <1>2, <1>3, <2>1
<1>8. out = a \o (text \o e) BY <1>3, <1>6
<1> DEFINE m == Len(a) + 1
           n == Len(a) + Len(text)
<1>9. m = Len(a) + 1 /\ n = Len(a) + Len(text) OBVIOUS
<1> HIDE DEF m, n
<1>10. SubSeq(out, m, n) = text BY ONLY <1>2, <1>4, <1>5, <1>8, <1>9, MiddleIs
<1>11. n = Len(out) /\ m \in 1 .. Len(out) + 1 BY <1>4, <1>7, <1>9
<1> QED BY <1>10, <1>11 DEF text

(* What the last n characters of a printed number, and those before, are.  *)
Field(c, out, n) ==
  LET own == Len(Sign(c)) + n
      numeral == SubSeq(out, Len(out) - n + 1, Len(out))
  IN  /\ Len(out) >= own
      /\ IsNumeral(numeral, NumeralBase(c))
      /\ Read(numeral, NumeralBase(c)) = Magnitude(c)
      /\ SubSeq(out, Len(out) - own + 1, Len(out) - n) = Sign(c)
      /\ c.width < 256 => Len(out) = IF c.width > own THEN c.width ELSE own
      /\ \A k \in 1 .. Len(out) - own : out[k] = IF c.lz THEN "0" ELSE " "

LEMMA FiguresMarks ==
  ASSUME NEW base \in {10, 16}, NEW v \in Seq(Figures(base))
  PROVE  v \in Seq(Marks) /\ \A k \in 1 .. Len(v) :
           \E d \in 1 .. base : v[k] \in {Lower[d], Upper[d]}
<1>1. Len(v) \in Nat /\ \A k \in 1 .. Len(v) : v[k] \in Figures(base) OBVIOUS
<1>2. \A y \in Figures(base) : y \in Marks BY FiguresAre
<1>3. v = [k \in 1 .. Len(v) |-> v[k]] OBVIOUS
<1>4. \A k \in 1 .. Len(v) : v[k] \in Marks BY <1>1, <1>2
<1>5. v \in Seq(Marks) BY <1>1, <1>3, <1>4
<1>6. \A y \in Figures(base) : \E d \in 1 .. base : y \in {Lower[d], Upper[d]} BY DEF Figures
<1> QED BY <1>1, <1>5, <1>6

LEMMA NumberPrints ==
  ASSUME NEW c, c.ch \in Numbers, c.arg \in Numerals, c.width \in Nat,
         NEW out, out = tfp_printf(c)
  PROVE  \E n \in 1 .. 5 : Field(c, out, n)
<1> DEFINE text == Converted(c.ch, c.arg)
           base == NumeralBase(c)
           g == Sign(c)
           M == Magnitude(c)
           a == Padding(c, text)
           e == <<>>
<1>1. PICK v : Numbered(text, g, v, base, M, 5) BY ConvertedIs
<1>2. g \in Seq(Marks) BY ConvertedIs
<1>3. base \in {10, 16} BY DEF NumeralBase
<1> HIDE DEF text, base, g, M, a
<1>4. text = g \o v /\ v \in Seq(Figures(base)) /\ Len(v) \in 1 .. 5 BY <1>1 DEF Numbered
<1>5. Read(v, base) = M /\ (Len(v) > 1 => v[1] # "0") BY <1>1 DEF Numbered
<1>6. v \in Seq(Marks) BY <1>3, <1>4, FiguresMarks
<1>7. IsNumeral(v, base)
  <2>1. \A k \in 1 .. Len(v) : \E d \in 1 .. base : v[k] \in {Lower[d], Upper[d]}
    BY <1>3, <1>4, FiguresMarks
  <2> QED BY <1>5, <2>1 DEF IsNumeral
<1>8. text \in Seq(Marks) /\ Len(text) = Len(g) + Len(v)
  <2>1. text = g \o v BY <1>4
  <2>2. text \in Seq(Marks) BY ONLY <2>1, <1>2, <1>6, ConcatProperties
  <2>3. Len(text) = Len(g) + Len(v) BY ONLY <2>1, <1>2, <1>6, ConcatProperties
  <2> QED BY <2>2, <2>3
<1>9. c.width \in Nat /\ a = Padding(c, text) BY DEF a
<1>10. /\ a \in Seq(Marks) /\ \A k \in 1 .. Len(a) : a[k] = IF c.lz THEN "0" ELSE " "
       /\ Len(a) \in Nat
       /\ c.width < 256 =>
            Len(a) + Len(text) = IF c.width > Len(text) THEN c.width ELSE Len(text)
  BY <1>8, <1>9, PaddingIs
<1>11. out = a \o text
  <2>1. text = Converted(c.ch, c.arg) BY DEF text
  <2> QED BY <1>8, <1>9, <2>1, PrintfIs
<1> DEFINE n == Len(v)
           own == Len(g) + n
           L == Len(out)
<1>12. L = Len(a) + own /\ \A k \in 1 .. Len(a) : out[k] = a[k]
  <2>1. a \in Seq(Marks) /\ text \in Seq(Marks) /\ out = a \o text BY <1>8, <1>10, <1>11
  <2>2. Len(out) = Len(a) + Len(text) BY ONLY <2>1, ConcatProperties
  <2>3. \A k \in 1 .. Len(a) + Len(text) :
          out[k] = IF k <= Len(a) THEN a[k] ELSE text[k - Len(a)]
    BY ONLY <2>1, ConcatProperties
  <2>6. Len(a) \in Nat BY <1>10
  <2>7. Len(text) \in Nat BY <1>8
  <2>4. Len(a) \in Nat /\ Len(text) \in Nat BY <2>6, <2>7
  <2>5. \A k \in 1 .. Len(a) : out[k] = a[k]
    <3> TAKE k \in 1 .. Len(a)
    <3>1. k \in 1 .. Len(a) + Len(text) /\ k <= Len(a) BY <2>4
    <3> QED BY <2>3, <3>1
  <2> QED BY <1>8, <2>2, <2>5
<1>13. Len(g) \in Nat /\ n \in 1 .. 5 /\ Len(a) \in Nat
  <2>1. Len(g) \in Nat BY <1>2
  <2>2. n \in 1 .. 5 BY <1>4
  <2>3. Len(a) \in Nat BY <1>10
  <2> QED BY <2>1, <2>2, <2>3
<1>14. L \in Nat /\ own \in Nat /\ L >= own BY <1>12, <1>13
<1>15. SubSeq(out, L - own + 1, L - n) = g
  <2> DEFINE i == L - own + 1
             j == L - n
  <2>1. i = Len(a) + 1 /\ j = Len(a) + Len(g) BY <1>12, <1>13
  <2>2. out = a \o (g \o v) BY <1>4, <1>11
  <2>3. a \in Seq(Marks) BY <1>10
  <2> HIDE DEF i, j
  <2>4. SubSeq(out, i, j) = g BY ONLY <1>2, <1>6, <2>1, <2>2, <2>3, MiddleIs
  <2> QED BY <2>4 DEF i, j
<1>16. SubSeq(out, L - n + 1, L) = v
  <2> DEFINE b == a \o g
             i == L - n + 1
  <2>1. a \in Seq(Marks) BY <1>10
  <2>2. b = a \o g OBVIOUS
  <2>3. e \in Seq(Marks) /\ v \o e = v BY <1>6
  <2> HIDE DEF b, i, e
  <2>4. b \in Seq(Marks) BY ONLY <1>2, <2>1, <2>2, ConcatProperties
  <2>5. Len(b) = Len(a) + Len(g) BY ONLY <1>2, <2>1, <2>2, ConcatProperties
  <2>6. a \o (g \o v) = b \o v BY ONLY <1>2, <1>6, <2>1, <2>2, ConcatAssociative
  <2>7. out = b \o (v \o e) BY <1>4, <1>11, <2>3, <2>6
  <2>8. i = Len(b) + 1 /\ L = Len(b) + Len(v) BY <1>12, <1>13, <2>5 DEF i
  <2> HIDE DEF L
  <2>10. e \in Seq(Marks) BY <2>3
  <2>11. v \in Seq(Marks) BY <1>6
  <2>12. i = Len(b) + 1 BY <2>8
  <2>13. L = Len(b) + Len(v) BY <2>8
  <2>9. SubSeq(out, i, L) = v BY ONLY <2>4, <2>7, <2>10, <2>11, <2>12, <2>13, MiddleIs
  <2> QED BY <2>9 DEF i
<1>17. c.width < 256 => L = IF c.width > own THEN c.width ELSE own
  <2>1. own = Len(text) /\ L = Len(a) + Len(text) BY <1>8, <1>12
  <2> QED BY <1>10, <2>1
<1>18. \A k \in 1 .. L - own : out[k] = IF c.lz THEN "0" ELSE " "
  <2>1. L - own = Len(a) BY <1>12, <1>13
  <2> QED BY <1>10, <1>12, <2>1
<1> HIDE DEF n
<1>19. Field(c, out, n)
  BY <1>5, <1>7, <1>14, <1>15, <1>16, <1>17, <1>18 DEF Field, base, g, M
<1> QED BY <1>13, <1>19

LEMMA WordsAre ==
  /\ \A n \in Words : n \in Numerals
  /\ \A w \in Widths : w \in Nat
  /\ \A t \in Strings : t \in Seq(STRING)
<1>1. ASSUME NEW n \in Words PROVE n \in Nat /\ n <= 65535
  <2>1. n \in Word BY PrintfAssumption, Zenon
  <2> QED BY <2>1, SMT DEF Word
<1>2. \A n \in Words : n \in Numerals BY <1>1, SMT DEF Numerals
<1>3. \A w \in Widths : w \in Nat BY PrintfAssumption, Zenon
<1>4. \A t \in Strings : t \in Seq(STRING) BY PrintfAssumption, Zenon
<1> QED BY <1>2, <1>3, <1>4, Zenon

(* tfp_printf() prints what it is given: a number reads back as it was, in *)
(* the digits of its base, behind its sign and its padding, and a text     *)
(* stands at the end of its field.                                         *)
THEOREM PrintsRight == PrintSpec => []PrintsArgument
<1>1. PrintInit => PrintsArgument BY DEF PrintInit, PrintsArgument
<1>2. ASSUME NEW c \in Calls, call' = c, output' = tfp_printf(c) PROVE PrintsArgument'
  <2>1. c.ch \in Numbers => c.arg \in Numerals
    <3>1. c.ch \in Numbers => c.arg \in Words BY DEF Calls, Numbers
    <3>2. \A n \in Words : n \in Numerals BY WordsAre
    <3> QED BY <3>1, <3>2
  <2>2. c.width \in Nat
    <3>1. c.width \in Widths BY DEF Calls
    <3> QED BY <3>1, WordsAre
  <2>3. c.ch = "s" => c.arg \in Seq(STRING)
    <3>1. c.ch = "s" => c.arg \in Strings BY DEF Calls
    <3> QED BY <3>1, WordsAre
  <2> DEFINE out == tfp_printf(c)
  <2>4. out = tfp_printf(c) OBVIOUS
  <2> HIDE DEF out
  <2>5. c.ch \in Numbers => \E n \in 1 .. 5 : Field(c, out, n)
    BY ONLY <2>1, <2>2, <2>4, NumberPrints
  <2>6. c.ch = "s" => \E k \in 1 .. Len(out) + 1 : SubSeq(out, k, Len(out)) = c.arg
    BY ONLY <2>2, <2>3, <2>4, TextPrints
  <2>7. call' = c /\ output' = out BY <1>2, <2>4
  <2> QED BY <2>5, <2>6, <2>7 DEF PrintsArgument, Field, Numbers
<1>3. PrintsArgument /\ [PrintNext]_printfVars => PrintsArgument'
  <2>1. ASSUME PrintNext PROVE PrintsArgument' BY <1>2, <2>1 DEF PrintNext
  <2>2. ASSUME PrintsArgument, UNCHANGED printfVars PROVE PrintsArgument'
    BY <2>2 DEF PrintsArgument, printfVars
  <2> QED BY <2>1, <2>2
<1> QED BY <1>1, <1>3, PTL DEF PrintSpec

=============================================================================
