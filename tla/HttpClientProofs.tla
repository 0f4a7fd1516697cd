---------------------------- MODULE HttpClientProofs ----------------------------
(***************************************************************************)
(* Proofs about the web client, for any number of connections, sockets and *)
(* file handles and any answers, and for every failure but one: an attempt *)
(* to connect that is given up opens no connection all the same.  That     *)
(* files are closed needs memory for the copy and a FAT32_Close() that     *)
(* succeeds, what is said of the data a copy in which no read or write     *)
(* fails; without these the properties are false.                          *)
(*                                                                         *)
(* The operators of the model work on a record of the whole state; so does *)
(* the invariant, and there is a lemma for each operator.                  *)
(***************************************************************************)
EXTENDS HttpClient, TLAPS, FiniteSetTheorems, SequenceTheorems

Clients == [eth : Conns \cup {NULL}, send : BOOLEAN, captured : Nat, handle : Handles \cup {-1}]
Sockets == [eth : Conns \cup {NULL}, state : States, clen : Nat, full : BOOLEAN,
            alive : 0 .. MAX_ALIVE_TIME + 1]
Heads == {"unsent", "sent", "cut"}
Peers == [asked : BOOLEAN, head : Heads, skipped : Nat, sent : Nat, size : Nat,
          announced : BOOLEAN]
EthStates == {"closed", "syn", "open", "closing"}
Uses == {NULL, "swap", "file"}
Reports == [data : Seq(Nat), size : Nat, state : States, cut : BOOLEAN]

Worlds == [client : Clients, sockets : Seq(Sockets), eth : [Conns -> EthStates],
           server : [Conns -> Peers], files : [Handles -> Uses],
           swap : Seq(Nat) \cup {NULL}, reported : Reports]

-----------------------------------------------------------------------------
(* Lists of at most one socket, and sets of handles.                       *)

(* A nonempty set of natural numbers has a least element.                  *)
LEMMA LeastElement ==
  ASSUME NEW E \in SUBSET Nat, E # {}
  PROVE  Min(E) \in E
<1> DEFINE Less == {ss \in Nat \X Nat : ss[1] < ss[2]}
<1>1. IsWellFoundedOn(Less, Nat)
  BY NatLessThanWellFounded DEF OpToRel
<1>2. PICK k \in E : \A j \in E : <<j, k>> \notin Less
  BY <1>1, WFMin
<1>3. \A j \in E : k <= j
  <2> TAKE j \in E
  <2>1. j \in Nat /\ k \in Nat /\ ~(j < k)
    BY <1>2
  <2> QED  BY <2>1
<1> QED  BY <1>3 DEF Min

LEMMA FreeHandle ==
  ASSUME NEW hs \in SUBSET Handles, hs # {}
  PROVE  Min(hs) \in hs /\ Min(hs) \in Handles
BY ClientAssumption, LeastElement

(* Two handles that are free are two.                                      *)
LEMMA TwoFree ==
  ASSUME NEW hs \in SUBSET Handles, Cardinality(hs) >= 2
  PROVE  /\ Min(hs) \in hs /\ Min(hs \ {Min(hs)}) \in hs
         /\ Min(hs) # Min(hs \ {Min(hs)})
<1>1. IsFiniteSet(hs) /\ Cardinality(hs) \in Nat
  BY ClientAssumption, FS_Subset, FS_CardinalityType
<1>2. hs # {}
  BY <1>1, FS_EmptySet
<1>3. Min(hs) \in hs
  BY <1>2, FreeHandle
<1> DEFINE others == hs \ {Min(hs)}
<1>4. Cardinality(others) = Cardinality(hs) - 1
  BY <1>1, <1>3, FS_RemoveElement
<1>5. others # {}
  BY <1>1, <1>4, FS_EmptySet
<1>6. Min(others) \in others
  BY <1>5, FreeHandle
<1> QED  BY <1>3, <1>6

LEMMA OneElement ==
  ASSUME NEW S, NEW s \in Seq(S), Len(s) <= 1
  PROVE  /\ s # <<>> <=> Len(s) = 1
         /\ s # <<>> => s[1] \in S
         /\ Len(s) \in {0, 1}
<1>1. Len(<<>>) = 0 /\ (s # <<>> => Len(s) \in Nat \ {0})
  BY EmptySeq
<1>2. Len(s) \in Nat
  BY LenProperties
<1>3. s # <<>> <=> Len(s) = 1
  BY <1>1, <1>2
<1>4. Len(s) = 1 => s[1] \in S
  BY ElementOfSeq
<1> QED  BY <1>2, <1>3, <1>4

LEMMA RemoveOnly ==
  ASSUME NEW S, NEW s \in Seq(S), Len(s) = 1
  PROVE  RemoveAt(s, 1) = <<>>
<1>1. SubSeq(s, 1, 1 - 1) = <<>> /\ SubSeq(s, 1 + 1, Len(s)) = <<>>
  BY SubSeqEmpty
<1>2. <<>> \in Seq(S)
  OBVIOUS
<1>3. <<>> \o <<>> = <<>>
  BY <1>2, ConcatEmptySeq
<1> QED  BY <1>1, <1>3 DEF RemoveAt

LEMMA FoundOnly ==
  ASSUME NEW w \in Worlds, Len(w.sockets) <= 1, NEW e
  PROVE  /\ Found(w, e) \in {0, 1}
         /\ Found(w, e) = 1 <=> (w.sockets # <<>> /\ w.sockets[1].eth = e)
<1> DEFINE I == {i \in 1 .. Len(w.sockets) : w.sockets[i].eth = e}
<1>1. Found(w, e) = IF I # {} THEN Min(I) ELSE 0
  BY DEF Found, SelectInSeq
<1>2. w.sockets \in Seq(Sockets)
  BY DEF Worlds
<1>3. Len(w.sockets) \in {0, 1} /\ (w.sockets # <<>> <=> Len(w.sockets) = 1)
  BY <1>2, OneElement
<1>4. I \subseteq {1} /\ (1 \in I <=> (w.sockets # <<>> /\ w.sockets[1].eth = e))
  BY <1>3
<1>5. I # {} => Min(I) = 1
  <2> SUFFICES ASSUME I # {} PROVE Min(I) = 1
    OBVIOUS
  <2>1. I \in SUBSET Nat
    BY <1>4
  <2>2. Min(I) \in I
    BY <2>1, LeastElement
  <2> QED  BY <1>4, <2>2
<1> HIDE DEF I
<1>6. I = {} \/ 1 \in I
  BY <1>4
<1>7. Found(w, e) = IF 1 \in I THEN 1 ELSE 0
  BY <1>1, <1>4, <1>5, <1>6
<1> QED  BY <1>4, <1>7

(* A change of the only socket.                                            *)
LEMMA SocketChanged ==
  ASSUME NEW s \in Seq(Sockets), Len(s) = 1, NEW t \in Sockets
  PROVE  /\ [s EXCEPT ![1] = t] \in Seq(Sockets)
         /\ Len([s EXCEPT ![1] = t]) = 1
         /\ [s EXCEPT ![1] = t][1] = t
BY ExceptSeq

LEMMA GotoState ==
  ASSUME NEW w \in Worlds, Len(w.sockets) = 1, NEW x \in States
  PROVE  LET v == [w EXCEPT !.sockets[1].state = x]
         IN  /\ v \in Worlds /\ Len(v.sockets) = 1
             /\ v.sockets[1] = [w.sockets[1] EXCEPT !.state = x]
             /\ v.client = w.client /\ v.eth = w.eth /\ v.server = w.server
             /\ v.files = w.files /\ v.swap = w.swap /\ v.reported = w.reported
<1> DEFINE t == [w.sockets[1] EXCEPT !.state = x]
           s == [w.sockets EXCEPT ![1] = t]
           v == [w EXCEPT !.sockets = s]
<1>1. w.sockets \in Seq(Sockets) /\ w.sockets[1] \in Sockets
  BY OneElement DEF Worlds
<1>2. t \in Sockets
  BY <1>1 DEF Sockets
<1>3. s \in Seq(Sockets) /\ Len(s) = 1 /\ s[1] = t
  BY <1>1, <1>2, SocketChanged
<1>4. [w EXCEPT !.sockets[1].state = x] = v
  OBVIOUS
<1> HIDE DEF s, t
<1>5. /\ v \in Worlds /\ v.sockets = s
      /\ v.client = w.client /\ v.eth = w.eth /\ v.server = w.server
      /\ v.files = w.files /\ v.swap = w.swap /\ v.reported = w.reported
  BY <1>3 DEF Worlds
<1> HIDE DEF v
<1> QED  BY <1>3, <1>4, <1>5 DEF t

-----------------------------------------------------------------------------
(* The invariant.                                                          *)

(* n units of a body, of which the first m are left out.                   *)
Run(m, n) == [k \in 1 .. n |-> m + k]

(* There is at most one socket, and it is the request's; so is every       *)
(* connection that is not closed.                                          *)
OneSocket(w) ==
  /\ Len(w.sockets) <= 1
  /\ w.client.eth = NULL /\ w.sockets # <<>> => w.sockets[1].eth = NULL /\ w.sockets[1].clen = 0
  /\ w.client.eth # NULL => w.sockets # <<>> /\ w.sockets[1].eth = w.client.eth
  /\ \A c \in Conns : w.eth[c] # "closed" => w.client.eth = c

(* The swap file holds the body so far only for a socket that will save it.*)
Capturing(w) ==
  /\ w.sockets # <<>> /\ w.client.eth # NULL
  /\ w.sockets[1].state \in {"GET_DATA", "DOWNLOAD_COMPLETE", "DISCONNECT"}

SwapKept(w) ==
  w.client.captured > 0 =>
    Capturing(w) /\ w.swap = Run(w.server[w.client.eth].skipped, w.client.captured)

(* The swap file is open only for a socket that will close it.             *)
FilesKept(w) ==
  "close_fails" \notin Faults =>
    /\ \A h \in Handles : w.files[h] = "swap" => Capturing(w)
    /\ \A g, h \in Handles : w.files[g] = "swap" /\ w.files[h] = "swap" => g = h
    /\ "no_memory" \notin Faults => \A h \in Handles : w.files[h] # "file"

(* A unit is skipped only if the end of the header came in two segments.   *)
PeerSound(peer) ==
  /\ peer.sent <= peer.size
  /\ peer.head = "unsent" => peer.sent = 0
  /\ peer.head # "cut" => peer.skipped = 0

PeerKnown(w) ==
  /\ \A c \in Conns : PeerSound(w.server[c])
  /\ w.client.eth # NULL =>
       /\ w.sockets[1].clen \in {0, w.server[w.client.eth].size}
       /\ w.sockets[1].state = "DOWNLOAD_COMPLETE" =>
            w.client.captured = w.server[w.client.eth].size

(* In GET_DATA nothing is missing behind what was skipped: n units are on  *)
(* their way to the file.                                                  *)
InStep(w, n) ==
  w.sockets # <<>> /\ w.sockets[1].state = "GET_DATA" =>
    LET peer == w.server[w.client.eth]
    IN  /\ w.client.eth # NULL /\ w.swap = Run(peer.skipped, w.client.captured)
        /\ peer.head # "unsent" /\ peer.sent = peer.skipped + w.client.captured + n

(* Data in a row, from the first unit of the body on unless the end of its *)
(* header was cut.                                                         *)
Runs(data, cut) ==
  \E m \in Nat : data = Run(m, Len(data)) /\ (~cut => m = 0)

ReportTrue(w) ==
  "copy_fails" \notin Faults =>
    /\ Runs(w.reported.data, w.reported.cut)
    /\ w.reported.state = "DOWNLOAD_COMPLETE" => Len(w.reported.data) = w.reported.size

Sound(w, n) ==
  /\ w \in Worlds /\ OneSocket(w) /\ SwapKept(w) /\ FilesKept(w) /\ PeerKnown(w)
  /\ InStep(w, n) /\ ReportTrue(w)

-----------------------------------------------------------------------------
(* Closing a socket.                                                       *)

OutcomeType == [disconnects : BOOLEAN, makes : BOOLEAN, opens : BOOLEAN, writes : BOOLEAN,
                memory : May("no_memory"), stuck : Stucks, copies : Copies]

LEMMA RunCut ==
  ASSUME NEW m \in Nat, NEW n \in Nat
  PROVE  /\ Run(m, n) \in Seq(Nat) /\ Len(Run(m, n)) = n
         /\ SubSeq(Run(m, n), 1, n) = Run(m, n)
         /\ \A k \in 1 .. n : Run(m, n)[k] = m + k
<1>1. \A k \in 1 .. n : m + k \in Nat
  OBVIOUS
<1>2. Run(m, n) \in Seq(Nat) /\ Len(Run(m, n)) = n
  BY <1>1 DEF Run
<1>3. SubSeq(Run(m, n), 1, n) = Run(m, n)
  BY <1>2, SubSeqFull
<1> QED  BY <1>2, <1>3 DEF Run

(* A copy is the file it is made of, unless a read or a write fails.       *)
LEMMA CopyTyped ==
  ASSUME NEW units \in Seq(Nat), Len(units) > 0, NEW o \in OutcomeType
  PROVE  /\ Copied(units, o.copies) \in Seq(Nat)
         /\ "copy_fails" \notin Faults => Copied(units, o.copies) = units
<1>1. units # <<>>
  BY EmptySeq
<1>2. Tail(units) \in Seq(Nat)
  BY <1>1, HeadTailProperties
<1>3. [units EXCEPT ![1] = 0] \in Seq(Nat)
  BY ExceptSeq
<1>4. "copy_fails" \notin Faults => o.copies = "whole"
  BY DEF OutcomeType, Copies
<1> QED  BY <1>2, <1>3, <1>4 DEF Copied

(* What a close does to the open files.                                    *)
SwapFreed(w, v) ==
  \A h \in Handles : v.files[h] = IF w.files[h] = "swap" THEN NULL ELSE w.files[h]

LEMMA SwapClosed ==
  ASSUME NEW w \in Worlds, NEW o \in OutcomeType,
         "close_fails" \notin Faults =>
           \A g, h \in Handles : w.files[g] = "swap" /\ w.files[h] = "swap" => g = h
  PROVE  LET v == CloseSwap(w, o)
         IN  /\ v \in Worlds /\ ("close_fails" \notin Faults => SwapFreed(w, v))
             /\ v.client = w.client \/ v.client = [w.client EXCEPT !.captured = 0]
             /\ v.sockets = w.sockets /\ v.eth = w.eth
             /\ v.server = w.server /\ v.swap = w.swap /\ v.reported = w.reported
<1> DEFINE v == CloseSwap(w, o)
           hs == OpenFor(w, "swap")
<1>1. CASE hs = {}
  <2>1. v = w
    BY <1>1 DEF CloseSwap
  <2>2. \A h \in Handles : w.files[h] # "swap"
    BY <1>1 DEF OpenFor
  <2> QED  BY <2>1, <2>2 DEF SwapFreed
<1>2. CASE hs # {} /\ "first" \in o.stuck
  <2> DEFINE cl == [w.client EXCEPT !.captured = 0]
  <2>1. v = [w EXCEPT !.client = cl]
    BY <1>2 DEF CloseSwap
  <2>2. cl \in Clients
    BY DEF Worlds, Clients
  <2>3. "close_fails" \in Faults
    BY <1>2 DEF OutcomeType, Stucks
  <2> HIDE DEF cl
  <2>4. [w EXCEPT !.client = cl] \in Worlds
    BY <2>2 DEF Worlds
  <2> QED  BY <2>1, <2>3, <2>4 DEF Worlds, cl
<1>3. CASE hs # {} /\ "first" \notin o.stuck
  <2> DEFINE m == Min(hs)
             fs == [h \in Handles |-> IF h \in {m} THEN NULL ELSE w.files[h]]
  <2>1. m \in hs /\ m \in Handles
    BY <1>3, FreeHandle DEF OpenFor
  <2>2. "close_fails" \notin Faults => hs = {m}
    BY <2>1 DEF OpenFor
  <2>3. v = [w EXCEPT !.files = fs]
    BY <1>3 DEF CloseSwap, CloseAll
  <2> HIDE DEF m
  <2>4. fs \in [Handles -> Uses]
    BY DEF Worlds, Uses
  <2>5. "close_fails" \notin Faults =>
          \A h \in Handles : fs[h] = IF w.files[h] = "swap" THEN NULL ELSE w.files[h]
    BY <2>2 DEF OpenFor
  <2> HIDE DEF fs
  <2>6. [w EXCEPT !.files = fs] \in Worlds /\ [w EXCEPT !.files = fs].files = fs
    BY <2>4 DEF Worlds
  <2> QED  BY <2>3, <2>5, <2>6 DEF Worlds, SwapFreed
<1> QED  BY <1>1, <1>2, <1>3

(* Everything but the files stays as it is.                                *)
SameButFiles(w, v) ==
  /\ v.client = w.client /\ v.sockets = w.sockets /\ v.eth = w.eth
  /\ v.server = w.server /\ v.swap = w.swap /\ v.reported = w.reported

LEMMA FilesPut ==
  ASSUME NEW w \in Worlds, NEW fs \in [Handles -> Uses]
  PROVE  LET v == [w EXCEPT !.files = fs]
         IN  v \in Worlds /\ v.files = fs /\ SameButFiles(w, v)
BY DEF Worlds, SameButFiles

LEMMA StayTyped ==
  ASSUME NEW w \in Worlds, NEW stay
  PROVE  LET v == Stay(w, stay)
         IN  /\ v \in Worlds /\ SameButFiles(w, v)
             /\ stay = {} => v.files = w.files
             /\ \A x \in Handles : v.files[x] = "swap" => x = Min(Free(w)) \/ w.files[x] = "swap"
<1> DEFINE h == Min(Free(w))
           g == Min(Free(w) \ {h})
           fs == [x \in Handles |-> CASE x = h /\ "swap" \in stay -> "swap"
                                      [] x = g /\ "file" \in stay -> "file"
                                      [] OTHER -> w.files[x]]
<1>1. Stay(w, stay) = [w EXCEPT !.files = fs]
  BY DEF Stay
<1> HIDE DEF h, g
<1>2. w.files \in [Handles -> Uses]
  BY DEF Worlds
<1>3. fs \in [Handles -> Uses]
  BY <1>2 DEF Uses
<1>4. stay = {} => fs = w.files
  BY <1>2
<1>5. \A x \in Handles : fs[x] = "swap" => x = h \/ w.files[x] = "swap"
  OBVIOUS
<1> HIDE DEF fs
<1> QED  BY <1>1, <1>3, <1>4, <1>5, FilesPut DEF h

LEMMA StayOneTyped ==
  ASSUME NEW w \in Worlds, NEW o \in OutcomeType
  PROVE  LET v == StayOne(w, o)
         IN  /\ v \in Worlds /\ SameButFiles(w, v)
             /\ "close_fails" \notin Faults => v.files = w.files
<1> DEFINE v == StayOne(w, o)
<1>1. "close_fails" \notin Faults => o.stuck = {}
  BY DEF OutcomeType, Stucks
<1>2. \/ v = w
      \/ o.stuck # {} /\ \E use \in {"swap", "file"} : v = [w EXCEPT !.files[Min(Free(w))] = use]
  BY DEF StayOne
<1>3. CASE v = w
  BY <1>3 DEF SameButFiles
<1>4. ASSUME o.stuck # {}, NEW use \in {"swap", "file"}, v = [w EXCEPT !.files[Min(Free(w))] = use]
      PROVE  v \in Worlds /\ SameButFiles(w, v) /\ "close_fails" \in Faults
  <2> DEFINE fs == [w.files EXCEPT ![Min(Free(w))] = use]
  <2>1. fs \in [Handles -> Uses]
    BY DEF Worlds, Uses
  <2>2. v = [w EXCEPT !.files = fs]
    BY <1>4
  <2> HIDE DEF fs, v
  <2> QED  BY <1>1, <1>4, <2>1, <2>2, FilesPut
<1> QED  BY <1>2, <1>3, <1>4

LEMMA ReleaseTyped ==
  ASSUME NEW w \in Worlds, Len(w.sockets) = 1
  PROVE  LET v == Release(w, 1)
         IN  /\ v \in Worlds /\ v.client = NoRequest /\ v.sockets = <<>> /\ v.eth = w.eth
             /\ v.files = w.files /\ v.swap = w.swap /\ v.reported = w.reported
             /\ \A c \in Conns : v.server[c] \in {w.server[c], NoServer}
<1> DEFINE ps == [c \in Conns |-> IF c = w.sockets[1].eth THEN NoServer ELSE w.server[c]]
           v == [w EXCEPT !.sockets = <<>>, !.client = NoRequest, !.server = ps]
<1>1. w.sockets \in Seq(Sockets) /\ w.server \in [Conns -> Peers]
  BY DEF Worlds
<1>2. RemoveAt(w.sockets, 1) = <<>> /\ <<>> \in Seq(Sockets)
  BY <1>1, RemoveOnly
<1>3. NoRequest \in Clients /\ NoServer \in Peers
  BY ClientAssumption DEF NoRequest, Clients, NoServer, Peers, Heads
<1>4. Release(w, 1) = v
  BY <1>2 DEF Release
<1>5. ps \in [Conns -> Peers] /\ \A c \in Conns : ps[c] \in {w.server[c], NoServer}
  BY <1>1, <1>3
<1> HIDE DEF ps
<1>6. /\ v \in Worlds /\ v.client = NoRequest /\ v.sockets = <<>> /\ v.eth = w.eth
      /\ v.files = w.files /\ v.swap = w.swap /\ v.reported = w.reported /\ v.server = ps
  BY <1>2, <1>3, <1>5 DEF Worlds
<1> HIDE DEF v
<1> QED  BY <1>4, <1>5, <1>6

(* What a close leaves behind: everything as it was, nothing of the        *)
(* request, or the request with its files open.                            *)
Disconnected(w, v) ==
  \A c \in Conns : v.eth[c] = IF c = w.sockets[1].eth THEN "closed" ELSE w.eth[c]

(* The report of a download: what was captured, as far as it was copied.   *)
ReportOf(w, r) ==
  LET peer == w.server[w.client.eth]
  IN  /\ w.client.captured > 0
      /\ "copy_fails" \notin Faults => r.data = Run(peer.skipped, w.client.captured)
      /\ r.size = peer.size /\ r.state = w.sockets[1].state
      /\ r.cut <=> peer.head = "cut"

Released(w, v) ==
  /\ v \in Worlds /\ Disconnected(w, v)
  /\ v.client = NoRequest /\ v.sockets = <<>>
  /\ \A c \in Conns : v.server[c] \in {w.server[c], NoServer}
  /\ "close_fails" \notin Faults => SwapFreed(w, v)
  /\ v.reported = w.reported \/ ReportOf(w, v.reported)

LeftOpen(w, v, o) ==
  /\ v \in Worlds /\ Disconnected(w, v) /\ v.server = w.server /\ ~o.memory
  /\ v.sockets = w.sockets /\ v.reported = w.reported /\ v.swap = w.swap
  /\ \E h \in Handles :
       /\ v.client = [w.client EXCEPT !.handle = h]
       /\ "close_fails" \notin Faults => \A g \in Handles : v.files[g] = "swap" => g = h
  /\ w.client.captured > 0

(* SaveFile(): the request is over, and reported if both files open.       *)
LEMMA SaveCases ==
  ASSUME NEW w \in Worlds, Len(w.sockets) = 1, w.client.captured > 0, w.client.eth \in Conns,
         w.sockets[1].eth = w.client.eth, NEW o \in OutcomeType,
         w.swap = Run(w.server[w.client.eth].skipped, w.client.captured)
  PROVE  LET v == SaveFile(w, 1, o)
         IN  /\ v \in Worlds /\ v.client = NoRequest /\ v.sockets = <<>> /\ v.eth = w.eth
             /\ \A c \in Conns : v.server[c] \in {w.server[c], NoServer}
             /\ "close_fails" \notin Faults => v.files = w.files
             /\ v.reported = w.reported \/ ReportOf(w, v.reported)
<1> DEFINE peer == w.server[w.client.eth]
           units == Run(peer.skipped, w.client.captured)
           rep == [data |-> Copied(units, o.copies), size |-> peer.size,
                   state |-> w.sockets[1].state, cut |-> peer.head = "cut"]
           both == Stay(w, o.stuck)
           one == StayOne(w, o)
           v == SaveFile(w, 1, o)
<1>1. peer \in Peers /\ w.client.captured \in Nat \ {0} /\ w.sockets[1] \in Sockets
  BY OneElement DEF Worlds, Clients
<1>2. units \in Seq(Nat) /\ Len(units) > 0 /\ SubSeq(w.swap, 1, w.client.captured) = units
  <2>1. peer.skipped \in Nat
    BY <1>1 DEF Peers
  <2> HIDE DEF peer
  <2>2. w.swap = units
    BY DEF peer
  <2>3. /\ units \in Seq(Nat) /\ Len(units) = w.client.captured
        /\ SubSeq(units, 1, w.client.captured) = units
    BY <1>1, <2>1, RunCut
  <2> QED  BY <1>1, <2>2, <2>3
<1>3. \/ v = [Release(both, 1) EXCEPT !.swap = NULL, !.reported = rep]
      \/ v = [Release(one, 1) EXCEPT !.swap = NULL]
  BY <1>2 DEF SaveFile
<1> HIDE DEF v, units, peer
<1>4. /\ Copied(units, o.copies) \in Seq(Nat)
      /\ "copy_fails" \notin Faults => Copied(units, o.copies) = units
  BY <1>2, CopyTyped
<1>5. peer.size \in Nat /\ w.sockets[1].state \in States /\ (peer.head = "cut") \in BOOLEAN
  BY <1>1 DEF Peers, Sockets
<1>6. rep \in Reports
  BY <1>4, <1>5 DEF Reports
<1>7. ReportOf(w, rep)
  BY <1>1, <1>4 DEF ReportOf, peer, units
<1>8. /\ both \in Worlds /\ SameButFiles(w, both) /\ one \in Worlds /\ SameButFiles(w, one)
      /\ "close_fails" \notin Faults => both.files = w.files /\ one.files = w.files
  <2>1. "close_fails" \notin Faults => o.stuck = {}
    BY DEF OutcomeType, Stucks
  <2> QED  BY <2>1, StayTyped, StayOneTyped
<1> HIDE DEF rep, both, one
<1>9. ASSUME NEW u \in Worlds, SameButFiles(w, u), "close_fails" \notin Faults => u.files = w.files,
             \/ v = [Release(u, 1) EXCEPT !.swap = NULL, !.reported = rep]
             \/ v = [Release(u, 1) EXCEPT !.swap = NULL]
      PROVE  /\ v \in Worlds /\ v.client = NoRequest /\ v.sockets = <<>> /\ v.eth = w.eth
             /\ \A c \in Conns : v.server[c] \in {w.server[c], NoServer}
             /\ "close_fails" \notin Faults => v.files = w.files
             /\ v.reported = w.reported \/ ReportOf(w, v.reported)
  <2> DEFINE r == Release(u, 1)
  <2>1. /\ r \in Worlds /\ r.client = NoRequest /\ r.sockets = <<>> /\ r.eth = w.eth
        /\ r.files = u.files /\ r.reported = w.reported
        /\ \A c \in Conns : r.server[c] \in {w.server[c], NoServer}
    <3>1. u.sockets = w.sockets /\ u.eth = w.eth /\ u.server = w.server /\ u.reported = w.reported
      BY <1>9 DEF SameButFiles
    <3> QED  BY <3>1, ReleaseTyped
  <2>2. v = [r EXCEPT !.swap = NULL, !.reported = rep] \/ v = [r EXCEPT !.swap = NULL]
    BY <1>9
  <2> HIDE DEF r
  <2>3. /\ v \in Worlds /\ v.client = r.client /\ v.sockets = r.sockets /\ v.eth = r.eth
        /\ v.server = r.server /\ v.files = r.files /\ v.reported \in {r.reported, rep}
    BY <1>6, <2>1, <2>2 DEF Worlds
  <2> QED  BY <1>7, <1>9, <2>1, <2>3
<1>10. QED
  BY <1>3, <1>8, <1>9 DEF v

LEMMA CloseCases ==
  ASSUME NEW w, NEW n, Sound(w, n), w.sockets # <<>>, NEW o \in OutcomeType
  PROVE  LET v == close_client_socket(w, 1, o)
         IN  v = w \/ Released(w, v) \/ LeftOpen(w, v, o)
<1> DEFINE e == w.sockets[1].eth
           closed == [c \in Conns |-> IF c = e THEN "closed" ELSE w.eth[c]]
           cut == [w EXCEPT !.eth = closed]
           gone == CloseSwap(cut, o)
           saving == gone.client.captured > 0 /\ gone.swap # NULL
           v == close_client_socket(w, 1, o)
<1>1. w \in Worlds /\ w.sockets \in Seq(Sockets) /\ Len(w.sockets) = 1 /\ w.sockets[1] \in Sockets
  BY OneElement DEF Sound, OneSocket, Worlds
<1>2. closed \in [Conns -> EthStates]
  BY <1>1 DEF Worlds, EthStates
<1> HIDE DEF closed
<1>3. /\ cut \in Worlds /\ cut.eth = closed /\ cut.client = w.client /\ cut.sockets = w.sockets
      /\ cut.server = w.server /\ cut.files = w.files /\ cut.swap = w.swap
      /\ cut.reported = w.reported
  BY <1>1, <1>2 DEF Worlds
<1> HIDE DEF cut
<1>4. /\ gone \in Worlds /\ gone.eth = closed /\ gone.sockets = w.sockets
      /\ gone.server = w.server /\ gone.swap = w.swap /\ gone.reported = w.reported
      /\ gone.client = w.client \/ gone.client = [w.client EXCEPT !.captured = 0]
      /\ "close_fails" \notin Faults => SwapFreed(w, gone)
  <2>1. "close_fails" \notin Faults =>
          \A g, h \in Handles : cut.files[g] = "swap" /\ cut.files[h] = "swap" => g = h
    BY <1>3 DEF Sound, FilesKept
  <2> QED  BY <1>3, <2>1, SwapClosed DEF SwapFreed
<1>5. \/ v = w
      \/ v = Release(gone, 1)
      \/ saving /\ ~o.memory /\ Cardinality(Free(gone)) >= 2 /\ v = LeaveOpen(gone)
      \/ saving /\ v = SaveFile(gone, 1, o)
  BY DEF close_client_socket, cut, closed
<1> HIDE DEF gone, v
<1>6. ASSUME v = Release(gone, 1) PROVE Released(w, v)
  BY <1>1, <1>4, <1>6, ReleaseTyped DEF Released, Disconnected, closed, SwapFreed
<1>7. ASSUME saving
      PROVE  /\ gone.client = w.client /\ w.client.captured > 0 /\ w.client.eth \in Conns
             /\ w.sockets[1].eth = w.client.eth
             /\ w.swap = Run(w.server[w.client.eth].skipped, w.client.captured)
  <2>1. gone.client = w.client
    BY <1>1, <1>4, <1>7 DEF Worlds, Clients
  <2> QED  BY <1>1, <1>7, <2>1 DEF Sound, SwapKept, OneSocket, Capturing, Worlds, Clients
<1>8. ASSUME saving, v = SaveFile(gone, 1, o) PROVE Released(w, v)
  <2>1. /\ v \in Worlds /\ v.client = NoRequest /\ v.sockets = <<>> /\ v.eth = closed
        /\ \A c \in Conns : v.server[c] \in {w.server[c], NoServer}
        /\ "close_fails" \notin Faults => v.files = gone.files
        /\ v.reported = w.reported \/ ReportOf(gone, v.reported)
    BY <1>1, <1>4, <1>7, <1>8, SaveCases
  <2>2. ReportOf(gone, v.reported) => ReportOf(w, v.reported)
    BY <1>4, <1>7, <1>8 DEF ReportOf
  <2> QED  BY <1>4, <2>1, <2>2 DEF Released, Disconnected, closed, SwapFreed
<1>9. ASSUME saving, ~o.memory, Cardinality(Free(gone)) >= 2, v = LeaveOpen(gone)
      PROVE  LeftOpen(w, v, o)
  <2> DEFINE h == Min(Free(gone))
             u == Stay(gone, {"swap", "file"})
             cl == [w.client EXCEPT !.handle = h]
  <2>1. h \in Handles
    BY <1>9, TwoFree DEF Free
  <2>2. u \in Worlds /\ SameButFiles(gone, u)
        /\ \A x \in Handles : u.files[x] = "swap" => x = h \/ gone.files[x] = "swap"
    BY <1>4, StayTyped
  <2>3. v = [u EXCEPT !.client.handle = h]
    BY <1>9 DEF LeaveOpen
  <2> HIDE DEF h, u
  <2>4. u.client = w.client /\ w.client.captured > 0
    BY <1>7, <1>9, <2>2 DEF SameButFiles
  <2>5. cl \in Clients
    BY <1>1, <2>1 DEF Worlds, Clients
  <2>6. v = [u EXCEPT !.client = cl]
    BY <2>3, <2>4
  <2> HIDE DEF cl
  <2>7. /\ v \in Worlds /\ v.eth = closed /\ v.client = cl /\ v.sockets = w.sockets
        /\ v.server = w.server /\ v.files = u.files /\ v.swap = w.swap /\ v.reported = w.reported
    BY <1>4, <2>2, <2>5, <2>6 DEF Worlds, SameButFiles
  <2>8. "close_fails" \notin Faults => \A x \in Handles : v.files[x] = "swap" => x = h
    BY <1>4, <2>2, <2>7, ClientAssumption DEF SwapFreed
  <2> QED  BY <1>9, <2>1, <2>4, <2>7, <2>8 DEF LeftOpen, Disconnected, closed, cl
<1> QED  BY <1>5, <1>6, <1>8, <1>9 DEF v

(* A report is the end of the request.                                     *)
Ends(w, v) == v.reported # w.reported => w.client.eth # NULL /\ v.client.eth = NULL

LEMMA ReleasedSound ==
  ASSUME NEW w, NEW v, NEW n, Sound(w, n), w.sockets # <<>>, Released(w, v)
  PROVE  Sound(v, n) /\ Ends(w, v) /\ v.client.eth = NULL
<1>1. /\ v \in Worlds /\ v.client = NoRequest /\ v.sockets = <<>>
      /\ v.client.eth = NULL /\ v.client.captured = 0 /\ Len(v.sockets) = 0
  BY EmptySeq DEF Released, NoRequest
<1>2. \A c \in Conns : v.eth[c] = "closed"
  <2> TAKE c \in Conns
  <2>1. v.eth[c] = IF c = w.sockets[1].eth THEN "closed" ELSE w.eth[c]
    BY DEF Released, Disconnected
  <2>2. w.eth[c] # "closed" => w.client.eth = c /\ c # NULL
    BY ClientAssumption DEF Sound, OneSocket
  <2>3. w.client.eth # NULL => w.sockets[1].eth = w.client.eth
    BY DEF Sound, OneSocket
  <2> QED  BY <2>1, <2>2, <2>3
<1>3. OneSocket(v)
  BY <1>1, <1>2 DEF OneSocket
<1>4. SwapKept(v) /\ InStep(v, n)
  BY <1>1 DEF SwapKept, InStep
<1>5. FilesKept(v)
  BY ClientAssumption DEF Sound, FilesKept, Released, SwapFreed
<1>6. PeerKnown(v)
  <2>1. PeerSound(NoServer)
    BY DEF NoServer, PeerSound
  <2>2. \A c \in Conns : PeerSound(w.server[c])
    BY DEF Sound, PeerKnown
  <2> QED  BY <1>1, <2>1, <2>2 DEF PeerKnown, Released
<1>7. ReportTrue(v) /\ Ends(w, v)
  <2>1. CASE v.reported = w.reported
    BY <2>1 DEF Sound, ReportTrue, Ends
  <2>2. CASE ReportOf(w, v.reported)
    <3> DEFINE peer == w.server[w.client.eth]
    <3>1. w.client.eth # NULL /\ w.client.eth \in Conns
      BY <2>2 DEF Sound, SwapKept, Capturing, ReportOf, Worlds, Clients
    <3>2. w.client.captured \in Nat /\ peer \in Peers /\ PeerSound(peer)
      BY <3>1 DEF Sound, PeerKnown, Worlds, Clients
    <3>3. w.sockets[1].state = "DOWNLOAD_COMPLETE" => w.client.captured = peer.size
      BY <3>1 DEF Sound, PeerKnown
    <3>4. /\ "copy_fails" \notin Faults => v.reported.data = Run(peer.skipped, w.client.captured)
          /\ v.reported.size = peer.size /\ v.reported.state = w.sockets[1].state
          /\ v.reported.cut <=> peer.head = "cut"
      BY <2>2 DEF ReportOf
    <3> HIDE DEF peer
    <3>5. peer.skipped \in Nat /\ (peer.head # "cut" => peer.skipped = 0)
      BY <3>2 DEF Peers, PeerSound
    <3>6. Len(Run(peer.skipped, w.client.captured)) = w.client.captured
      BY <3>2, <3>5, RunCut
    <3>7. ReportTrue(v)
      BY <3>3, <3>4, <3>5, <3>6 DEF ReportTrue, Runs
    <3> QED  BY <1>1, <3>1, <3>7 DEF Ends
  <2> QED  BY <2>1, <2>2 DEF Released
<1> QED  BY <1>1, <1>3, <1>4, <1>5, <1>6, <1>7 DEF Sound

LEMMA LeftOpenSound ==
  ASSUME NEW w, NEW v, NEW n, NEW o \in OutcomeType, Sound(w, n), w.sockets # <<>>, LeftOpen(w, v, o)
  PROVE  Sound(v, n) /\ Ends(w, v) /\ v.client.eth = w.client.eth
<1>1. PICK h \in Handles :
        /\ v.client = [w.client EXCEPT !.handle = h]
        /\ "close_fails" \notin Faults => \A g \in Handles : v.files[g] = "swap" => g = h
  BY DEF LeftOpen
<1>2. w.client \in Clients
  BY DEF Sound, Worlds
<1>3. /\ v \in Worlds /\ v.sockets = w.sockets /\ v.reported = w.reported /\ v.swap = w.swap
      /\ v.server = w.server /\ v.client.eth = w.client.eth
      /\ v.client.captured = w.client.captured /\ w.client.captured > 0
  BY <1>1, <1>2 DEF LeftOpen, Clients
<1>4. Capturing(w) /\ Capturing(v)
  BY <1>3 DEF Sound, SwapKept, Capturing
<1>5. "no_memory" \in Faults
  BY DEF OutcomeType, May, LeftOpen
<1>6. OneSocket(v)
  <2>1. \A c \in Conns : v.eth[c] # "closed" => w.eth[c] # "closed"
    BY DEF LeftOpen, Disconnected
  <2> QED  BY <1>3, <2>1 DEF Sound, OneSocket
<1>7. SwapKept(v)
  BY <1>3, <1>4 DEF Sound, SwapKept
<1>8. FilesKept(v)
  BY <1>1, <1>4, <1>5 DEF FilesKept
<1>9. PeerKnown(v) /\ InStep(v, n) /\ ReportTrue(v) /\ Ends(w, v)
  BY <1>3 DEF Sound, PeerKnown, InStep, ReportTrue, Ends
<1> QED  BY <1>3, <1>6, <1>7, <1>8, <1>9 DEF Sound

(* close_client_socket() keeps the invariant, whatever fails in it; the    *)
(* socket stays as it is or is gone.                                       *)
LEMMA CloseSound ==
  ASSUME NEW w, NEW n, Sound(w, n), w.sockets # <<>>, NEW o \in OutcomeType
  PROVE  LET v == close_client_socket(w, 1, o)
         IN  /\ Sound(v, n) /\ Ends(w, v)
             /\ \/ v.sockets = w.sockets /\ v.client.eth = w.client.eth /\ v.reported = w.reported
                \/ v.sockets = <<>> /\ v.client.eth = NULL
<1> DEFINE v == close_client_socket(w, 1, o)
<1> SUFFICES /\ Sound(v, n) /\ Ends(w, v)
             /\ \/ v.sockets = w.sockets /\ v.client.eth = w.client.eth /\ v.reported = w.reported
                \/ v.sockets = <<>> /\ v.client.eth = NULL
  OBVIOUS
<1>1. v = w \/ Released(w, v) \/ LeftOpen(w, v, o)
  BY CloseCases
<1> HIDE DEF v
<1>2. CASE v = w
  BY <1>2 DEF Ends
<1>3. CASE Released(w, v)
  <2>1. v.sockets = <<>>
    BY <1>3 DEF Released
  <2> QED  BY <1>3, <2>1, ReleasedSound
<1>4. CASE LeftOpen(w, v, o)
  <2>1. v.sockets = w.sockets /\ v.reported = w.reported
    BY <1>4 DEF LeftOpen
  <2> QED  BY <1>4, <2>1, LeftOpenSound
<1> QED  BY <1>1, <1>2, <1>3, <1>4

(* OPEN_FILE is left in the call that enters it.                           *)
NotOpening(w) == w.sockets # <<>> => w.sockets[1].state # "OPEN_FILE"

(* The two closes at the end of a download.                                *)
LEMMA CloseTwiceSound ==
  ASSUME NEW w, NEW n, Sound(w, n), w.sockets # <<>>, NotOpening(w),
         NEW o \in [1 .. 2 -> OutcomeType]
  PROVE  Sound(CloseTwice(w, 1, o), n) /\ Ends(w, CloseTwice(w, 1, o))
           /\ NotOpening(CloseTwice(w, 1, o))
<1> DEFINE once == close_client_socket(w, 1, o[1])
<1>1. o[1] \in OutcomeType /\ o[2] \in OutcomeType
  OBVIOUS
<1>2. /\ Sound(once, n) /\ Ends(w, once)
      /\ \/ once.sockets = w.sockets /\ once.client.eth = w.client.eth /\ once.reported = w.reported
         \/ once.sockets = <<>> /\ once.client.eth = NULL
  BY <1>1, CloseSound
<1>3. CloseTwice(w, 1, o) = IF Len(once.sockets) < Len(w.sockets) THEN once
                            ELSE close_client_socket(once, 1, o[2])
  BY DEF CloseTwice
<1> HIDE DEF once
<1>4. Len(w.sockets) = 1 /\ Len(<<>>) = 0
  BY OneElement, EmptySeq DEF Sound, Worlds, OneSocket
<1>5. CASE once.sockets = <<>>
  <2>1. CloseTwice(w, 1, o) = once
    BY <1>3, <1>4, <1>5
  <2> QED  BY <1>2, <1>5, <2>1 DEF NotOpening
<1>6. CASE once.sockets # <<>>
  <2>1. once.sockets = w.sockets /\ once.client.eth = w.client.eth /\ once.reported = w.reported
    BY <1>2, <1>6
  <2>2. CloseTwice(w, 1, o) = close_client_socket(once, 1, o[2])
    BY <1>3, <1>4, <2>1
  <2> DEFINE v == close_client_socket(once, 1, o[2])
  <2>3. /\ Sound(v, n) /\ Ends(once, v)
        /\ v.sockets = once.sockets \/ v.sockets = <<>>
    BY <1>1, <1>2, <1>6, CloseSound
  <2> HIDE DEF v
  <2>4. NotOpening(v)
    BY <2>1, <2>3 DEF NotOpening
  <2> QED  BY <2>1, <2>2, <2>3, <2>4 DEF Ends, v
<1> QED  BY <1>5, <1>6

-----------------------------------------------------------------------------
(* The handler, state by state.                                            *)

SameButSockets(w, v) ==
  /\ v.client = w.client /\ v.eth = w.eth /\ v.server = w.server
  /\ v.files = w.files /\ v.swap = w.swap /\ v.reported = w.reported

(* What the socket may be changed to.                                      *)
LEMMA SocketStep ==
  ASSUME NEW w, NEW v, NEW n, NEW m, NEW t \in Sockets, Sound(w, n), w.sockets # <<>>,
         v \in Worlds, Len(v.sockets) = 1, v.sockets[1] = t, SameButSockets(w, v),
         t.eth = w.sockets[1].eth,
         IF w.client.eth = NULL THEN t.clen = 0 ELSE t.clen \in {0, w.server[w.client.eth].size},
         Capturing(w) => Capturing(v),
         t.state = "DOWNLOAD_COMPLETE" /\ w.client.eth # NULL =>
           w.client.captured = w.server[w.client.eth].size,
         InStep(v, m)
  PROVE  Sound(v, m) /\ Ends(w, v)
<1>1. v.sockets # <<>>
  BY OneElement DEF Worlds
<1>2. OneSocket(v)
  BY <1>1 DEF Sound, OneSocket, SameButSockets
<1>3. SwapKept(v) /\ FilesKept(v)
  BY DEF Sound, SwapKept, FilesKept, SameButSockets
<1>4. PeerKnown(v)
  BY DEF Sound, PeerKnown, SameButSockets
<1>5. ReportTrue(v) /\ Ends(w, v)
  BY DEF Sound, ReportTrue, SameButSockets, Ends
<1> QED  BY <1>2, <1>3, <1>4, <1>5 DEF Sound

(* Any socket but one in GET_DATA lets what it is sent go by.              *)
LEMMA UnitsLost ==
  ASSUME NEW w, NEW n, NEW m, Sound(w, n), w.sockets # <<>> => w.sockets[1].state # "GET_DATA"
  PROVE  Sound(w, m)
BY DEF Sound, InStep

LEMMA SocketType ==
  ASSUME NEW w, NEW n, Sound(w, n), w.sockets # <<>>
  PROVE  /\ w \in Worlds /\ w.sockets \in Seq(Sockets) /\ Len(w.sockets) = 1
         /\ w.sockets[1] \in Sockets
         /\ w.client.eth # NULL => w.client.eth \in Conns /\ w.sockets[1].eth = w.client.eth
BY OneElement DEF Sound, OneSocket, Worlds, Clients

(* Waiting in DISCONNECT for the next packet or the beat.                  *)
LEMMA GivenUp ==
  ASSUME NEW w, NEW n, NEW m, Sound(w, n), w.sockets # <<>>
  PROVE  LET v == [w EXCEPT !.sockets[1].state = "DISCONNECT"]
         IN  Sound(v, m) /\ NotOpening(v) /\ Ends(w, v) /\ v.sockets # <<>>
<1> DEFINE v == [w EXCEPT !.sockets[1].state = "DISCONNECT"]
           t == [w.sockets[1] EXCEPT !.state = "DISCONNECT"]
<1>1. w \in Worlds /\ Len(w.sockets) = 1 /\ w.sockets[1] \in Sockets
  BY SocketType
<1>2. "DISCONNECT" \in States
  BY DEF States
<1>3. v \in Worlds /\ Len(v.sockets) = 1 /\ v.sockets[1] = t /\ SameButSockets(w, v)
  BY <1>1, <1>2, GotoState DEF SameButSockets
<1>4. t \in Sockets /\ t.state = "DISCONNECT" /\ t.eth = w.sockets[1].eth /\ t.clen = w.sockets[1].clen
  BY <1>1, <1>2 DEF Sockets
<1> HIDE DEF t
<1> SUFFICES Sound(v, m) /\ NotOpening(v) /\ Ends(w, v) /\ v.sockets # <<>>
  OBVIOUS
<1> HIDE DEF v
<1>5. v.sockets # <<>>
  BY <1>3, OneElement DEF Worlds
<1>6. InStep(v, m) /\ NotOpening(v) /\ (Capturing(w) => Capturing(v))
  BY <1>3, <1>4, <1>5 DEF InStep, NotOpening, Capturing, SameButSockets
<1>7. IF w.client.eth = NULL THEN t.clen = 0 ELSE t.clen \in {0, w.server[w.client.eth].size}
  BY <1>4 DEF Sound, OneSocket, PeerKnown
<1> QED  BY <1>3, <1>4, <1>5, <1>6, <1>7, SocketStep

LEMMA RunMore ==
  ASSUME NEW m \in Nat, NEW a \in Nat, NEW n \in Nat, NEW units \in Seq(Nat), Len(units) = n,
         \A k \in 1 .. n : units[k] = m + a + k
  PROVE  Run(m, a) \o units = Run(m, a + n)
<1> DEFINE b == Run(m, a)
           l == b \o units
           r == Run(m, a + n)
<1>1. /\ b \in Seq(Nat) /\ Len(b) = a /\ \A k \in 1 .. a : b[k] = m + k
      /\ r \in Seq(Nat) /\ Len(r) = a + n /\ \A k \in 1 .. a + n : r[k] = m + k
  <2>1. b \in Seq(Nat) /\ Len(b) = a /\ \A k \in 1 .. a : b[k] = m + k
    BY RunCut
  <2> DEFINE c == a + n
  <2>2. c \in Nat
    OBVIOUS
  <2> HIDE DEF c
  <2>3. Run(m, c) \in Seq(Nat) /\ Len(Run(m, c)) = c /\ \A k \in 1 .. c : Run(m, c)[k] = m + k
    BY <2>2, RunCut
  <2> QED  BY <2>1, <2>3 DEF c
<1> HIDE DEF b
<1>2. /\ l \in Seq(Nat) /\ Len(l) = a + n
      /\ \A k \in 1 .. a + n : l[k] = IF k <= a THEN b[k] ELSE units[k - a]
  <2>1. b \in Seq(Nat) /\ units \in Seq(Nat)
    BY <1>1
  <2>2. /\ l \in Seq(Nat) /\ Len(l) = Len(b) + Len(units)
        /\ \A k \in 1 .. Len(b) + Len(units) :
             l[k] = IF k <= Len(b) THEN b[k] ELSE units[k - Len(b)]
    BY <2>1, ConcatProperties
  <2> QED  BY <1>1, <2>2
<1>3. \A k \in 1 .. a + n : l[k] = m + k
  <2> TAKE k \in 1 .. a + n
  <2>1. CASE k <= a
    BY <1>1, <1>2, <2>1
  <2>2. CASE ~(k <= a)
    <3>1. k - a \in 1 .. n /\ m + a + (k - a) = m + k
      BY <2>2
    <3> QED  BY <1>2, <2>2, <3>1
  <2> QED  BY <2>1, <2>2
<1> HIDE DEF l, r
<1>4. l = r
  BY <1>1, <1>2, <1>3, SeqEqual
<1> QED  BY <1>4 DEF b, l, r

(* FAT32_WriteSwap(): the body goes on where it has stopped, or the        *)
(* download is given up.                                                   *)
LEMMA StoreSound ==
  ASSUME NEW w, NEW units \in Seq(Nat), Sound(w, Len(units)), w.sockets # <<>>,
         w.sockets[1].state = "GET_DATA",
         \A k \in 1 .. Len(units) :
           units[k] = w.server[w.client.eth].skipped + w.client.captured + k,
         NEW o \in OutcomeType
  PROVE  LET v == Store(w, 1, units, o)
         IN  /\ Sound(v, 0) /\ NotOpening(v) /\ Ends(w, v) /\ v.sockets # <<>>
             /\ v.client.eth = w.client.eth /\ v.server = w.server
             /\ v.sockets[1].state = "GET_DATA" => v.sockets = w.sockets
<1> DEFINE n == Len(units)
           peer == w.server[w.client.eth]
           swp == w.swap \o units
           cl == [w.client EXCEPT !.captured = @ + n]
           v == [w EXCEPT !.swap = swp, !.client = cl]
<1>1. /\ w \in Worlds /\ w.client \in Clients /\ w.client.captured \in Nat /\ n \in Nat
      /\ w.swap = Run(peer.skipped, w.client.captured) /\ w.client.eth # NULL
      /\ peer.head # "unsent" /\ peer.sent = peer.skipped + w.client.captured + n
      /\ peer.skipped \in Nat /\ peer.sent \in Nat
  BY LenProperties DEF Sound, InStep, Worlds, Clients, Peers
<1>2. swp = Run(peer.skipped, w.client.captured + n) /\ swp \in Seq(Nat)
  <2> DEFINE a == w.client.captured
             m == peer.skipped
  <2>1. m \in Nat /\ a \in Nat /\ n \in Nat /\ \A k \in 1 .. n : units[k] = m + a + k
    BY <1>1
  <2>2. swp = Run(m, a) \o units
    BY <1>1
  <2> HIDE DEF a, m, n, swp
  <2>3. Run(m, a) \o units = Run(m, a + n)
    BY <2>1, RunMore DEF n
  <2>4. a + n \in Nat
    BY <2>1
  <2>5. Run(m, a + n) \in Seq(Nat)
    BY <2>1, <2>4, RunCut
  <2> QED  BY <2>2, <2>3, <2>5 DEF a, m
<1>3. cl \in Clients /\ cl.captured = w.client.captured + n /\ cl.eth = w.client.eth
  <2> HIDE DEF n, peer
  <2>1. w.client \in Clients /\ n \in Nat
    BY <1>1
  <2> QED  BY <2>1 DEF Clients
<1>4. CASE Writes(w, o)
  <2>1. Store(w, 1, units, o) = v
    BY <1>4 DEF Store, Capture
  <2> HIDE DEF swp, cl
  <2>2. /\ v \in Worlds /\ v.sockets = w.sockets /\ v.eth = w.eth /\ v.server = w.server
        /\ v.files = w.files /\ v.reported = w.reported /\ v.swap = swp /\ v.client = cl
    BY <1>1, <1>2, <1>3 DEF Worlds
  <2> HIDE DEF v
  <2>3. OneSocket(v)
    BY <1>3, <2>2 DEF Sound, OneSocket
  <2>4. SwapKept(v) /\ FilesKept(v)
    BY <1>1, <1>2, <1>3, <2>2 DEF Sound, SwapKept, FilesKept, Capturing
  <2>5. PeerKnown(v)
    BY <1>3, <2>2 DEF Sound, PeerKnown
  <2>6. InStep(v, 0)
    <3>1. v.server[v.client.eth] = peer /\ v.client.captured = w.client.captured + n
      BY <1>3, <2>2
    <3>2. v.client.eth # NULL /\ v.swap = Run(peer.skipped, v.client.captured)
      BY <1>1, <1>2, <1>3, <2>2, <3>1
    <3> HIDE DEF peer, n
    <3>3. peer.head # "unsent" /\ peer.sent = peer.skipped + v.client.captured + 0
      BY <1>1, <3>1
    <3> QED  BY <3>1, <3>2, <3>3 DEF InStep
  <2>7. ReportTrue(v) /\ Ends(w, v) /\ NotOpening(v)
    BY <2>2 DEF Sound, ReportTrue, Ends, NotOpening
  <2>8. Sound(v, 0)
    BY <2>2, <2>3, <2>4, <2>5, <2>6, <2>7 DEF Sound
  <2> QED  BY <1>3, <2>1, <2>2, <2>7, <2>8
<1>5. CASE ~Writes(w, o)
  <2> DEFINE u == [w EXCEPT !.sockets[1].state = "DISCONNECT"]
  <2>1. Store(w, 1, units, o) = u
    BY <1>5 DEF Store
  <2>2. Sound(u, 0) /\ NotOpening(u) /\ Ends(w, u) /\ u.sockets # <<>>
    BY GivenUp
  <2>3. u.client = w.client /\ u.server = w.server /\ u.sockets[1].state = "DISCONNECT"
    <3>1. w.sockets[1] \in Sockets /\ Len(w.sockets) = 1 /\ "DISCONNECT" \in States
      BY SocketType DEF States
    <3>2. u.sockets[1] = [w.sockets[1] EXCEPT !.state = "DISCONNECT"]
          /\ u.client = w.client /\ u.server = w.server
      BY <1>1, <3>1, GotoState
    <3> HIDE DEF u
    <3> QED  BY <3>1, <3>2 DEF Sockets
  <2> HIDE DEF u
  <2> QED  BY <2>1, <2>2, <2>3
<1> QED  BY <1>4, <1>5

(* The alive counter of the only socket.                                   *)
LEMMA AliveSound ==
  ASSUME NEW w, NEW n, Sound(w, n), w.sockets # <<>>,
         NEW s \in Seq(Sockets), Len(s) = 1, NEW a, s[1] = [w.sockets[1] EXCEPT !.alive = a]
  PROVE  LET v == [w EXCEPT !.sockets = s]
         IN  /\ Sound(v, n) /\ Ends(w, v) /\ SameButSockets(w, v) /\ v.sockets = s /\ v.sockets # <<>>
             /\ v.sockets[1].state = w.sockets[1].state /\ v.sockets[1].clen = w.sockets[1].clen
             /\ v.sockets[1].eth = w.sockets[1].eth
<1> DEFINE v == [w EXCEPT !.sockets = s]
<1>1. w \in Worlds /\ w.sockets[1] \in Sockets /\ s[1] \in Sockets
  BY SocketType, OneElement
<1>2. v \in Worlds /\ v.sockets = s /\ SameButSockets(w, v)
  BY <1>1 DEF Worlds, SameButSockets
<1>3. /\ s[1].state = w.sockets[1].state /\ s[1].clen = w.sockets[1].clen
      /\ s[1].eth = w.sockets[1].eth
  BY <1>1 DEF Sockets
<1> SUFFICES Sound(v, n) /\ Ends(w, v) /\ v.sockets # <<>>
  BY <1>2, <1>3
<1> HIDE DEF v
<1>4. v.sockets # <<>>
  BY <1>2, OneElement
<1>5. InStep(v, n) /\ (Capturing(w) => Capturing(v))
  BY <1>2, <1>3, <1>4 DEF Sound, InStep, Capturing, SameButSockets
<1>6. IF w.client.eth = NULL THEN s[1].clen = 0 ELSE s[1].clen \in {0, w.server[w.client.eth].size}
  BY <1>3 DEF Sound, OneSocket, PeerKnown
<1>7. s[1].state = "DOWNLOAD_COMPLETE" /\ w.client.eth # NULL =>
        w.client.captured = w.server[w.client.eth].size
  BY <1>3 DEF Sound, PeerKnown
<1> QED  BY <1>1, <1>2, <1>3, <1>4, <1>5, <1>6, <1>7, SocketStep

(* What a socket that is not capturing says of the files.                  *)
LEMMA NothingCaptured ==
  ASSUME NEW w, NEW n, Sound(w, n), w.sockets # <<>>,
         w.sockets[1].state \notin {"GET_DATA", "DOWNLOAD_COMPLETE", "DISCONNECT"}
  PROVE  /\ w.client.captured = 0
         /\ "close_fails" \notin Faults => \A h \in Handles : w.files[h] # "swap"
<1>1. ~Capturing(w)
  BY DEF Capturing
<1>2. w.client.captured \in Nat /\ ~(w.client.captured > 0)
  BY <1>1 DEF Sound, SwapKept, Worlds, Clients
<1> QED  BY <1>1, <1>2 DEF Sound, FilesKept

(* The swap file is made and opened; the units behind the header are the   *)
(* first of the body, or the first behind what was taken for a header.     *)
LEMMA OpenSound ==
  ASSUME NEW w, NEW n, NEW g, Sound(w, n), w.sockets # <<>>, w.sockets[1].state = "OPEN_FILE",
         w.client.eth # NULL, g.units \in Seq(Nat), w.server[w.client.eth].head # "unsent",
         w.server[w.client.eth].sent = w.server[w.client.eth].skipped + Len(g.units),
         \A k \in 1 .. Len(g.units) : g.units[k] = w.server[w.client.eth].skipped + k,
         NEW o \in OutcomeType
  PROVE  Sound(open_file(w, 1, g, o), 0) /\ NotOpening(open_file(w, 1, g, o))
           /\ Ends(w, open_file(w, 1, g, o))
<1> DEFINE m == Len(g.units)
           peer == w.server[w.client.eth]
           h == Min(Free(w))
<1>1. /\ w \in Worlds /\ w.client \in Clients /\ Len(w.sockets) = 1 /\ w.sockets[1] \in Sockets
      /\ w.files \in [Handles -> Uses] /\ m \in Nat /\ peer.skipped \in Nat /\ peer.sent \in Nat
  BY SocketType, LenProperties DEF Worlds, Clients, Peers
<1>2. /\ w.client.captured = 0
      /\ "close_fails" \notin Faults => \A k \in Handles : w.files[k] # "swap"
  BY NothingCaptured
<1>3. <<>> \in Seq(Nat) /\ <<>> = Run(peer.skipped, 0)
  BY DEF Run
<1>4. CASE ~o.makes
  <2>1. open_file(w, 1, g, o) = [w EXCEPT !.sockets[1].state = "DISCONNECT"]
    BY <1>4 DEF open_file
  <2> QED  BY <2>1, GivenUp
<1>5. CASE o.makes /\ (~o.opens \/ Free(w) = {})
  <2> DEFINE cl == [w.client EXCEPT !.handle = -1]
             v == [w EXCEPT !.swap = <<>>, !.client = cl]
  <2>1. open_file(w, 1, g, o) = [v EXCEPT !.sockets[1].state = "DISCONNECT"]
    BY <1>5 DEF open_file
  <2>2. cl \in Clients /\ cl.eth = w.client.eth /\ cl.captured = w.client.captured
    BY <1>1 DEF Clients
  <2> HIDE DEF cl
  <2>3. /\ v \in Worlds /\ v.client = cl /\ v.sockets = w.sockets /\ v.eth = w.eth
        /\ v.server = w.server /\ v.files = w.files /\ v.reported = w.reported
    BY <1>1, <1>3, <2>2 DEF Worlds
  <2> HIDE DEF v
  <2>4. OneSocket(v) /\ PeerKnown(v) /\ ReportTrue(v) /\ Ends(w, v)
    BY <2>2, <2>3 DEF Sound, OneSocket, PeerKnown, ReportTrue, Ends
  <2>5. SwapKept(v) /\ FilesKept(v)
    BY <1>2, <2>2, <2>3 DEF Sound, SwapKept, FilesKept
  <2>6. InStep(v, 0)
    BY <2>3 DEF InStep
  <2>7. Sound(v, 0) /\ v.sockets # <<>>
    BY <2>3, <2>4, <2>5, <2>6 DEF Sound
  <2>8. Ends(v, open_file(w, 1, g, o))
    BY <2>1, <2>7, GivenUp
  <2> QED  BY <2>1, <2>2, <2>3, <2>7, <2>8, GivenUp DEF Ends
<1>6. CASE o.makes /\ o.opens /\ Free(w) # {}
  <2> DEFINE cl == [w.client EXCEPT !.handle = h]
             fs == [w.files EXCEPT ![h] = "swap"]
             u == [w EXCEPT !.swap = <<>>, !.files = fs, !.client = cl]
             v == [u EXCEPT !.sockets[1].state = "GET_DATA"]
             t == [w.sockets[1] EXCEPT !.state = "GET_DATA"]
  <2>1. open_file(w, 1, g, o) = Store(v, 1, g.units, o)
    BY <1>6 DEF open_file, MakeSwap
  <2>2. h \in Handles
    BY <1>6, FreeHandle DEF Free
  <2> HIDE DEF h
  <2>3. cl \in Clients /\ cl.eth = w.client.eth /\ cl.captured = w.client.captured
    BY <1>1, <2>2 DEF Clients
  <2>4. /\ fs \in [Handles -> Uses]
        /\ "close_fails" \notin Faults => \A k \in Handles : fs[k] = "swap" => k = h
        /\ \A k \in Handles : fs[k] = "file" => w.files[k] = "file"
    BY <1>1, <1>2, <2>2 DEF Uses
  <2> HIDE DEF cl, fs
  <2>5. /\ u \in Worlds /\ u.client = cl /\ u.sockets = w.sockets /\ u.eth = w.eth
        /\ u.server = w.server /\ u.files = fs /\ u.reported = w.reported /\ u.swap = <<>>
    BY <1>1, <1>3, <2>3, <2>4 DEF Worlds
  <2> HIDE DEF u
  <2>6. "GET_DATA" \in States
    BY DEF States
  <2>7. t \in Sockets /\ t.state = "GET_DATA" /\ t.eth = w.sockets[1].eth /\ t.clen = w.sockets[1].clen
    BY <1>1, <2>6 DEF Sockets
  <2>8. /\ v \in Worlds /\ Len(v.sockets) = 1 /\ v.sockets[1] = t /\ v.client = cl
        /\ v.eth = w.eth /\ v.server = w.server /\ v.files = fs /\ v.swap = <<>>
        /\ v.reported = w.reported
    BY <1>1, <2>5, <2>6, GotoState
  <2> HIDE DEF v, t
  <2>9. v.sockets # <<>>
    BY <2>8, OneElement DEF Worlds
  <2>10. OneSocket(v)
    BY <2>3, <2>7, <2>8, <2>9 DEF Sound, OneSocket
  <2>11. Capturing(v)
    BY <2>3, <2>7, <2>8, <2>9 DEF Capturing
  <2>12. SwapKept(v) /\ FilesKept(v)
    BY <1>2, <2>3, <2>4, <2>8, <2>11 DEF Sound, SwapKept, FilesKept
  <2>13. PeerKnown(v) /\ ReportTrue(v) /\ Ends(w, v)
    BY <2>3, <2>7, <2>8 DEF Sound, PeerKnown, ReportTrue, Ends
  <2>14. InStep(v, m)
    BY <1>1, <1>2, <1>3, <2>3, <2>8 DEF InStep
  <2>15. Sound(v, m)
    BY <2>8, <2>10, <2>12, <2>13, <2>14 DEF Sound
  <2>16. \A k \in 1 .. m : g.units[k] = v.server[v.client.eth].skipped + v.client.captured + k
    <3>1. v.client.captured = 0 /\ v.server[v.client.eth] = peer
      BY <1>2, <2>3, <2>8
    <3> HIDE DEF peer
    <3>2. \A k \in 1 .. m : g.units[k] = peer.skipped + k
      BY DEF peer
    <3> QED  BY <1>1, <3>1, <3>2
  <2> DEFINE x == Store(v, 1, g.units, o)
  <2>17. Sound(x, 0) /\ NotOpening(x) /\ Ends(v, x)
    BY <2>7, <2>8, <2>9, <2>15, <2>16, StoreSound
  <2> HIDE DEF x
  <2>18. Ends(w, x)
    BY <2>3, <2>8, <2>17 DEF Ends
  <2> QED  BY <2>1, <2>17, <2>18 DEF x
<1> QED  BY <1>4, <1>5, <1>6 DEF OutcomeType

LEMMA SocketPut ==
  ASSUME NEW w \in Worlds, Len(w.sockets) = 1, NEW t \in Sockets
  PROVE  LET v == [w EXCEPT !.sockets = [w.sockets EXCEPT ![1] = t]]
         IN  /\ v \in Worlds /\ Len(v.sockets) = 1 /\ v.sockets[1] = t /\ v.sockets # <<>>
             /\ SameButSockets(w, v)
<1> DEFINE s == [w.sockets EXCEPT ![1] = t]
           v == [w EXCEPT !.sockets = s]
<1>1. w.sockets \in Seq(Sockets)
  BY DEF Worlds
<1>2. s \in Seq(Sockets) /\ Len(s) = 1 /\ s[1] = t
  BY <1>1, SocketChanged
<1> HIDE DEF s
<1>3. v \in Worlds /\ v.sockets = s /\ SameButSockets(w, v)
  BY <1>2 DEF Worlds, SameButSockets
<1>4. s # <<>>
  BY <1>2, OneElement
<1> QED  BY <1>2, <1>3, <1>4 DEF s

(* Step 1.                                                                 *)
LEMMA SendSound ==
  ASSUME NEW w, NEW n, Sound(w, n), w.sockets # <<>>, w.sockets[1].state = "SEND_REQUEST",
         w.client.eth # NULL
  PROVE  Sound(send_request(w, 1), 0) /\ NotOpening(send_request(w, 1)) /\ Ends(w, send_request(w, 1))
<1> DEFINE e == w.sockets[1].eth
           t == [w.sockets[1] EXCEPT !.state = "GET_RESPONSE"]
           u == [w EXCEPT !.sockets = [w.sockets EXCEPT ![1] = t]]
           peers == [w.server EXCEPT ![e].asked = TRUE]
           v == [u EXCEPT !.server = peers]
<1>1. /\ w \in Worlds /\ Len(w.sockets) = 1 /\ w.sockets[1] \in Sockets /\ e \in Conns
      /\ e = w.client.eth /\ w.server \in [Conns -> Peers]
  BY SocketType DEF Worlds
<1>2. send_request(w, 1) = v
  <2>1. send_request(w, 1) =
          [[w EXCEPT !.sockets = [w.sockets EXCEPT ![1].state = "GET_RESPONSE"]]
             EXCEPT !.server = [w.server EXCEPT ![e].asked = TRUE]]
    BY DEF send_request
  <2> QED  BY <2>1
<1>3. t \in Sockets /\ t.state = "GET_RESPONSE" /\ t.eth = w.sockets[1].eth /\ t.clen = w.sockets[1].clen
  BY <1>1 DEF Sockets, States
<1>4. u \in Worlds /\ Len(u.sockets) = 1 /\ u.sockets[1] = t /\ u.sockets # <<>> /\ SameButSockets(w, u)
  BY <1>1, <1>3, SocketPut
<1>5. /\ peers \in [Conns -> Peers]
      /\ \A c \in Conns : /\ peers[c].head = w.server[c].head /\ peers[c].sent = w.server[c].sent
                          /\ peers[c].size = w.server[c].size
                          /\ peers[c].skipped = w.server[c].skipped
  BY <1>1 DEF Peers
<1> HIDE DEF e, t, u, peers
<1>6. Sound(u, 0) /\ Ends(w, u)
  <2>1. InStep(u, 0)
    BY <1>3, <1>4 DEF InStep
  <2>2. ~Capturing(w)
    BY DEF Capturing
  <2>3. IF w.client.eth = NULL THEN t.clen = 0 ELSE t.clen \in {0, w.server[w.client.eth].size}
    BY <1>3 DEF Sound, OneSocket, PeerKnown
  <2> QED  BY <1>3, <1>4, <2>1, <2>2, <2>3, SocketStep
<1>7. /\ v \in Worlds /\ v.sockets = u.sockets /\ v.client = u.client /\ v.eth = u.eth
      /\ v.files = u.files /\ v.swap = u.swap /\ v.reported = u.reported /\ v.server = peers
  BY <1>4, <1>5 DEF Worlds
<1> HIDE DEF v
<1>8. /\ u.client = w.client /\ u.server = w.server /\ w.client.eth \in Conns
      /\ u.reported = w.reported
  BY <1>1, <1>4 DEF SameButSockets
<1>9. OneSocket(v) /\ SwapKept(v) /\ FilesKept(v)
  BY <1>5, <1>6, <1>7, <1>8 DEF Sound, OneSocket, SwapKept, FilesKept, Capturing
<1>10. PeerKnown(v)
  BY <1>5, <1>6, <1>7, <1>8 DEF Sound, PeerKnown, PeerSound
<1>11. InStep(v, 0) /\ NotOpening(v)
  BY <1>3, <1>4, <1>7 DEF InStep, NotOpening
<1>12. ReportTrue(v) /\ Ends(w, v)
  BY <1>6, <1>7, <1>8 DEF Sound, ReportTrue, Ends
<1>13. Sound(v, 0)
  BY <1>7, <1>9, <1>10, <1>11, <1>12 DEF Sound
<1> QED  BY <1>2, <1>11, <1>12, <1>13

(* What a segment for the request's connection can be, the server's count  *)
(* of what it has sent being what it is with this segment.  Only a header  *)
(* whose end was cut has units of body before the end that is seen.        *)
Hears(w, g) ==
  LET peer == w.server[w.client.eth]
      n == Len(g.units)
  IN  /\ w.sockets # <<>> /\ w.client.eth # NULL
      /\ g.units \in Seq(Nat) /\ n <= peer.sent
      /\ \A k \in 1 .. n : g.units[k] = peer.sent - n + k
      /\ g.reads = "end" =>
           /\ peer.head # "unsent" /\ g.skip \in 0 .. n
           /\ peer.head # "cut" => g.skip = 0 /\ peer.sent = n

(* What of a segment goes to the swap file is the body behind what was     *)
(* skipped.                                                                *)
Opening(w, g) ==
  LET peer == w.server[w.client.eth]
  IN  /\ g.units \in Seq(Nat) /\ peer.head # "unsent"
      /\ peer.sent = peer.skipped + Len(g.units)
      /\ \A k \in 1 .. Len(g.units) : g.units[k] = peer.skipped + k

LEMMA BehindSegment ==
  ASSUME NEW g, g.units \in Seq(Nat), g.skip \in 0 .. Len(g.units)
  PROVE  LET units == Behind(g).units
         IN  /\ units \in Seq(Nat) /\ Len(units) = Len(g.units) - g.skip
             /\ \A k \in 1 .. Len(units) : units[k] = g.units[g.skip + k]
<1> DEFINE m == g.skip + 1
           n == Len(g.units)
           units == SubSeq(g.units, m, n)
<1>1. Behind(g).units = units
  BY DEF Behind, NoData
<1>2. m \in Int /\ n \in Int /\ n \in Nat /\ g.skip \in Nat /\ m <= n + 1
  BY LenProperties
<1>3. \A i \in m .. n : g.units[i] \in Nat
  <2> TAKE i \in m .. n
  <2>1. i \in 1 .. Len(g.units)
    BY <1>2
  <2> QED  BY <2>1, ElementOfSeq
<1>4. /\ units \in Seq(Nat) /\ Len(units) = IF m <= n THEN n - m + 1 ELSE 0
      /\ \A i \in 1 .. n - m + 1 : units[i] = g.units[m + i - 1]
  <2> HIDE DEF m, n
  <2> QED  BY <1>2, <1>3, SubSeqProperties
<1> HIDE DEF units
<1>5. Len(units) = n - g.skip
  BY <1>2, <1>4
<1>6. \A k \in 1 .. Len(units) : units[k] = g.units[g.skip + k]
  <2> TAKE k \in 1 .. Len(units)
  <2> DEFINE q == g.skip
  <2>1. q \in Nat /\ n \in Nat /\ m = q + 1 /\ Len(units) = n - q /\ k \in 1 .. Len(units)
    BY <1>2, <1>5
  <2> HIDE DEF m, n, q
  <2>2. k \in 1 .. n - m + 1 /\ m + k - 1 = q + k
    BY <2>1
  <2>3. units[k] = g.units[m + k - 1]
    BY <1>4, <2>2
  <2> QED  BY <2>2, <2>3 DEF q
<1> QED  BY <1>1, <1>4, <1>5, <1>6

(* Step 2: only an end leads on to OPEN_FILE.                              *)
LEMMA ResponseSound ==
  ASSUME NEW w, NEW n, NEW g, Sound(w, n), Hears(w, g), w.sockets[1].state = "GET_RESPONSE",
         NEW o \in OutcomeType
  PROVE  LET v == get_response(w, 1, g, o)
         IN  \/ /\ Sound(v, 0) /\ NotOpening(v) /\ Ends(w, v)
                /\ ~(Len(v.sockets) = Len(w.sockets) /\ v.sockets[1].state = "OPEN_FILE")
             \/ /\ Sound(v, 0) /\ Opening(v, Behind(g)) /\ v.sockets # <<>>
                /\ Len(v.sockets) = Len(w.sockets) /\ v.sockets[1].state = "OPEN_FILE"
                /\ v.client = w.client /\ v.reported = w.reported
<1> DEFINE v == get_response(w, 1, g, o)
           e == w.sockets[1].eth
           peer == w.server[e]
           clen == IF peer.announced THEN peer.size ELSE 0
           skipped == peer.sent - Len(Behind(g).units)
<1> SUFFICES \/ /\ Sound(v, 0) /\ NotOpening(v) /\ Ends(w, v)
                /\ ~(Len(v.sockets) = Len(w.sockets) /\ v.sockets[1].state = "OPEN_FILE")
             \/ /\ Sound(v, 0) /\ Opening(v, Behind(g)) /\ v.sockets # <<>>
                /\ Len(v.sockets) = Len(w.sockets) /\ v.sockets[1].state = "OPEN_FILE"
                /\ v.client = w.client /\ v.reported = w.reported
  OBVIOUS
<1>1. /\ w \in Worlds /\ Len(w.sockets) = 1 /\ w.sockets[1] \in Sockets /\ w.sockets # <<>>
      /\ w.client.eth \in Conns /\ w.client.eth # NULL /\ e = w.client.eth
      /\ w.server \in [Conns -> Peers]
  BY SocketType DEF Worlds, Hears
<1>2. ~Capturing(w)
  BY DEF Capturing
<1>3. \/ v = close_client_socket(w, 1, o)
      \/ v = [w EXCEPT !.sockets[1].full = TRUE]
      \/ v = [w EXCEPT !.sockets[1].state = "DISCONNECT"]
      \/ /\ g.reads = "end"
         /\ v = [w EXCEPT !.sockets[1].state = "OPEN_FILE", !.sockets[1].clen = clen,
                          !.server[e].skipped = skipped]
      \/ v = w
  BY DEF get_response
<1> HIDE DEF v
<1>4. CASE v = close_client_socket(w, 1, o)
  <2>1. /\ Sound(v, n) /\ Ends(w, v)
        /\ v.sockets = w.sockets \/ v.sockets = <<>>
    BY <1>1, <1>4, CloseSound
  <2>2. NotOpening(v) /\ ~(Len(v.sockets) = Len(w.sockets) /\ v.sockets[1].state = "OPEN_FILE")
    BY <1>1, <2>1, EmptySeq DEF NotOpening
  <2>3. v.sockets # <<>> => v.sockets[1].state # "GET_DATA"
    BY <2>1
  <2>4. Sound(v, 0)
    BY <2>1, <2>3, UnitsLost
  <2> QED  BY <2>1, <2>2, <2>4
<1>5. CASE v = [w EXCEPT !.sockets[1].full = TRUE]
  <2> DEFINE t == [w.sockets[1] EXCEPT !.full = TRUE]
  <2>1. v = [w EXCEPT !.sockets = [w.sockets EXCEPT ![1] = t]]
    BY <1>5
  <2>2. t \in Sockets /\ t.state = "GET_RESPONSE" /\ t.eth = w.sockets[1].eth /\ t.clen = w.sockets[1].clen
    BY <1>1 DEF Sockets
  <2> HIDE DEF t
  <2>3. v \in Worlds /\ Len(v.sockets) = 1 /\ v.sockets[1] = t /\ v.sockets # <<>> /\ SameButSockets(w, v)
    BY <1>1, <2>1, <2>2, SocketPut
  <2>4. InStep(v, 0) /\ NotOpening(v)
    BY <2>2, <2>3 DEF InStep, NotOpening
  <2>5. IF w.client.eth = NULL THEN t.clen = 0 ELSE t.clen \in {0, w.server[w.client.eth].size}
    BY <1>1, <2>2 DEF Sound, OneSocket, PeerKnown
  <2>6. Sound(v, 0) /\ Ends(w, v)
    BY <1>1, <1>2, <2>2, <2>3, <2>4, <2>5, SocketStep
  <2> QED  BY <2>2, <2>3, <2>4, <2>6
<1>6. CASE v = [w EXCEPT !.sockets[1].state = "DISCONNECT"]
  <2>1. Sound(v, 0) /\ NotOpening(v) /\ Ends(w, v) /\ v.sockets # <<>>
    BY <1>1, <1>6, GivenUp
  <2>2. v.sockets[1].state # "OPEN_FILE"
    BY <2>1 DEF NotOpening
  <2> QED  BY <2>1, <2>2
<1>7. CASE /\ g.reads = "end"
           /\ v = [w EXCEPT !.sockets[1].state = "OPEN_FILE", !.sockets[1].clen = clen,
                            !.server[e].skipped = skipped]
  <2> DEFINE t == [w.sockets[1] EXCEPT !.state = "OPEN_FILE", !.clen = clen]
             u == [w EXCEPT !.sockets = [w.sockets EXCEPT ![1] = t]]
             q == [peer EXCEPT !.skipped = skipped]
             peers == [w.server EXCEPT ![e] = q]
             x == [u EXCEPT !.server = peers]
             units == Behind(g).units
  <2>1. v = x
    BY <1>7
  <2>2. clen \in {0, w.server[w.client.eth].size} /\ clen \in Nat
    BY <1>1 DEF Peers
  <2>3. /\ g.units \in Seq(Nat) /\ Len(g.units) \in Nat /\ g.skip \in 0 .. Len(g.units)
        /\ Len(g.units) <= peer.sent /\ peer.head # "unsent"
        /\ peer.head # "cut" => g.skip = 0 /\ peer.sent = Len(g.units)
        /\ \A k \in 1 .. Len(g.units) : g.units[k] = peer.sent - Len(g.units) + k
    BY <1>1, <1>7, LenProperties DEF Hears
  <2>4. /\ units \in Seq(Nat) /\ Len(units) = Len(g.units) - g.skip
        /\ \A k \in 1 .. Len(units) : units[k] = g.units[g.skip + k]
    BY <2>3, BehindSegment
  <2>5. peer \in Peers /\ PeerSound(peer) /\ peer.sent \in Nat
    BY <1>1 DEF Sound, PeerKnown, Peers
  <2>6. skipped = peer.sent - Len(g.units) + g.skip
    BY <2>3, <2>4, <2>5
  <2>7. skipped \in Nat /\ (peer.head # "cut" => skipped = 0)
    BY <2>3, <2>5, <2>6
  <2>8. \A k \in 1 .. Len(units) : units[k] = skipped + k
    <3> TAKE k \in 1 .. Len(units)
    <3>1. g.skip + k \in 1 .. Len(g.units)
      BY <2>3, <2>4
    <3>2. units[k] = peer.sent - Len(g.units) + (g.skip + k)
      BY <2>3, <2>4, <3>1
    <3> HIDE DEF units, skipped, peer
    <3> QED  BY <2>3, <2>5, <2>6, <3>2
  <2>9. peer.sent = skipped + Len(units)
    BY <2>3, <2>4, <2>5, <2>6
  <2> HIDE DEF clen, skipped, units
  <2>10. /\ q \in Peers /\ PeerSound(q) /\ q.skipped = skipped /\ q.sent = peer.sent
         /\ q.head = peer.head /\ q.size = peer.size
    BY <2>5, <2>7 DEF Peers, PeerSound
  <2>11. t \in Sockets /\ t.state = "OPEN_FILE" /\ t.eth = w.sockets[1].eth /\ t.clen = clen
    BY <1>1, <2>2 DEF Sockets, States
  <2> HIDE DEF t, q
  <2>12. u \in Worlds /\ Len(u.sockets) = 1 /\ u.sockets[1] = t /\ u.sockets # <<>> /\ SameButSockets(w, u)
    BY <1>1, <2>11, SocketPut
  <2>13. InStep(u, 0)
    BY <2>11, <2>12 DEF InStep
  <2>14. IF w.client.eth = NULL THEN t.clen = 0 ELSE t.clen \in {0, w.server[w.client.eth].size}
    BY <1>1, <2>2, <2>11, ClientAssumption
  <2>15. Sound(u, 0)
    BY <1>1, <1>2, <2>11, <2>12, <2>13, <2>14, SocketStep
  <2>16. peers \in [Conns -> Peers] /\ peers[e] = q /\ \A c \in Conns : c # e => peers[c] = w.server[c]
    BY <1>1, <2>10
  <2> HIDE DEF peers, u
  <2>17. /\ x \in Worlds /\ x.sockets = u.sockets /\ x.client = u.client /\ x.eth = u.eth
         /\ x.files = u.files /\ x.swap = u.swap /\ x.reported = u.reported /\ x.server = peers
    BY <2>12, <2>16 DEF Worlds
  <2> HIDE DEF x
  <2>18. u.client = w.client /\ u.server = w.server /\ u.reported = w.reported
    BY <2>12 DEF SameButSockets
  <2>19. w.client.captured = 0 /\ w.client.captured \in Nat
    BY <1>1, <1>2 DEF Sound, SwapKept, Worlds, Clients
  <2>20. OneSocket(x) /\ SwapKept(x) /\ FilesKept(x)
    BY <2>15, <2>17, <2>18, <2>19 DEF Sound, OneSocket, SwapKept, FilesKept, Capturing
  <2>21. PeerKnown(x)
    <3>1. \A c \in Conns : PeerSound(w.server[c])
      BY DEF Sound, PeerKnown
    <3>2. \A c \in Conns : PeerSound(x.server[c]) /\ x.server[c].size = w.server[c].size
      BY <2>10, <2>16, <2>17, <3>1
    <3> QED  BY <1>1, <2>15, <2>17, <2>18, <3>2 DEF Sound, PeerKnown
  <2>22. InStep(x, 0) /\ ReportTrue(x)
    BY <2>11, <2>12, <2>15, <2>17 DEF Sound, InStep, ReportTrue
  <2>23. Sound(x, 0)
    BY <2>17, <2>20, <2>21, <2>22 DEF Sound
  <2>24. x.server[x.client.eth] = q
    BY <1>1, <2>16, <2>17, <2>18
  <2>25. Opening(x, Behind(g))
    BY <2>3, <2>4, <2>8, <2>9, <2>10, <2>24 DEF Opening, units
  <2> QED  BY <1>1, <2>1, <2>11, <2>12, <2>17, <2>18, <2>23, <2>25
<1>8. CASE v = w
  <2>1. Sound(v, 0)
    BY <1>8, UnitsLost
  <2> QED  BY <1>8, <2>1 DEF NotOpening, Ends
<1> QED  BY <1>3, <1>4, <1>5, <1>6, <1>7, <1>8

(* Step 5: the length announced is reached only by all of the body.        *)
LEMMA DataSound ==
  ASSUME NEW w, NEW g, g.units \in Seq(Nat), Sound(w, Len(g.units)), w.sockets # <<>>,
         w.sockets[1].state = "GET_DATA", w.client.eth # NULL,
         \A k \in 1 .. Len(g.units) :
           g.units[k] = w.server[w.client.eth].skipped + w.client.captured + k,
         NEW o \in OutcomeType
  PROVE  LET v == get_data(w, 1, g, o)
         IN  Sound(v, 0) /\ NotOpening(v) /\ Ends(w, v) /\ v.sockets # <<>>
               /\ (Ends(w, v) => v.client.eth = w.client.eth /\ v.reported = w.reported)
<1> DEFINE next == Store(w, 1, g.units, o)
           u == [next EXCEPT !.sockets[1].state = "DOWNLOAD_COMPLETE"]
           v == get_data(w, 1, g, o)
           d == [w EXCEPT !.sockets[1].state = "DISCONNECT"]
<1>1. /\ w \in Worlds /\ Len(w.sockets) = 1 /\ w.sockets[1] \in Sockets /\ w.client.eth \in Conns
      /\ w.sockets[1].eth = w.client.eth
  BY SocketType
<1>2. /\ Sound(next, 0) /\ NotOpening(next) /\ Ends(w, next) /\ next.sockets # <<>>
      /\ next.client.eth = w.client.eth /\ next.server = w.server
      /\ next.sockets[1].state = "GET_DATA" => next.sockets = w.sockets
  BY StoreSound
<1>3. \/ v = d
      \/ v = next
      \/ /\ next.sockets[1].state = "GET_DATA" /\ Complete(next.client.captured, w.sockets[1].clen)
         /\ v = u
  BY DEF get_data
<1> SUFFICES /\ Sound(v, 0) /\ NotOpening(v) /\ Ends(w, v) /\ v.sockets # <<>>
             /\ v.client.eth = w.client.eth
  BY DEF Ends
<1> HIDE DEF v
<1>4. CASE v = d
  <2>1. Sound(d, 0) /\ NotOpening(d) /\ Ends(w, d) /\ d.sockets # <<>>
    BY GivenUp
  <2>2. "DISCONNECT" \in States
    BY DEF States
  <2>3. d.client = w.client
    BY <1>1, <2>2, GotoState
  <2> HIDE DEF d
  <2> QED  BY <1>4, <2>1, <2>3
<1>5. CASE v = next
  <2> HIDE DEF next
  <2> QED  BY <1>2, <1>5
<1>6. CASE /\ next.sockets[1].state = "GET_DATA" /\ Complete(next.client.captured, w.sockets[1].clen)
           /\ v = u
  <2> DEFINE t == [next.sockets[1] EXCEPT !.state = "DOWNLOAD_COMPLETE"]
  <2> HIDE DEF next
  <2>1. /\ next \in Worlds /\ Len(next.sockets) = 1 /\ next.sockets[1] \in Sockets
        /\ next.sockets = w.sockets /\ next.server = w.server /\ next.client.eth = w.client.eth
    BY <1>2, <1>6, SocketType
  <2>2. v = [next EXCEPT !.sockets = [next.sockets EXCEPT ![1] = t]]
    BY <1>6
  <2>3. t \in Sockets /\ t.state = "DOWNLOAD_COMPLETE" /\ t.eth = next.sockets[1].eth
        /\ t.clen = next.sockets[1].clen
    BY <2>1 DEF Sockets, States
  <2> HIDE DEF t
  <2>4. v \in Worlds /\ Len(v.sockets) = 1 /\ v.sockets[1] = t /\ v.sockets # <<>> /\ SameButSockets(next, v)
    BY <2>1, <2>2, <2>3, SocketPut
  <2>5. /\ next.client.captured \in Nat /\ next.server[next.client.eth].size \in Nat
        /\ next.server[next.client.eth].sent \in Nat /\ next.server[next.client.eth].skipped \in Nat
    BY <1>1, <2>1 DEF Worlds, Clients, Peers
  <2>6. next.client.captured <= next.server[next.client.eth].sent
    <3>1. next.server[next.client.eth].sent
            = next.server[next.client.eth].skipped + next.client.captured + 0
      BY <1>2, <1>6 DEF Sound, InStep
    <3> QED  BY <2>5, <3>1
  <2>7. next.server[next.client.eth].sent <= next.server[next.client.eth].size
    BY <1>1, <1>2, <2>1 DEF Sound, PeerKnown, PeerSound
  <2>8. next.sockets[1].clen \in {0, next.server[next.client.eth].size}
    BY <1>2, <2>1, ClientAssumption, <1>1 DEF Sound, PeerKnown
  <2>9. next.sockets[1].clen > 0 /\ next.client.captured >= next.sockets[1].clen
    BY <1>6, <2>1 DEF Complete
  <2>10. next.client.captured = next.server[next.client.eth].size
    BY <2>5, <2>6, <2>7, <2>8, <2>9
  <2>11. InStep(v, 0) /\ NotOpening(v) /\ (Capturing(next) => Capturing(v))
    BY <2>3, <2>4 DEF InStep, NotOpening, Capturing, SameButSockets
  <2>12. IF next.client.eth = NULL THEN t.clen = 0
         ELSE t.clen \in {0, next.server[next.client.eth].size}
    BY <2>1, <2>3, <2>8, <1>1, ClientAssumption
  <2>13. Sound(v, 0) /\ Ends(next, v)
    BY <1>2, <2>3, <2>4, <2>10, <2>11, <2>12, SocketStep
  <2>14. v.client = next.client /\ v.reported = next.reported
    BY <2>4 DEF SameButSockets
  <2> QED  BY <1>2, <2>1, <2>4, <2>11, <2>13, <2>14 DEF Ends
<1> QED  BY <1>3, <1>4, <1>5, <1>6

LEMMA HandleSound ==
  ASSUME NEW w, NEW g, Sound(w, Len(g.units)), NotOpening(w), Hears(w, g),
         NEW o \in [1 .. 2 -> OutcomeType]
  PROVE  LET x == http_client_handle(w, 1, g, o)
         IN  Sound(x, 0) /\ NotOpening(x) /\ Ends(w, x)
<1> DEFINE n == Len(g.units)
           s == [w.sockets EXCEPT ![1] = [w.sockets[1] EXCEPT !.alive = 0]]
           v == [w EXCEPT !.sockets = s]
           state == v.sockets[1].state
           heard == get_response(v, 1, g, o[1])
           data  == get_data(v, 1, g, o[1])
           opens == Len(heard.sockets) = Len(v.sockets) /\ heard.sockets[1].state = "OPEN_FILE"
           x == http_client_handle(w, 1, g, o)
<1>1. /\ w \in Worlds /\ Len(w.sockets) = 1 /\ w.sockets[1] \in Sockets /\ w.sockets \in Seq(Sockets)
      /\ w.client.eth \in Conns /\ o[1] \in OutcomeType /\ w.sockets # <<>>
  BY SocketType DEF Hears
<1>2. [w.sockets[1] EXCEPT !.alive = 0] \in Sockets
  <2>1. 0 \in 0 .. MAX_ALIVE_TIME + 1
    BY ClientAssumption
  <2> QED  BY <1>1, <2>1 DEF Sockets
<1>3. s \in Seq(Sockets) /\ Len(s) = 1 /\ s[1] = [w.sockets[1] EXCEPT !.alive = 0]
  BY <1>1, <1>2, SocketChanged
<1>4. x = CASE state = "SEND_REQUEST" -> send_request(v, 1)
            [] state = "GET_RESPONSE" -> IF opens THEN open_file(heard, 1, Behind(g), o[1])
                                                   ELSE heard
            [] state = "OPEN_FILE" -> open_file(v, 1, g, o[1])
            [] state = "GET_DATA" -> IF data.sockets[1].state = "DOWNLOAD_COMPLETE"
                                       THEN CloseTwice(data, 1, o) ELSE data
            [] state = "DOWNLOAD_COMPLETE" -> CloseTwice(v, 1, o)
            [] OTHER -> close_client_socket(v, 1, o[1])
  <2>1. [w EXCEPT !.sockets[1].alive = 0] = v
    OBVIOUS
  <2> QED  BY <2>1 DEF http_client_handle
<1> HIDE DEF s
<1>5. /\ Sound(v, n) /\ Ends(w, v) /\ SameButSockets(w, v) /\ v.sockets # <<>>
      /\ state = w.sockets[1].state
  <2>1. w.sockets # <<>> /\ Sound(w, n)
    BY <1>1
  <2> HIDE DEF n
  <2>2. /\ Sound(v, n) /\ Ends(w, v) /\ SameButSockets(w, v) /\ v.sockets # <<>>
        /\ v.sockets[1].state = w.sockets[1].state
    BY <1>3, <2>1, AliveSound
  <2> QED  BY <2>2
<1> SUFFICES Sound(x, 0) /\ NotOpening(x) /\ Ends(w, x)
  OBVIOUS
<1> HIDE DEF x, v
<1>6. v.client = w.client /\ v.server = w.server /\ v.reported = w.reported
  BY <1>5 DEF SameButSockets
<1>7. Hears(v, g) /\ NotOpening(v) /\ state # "OPEN_FILE"
  BY <1>1, <1>5, <1>6 DEF Hears, NotOpening
<1> SUFFICES Sound(x, 0) /\ NotOpening(x) /\ Ends(v, x)
  BY <1>6 DEF Ends
<1>8. CASE state = "SEND_REQUEST"
  <2>1. x = send_request(v, 1)
    BY <1>4, <1>8
  <2> QED  BY <1>5, <1>7, <1>8, <2>1, SendSound DEF Hears
<1>9. CASE state = "GET_RESPONSE"
  <2>1. x = IF opens THEN open_file(heard, 1, Behind(g), o[1]) ELSE heard
    BY <1>4, <1>9
  <2>2. \/ Sound(heard, 0) /\ NotOpening(heard) /\ Ends(v, heard) /\ ~opens
        \/ /\ Sound(heard, 0) /\ Opening(heard, Behind(g)) /\ heard.sockets # <<>> /\ opens
           /\ heard.client = v.client /\ heard.reported = v.reported
    BY <1>1, <1>5, <1>7, <1>9, ResponseSound
  <2> HIDE DEF heard
  <2>3. CASE Sound(heard, 0) /\ NotOpening(heard) /\ Ends(v, heard) /\ ~opens
    BY <2>1, <2>3
  <2>4. CASE /\ Sound(heard, 0) /\ Opening(heard, Behind(g)) /\ heard.sockets # <<>> /\ opens
             /\ heard.client = v.client /\ heard.reported = v.reported
    <3> DEFINE b == Behind(g)
               y == open_file(heard, 1, b, o[1])
    <3>1. x = y
      BY <2>1, <2>4
    <3>2. Opening(heard, b) /\ heard.client.eth # NULL /\ heard.sockets[1].state = "OPEN_FILE"
      BY <1>7, <2>4 DEF Hears
    <3> HIDE DEF b
    <3>3. Sound(y, 0) /\ NotOpening(y) /\ Ends(heard, y)
      BY <1>1, <2>4, <3>2, OpenSound DEF Opening
    <3> HIDE DEF y
    <3> QED  BY <2>4, <3>1, <3>3 DEF Ends
  <2> QED  BY <2>2, <2>3, <2>4
<1>10. CASE state = "GET_DATA"
  <2>1. x = IF data.sockets[1].state = "DOWNLOAD_COMPLETE" THEN CloseTwice(data, 1, o) ELSE data
    BY <1>4, <1>10
  <2>2. /\ Sound(data, 0) /\ NotOpening(data) /\ Ends(v, data) /\ data.sockets # <<>>
        /\ data.client.eth = v.client.eth /\ data.reported = v.reported
    <3> DEFINE peer == v.server[v.client.eth]
    <3>1. /\ peer.sent = peer.skipped + v.client.captured + n /\ n \in Nat
          /\ peer.sent \in Nat /\ peer.skipped \in Nat /\ v.client.captured \in Nat
      BY <1>1, <1>5, <1>6, <1>7, <1>10, LenProperties
         DEF Sound, InStep, Hears, Worlds, Peers, Clients
    <3>2. \A k \in 1 .. n : g.units[k] = peer.sent - n + k
      BY <1>7 DEF Hears
    <3> HIDE DEF peer, n
    <3>3. \A k \in 1 .. n : g.units[k] = peer.skipped + v.client.captured + k
      BY <3>1, <3>2
    <3> QED  BY <1>1, <1>5, <1>7, <1>10, <3>3, DataSound DEF Hears, peer, n
  <2> HIDE DEF data
  <2>3. CASE x = data
    BY <2>2, <2>3
  <2>4. CASE x = CloseTwice(data, 1, o)
    <3>1. Sound(x, 0) /\ NotOpening(x) /\ Ends(data, x)
      BY <2>2, <2>4, CloseTwiceSound
    <3> QED  BY <2>2, <3>1 DEF Ends
  <2> QED  BY <2>1, <2>3, <2>4
<1>11. CASE state \in {"IDLE", "DOWNLOAD_COMPLETE", "DISCONNECT"}
  <2>1. Sound(v, 0)
    BY <1>5, <1>11, UnitsLost
  <2>2. CASE x = CloseTwice(v, 1, o)
    BY <1>5, <1>7, <2>1, <2>2, CloseTwiceSound
  <2>3. CASE x = close_client_socket(v, 1, o[1])
    <3>1. /\ Sound(x, 0) /\ Ends(v, x)
          /\ x.sockets = v.sockets \/ x.sockets = <<>>
      BY <1>1, <1>5, <2>1, <2>3, CloseSound
    <3> QED  BY <1>7, <3>1 DEF NotOpening
  <2> QED  BY <1>4, <1>11, <2>2, <2>3
<1>12. state \in States
  BY <1>5, SocketType DEF Sockets
<1> QED  BY <1>7, <1>8, <1>9, <1>10, <1>11, <1>12 DEF States

-----------------------------------------------------------------------------
(* The steps.                                                              *)

(* An attempt to connect that is given up opens no connection.             *)
NoLate == "connects_late" \notin Faults

(* What a step does to the state and to the report.                        *)
Keeps(w, v) == Sound(v, 0) /\ NotOpening(v) /\ Ends(w, v)

LEMMA BecomesWorld ==
  ASSUME NEW w \in Worlds, Becomes(w)
  PROVE  World' = w
<1>1. w = [client |-> w.client, sockets |-> w.sockets, eth |-> w.eth, server |-> w.server,
           files |-> w.files, swap |-> w.swap, reported |-> w.reported]
  BY DEF Worlds
<1> QED  BY <1>1 DEF Becomes, World

LEMMA StepKept ==
  ASSUME NEW w, Becomes(w), Keeps(World, w)
  PROVE  Keeps(World, World')
BY BecomesWorld DEF Keeps, Sound

(* A socket without a request has nothing in the files.                    *)
LEMMA IdleWorld ==
  ASSUME NEW w, Sound(w, 0), w.client.eth = NULL
  PROVE  /\ ~Capturing(w) /\ w.client.captured = 0
         /\ "close_fails" \notin Faults => \A h \in Handles : w.files[h] # "swap"
         /\ \A c \in Conns : w.eth[c] = "closed"
         /\ w.sockets # <<>> => w.sockets[1].state # "GET_DATA"
<1>1. ~Capturing(w)
  BY DEF Capturing
<1>2. w.client.captured \in Nat /\ ~(w.client.captured > 0)
  BY <1>1 DEF Sound, SwapKept, Worlds, Clients
<1>3. "close_fails" \notin Faults => \A h \in Handles : w.files[h] # "swap"
  BY <1>1 DEF Sound, FilesKept
<1>4. \A c \in Conns : w.eth[c] = "closed"
  BY ClientAssumption DEF Sound, OneSocket
<1>5. w.sockets # <<>> => w.sockets[1].state # "GET_DATA"
  BY DEF Sound, InStep
<1> QED  BY <1>1, <1>2, <1>3, <1>4, <1>5

LEMMA StartSound ==
  ASSUME NEW w, Sound(w, 0), NotOpening(w), w.client.eth = NULL
  PROVE  LET v == [w EXCEPT !.client = NoRequest]
         IN  /\ Keeps(w, v) /\ v.client = NoRequest /\ v.client.eth = NULL
             /\ v.sockets = w.sockets /\ v.eth = w.eth /\ v.server = w.server
             /\ v.reported = w.reported
<1> DEFINE v == [w EXCEPT !.client = NoRequest]
<1>1. w \in Worlds /\ NoRequest \in Clients /\ NoRequest.eth = NULL /\ NoRequest.captured = 0
  BY ClientAssumption DEF Sound, NoRequest, Clients
<1>2. /\ v \in Worlds /\ v.client = NoRequest
      /\ v.sockets = w.sockets /\ v.eth = w.eth /\ v.server = w.server
      /\ v.files = w.files /\ v.swap = w.swap /\ v.reported = w.reported
  BY <1>1 DEF Worlds
<1> HIDE DEF v
<1>3. OneSocket(v) /\ PeerKnown(v) /\ ReportTrue(v) /\ Ends(w, v) /\ NotOpening(v)
  BY <1>1, <1>2 DEF Sound, OneSocket, PeerKnown, ReportTrue, Ends, NotOpening
<1>4. SwapKept(v) /\ FilesKept(v) /\ InStep(v, 0)
  BY <1>1, <1>2, IdleWorld DEF Sound, SwapKept, FilesKept, InStep
<1>5. Keeps(w, v)
  BY <1>2, <1>3, <1>4 DEF Keeps, Sound
<1> QED  BY <1>1, <1>2, <1>5 DEF v

(* The socket of a request that has no connection yet.                     *)
Calling(w) ==
  /\ Sound(w, 0) /\ w.sockets # <<>>
  /\ w.client = [NoRequest EXCEPT !.send = TRUE]
  /\ w.sockets[1].eth = NULL /\ w.sockets[1].clen = 0 /\ w.sockets[1].state = "SEND_REQUEST"

LEMMA SocketTaken ==
  ASSUME NEW w, Sound(w, 0), w.client = NoRequest, Found(w, NULL) # 0 \/ Len(w.sockets) < MAX_SOCKET
  PROVE  LET v == WithSocket(w)
         IN  /\ Calling(v) /\ Found(v, NULL) = 1 /\ v.eth = w.eth /\ v.server = w.server
             /\ v.reported = w.reported
<1> DEFINE x == socket_manager_find_socket(w, NULL)
           cl == [NoRequest EXCEPT !.send = TRUE]
           u == [x EXCEPT !.client = cl]
           t == [u.sockets[1] EXCEPT !.state = "SEND_REQUEST"]
           v == [u EXCEPT !.sockets = [u.sockets EXCEPT ![1] = t]]
<1>1. /\ w \in Worlds /\ w.sockets \in Seq(Sockets) /\ Len(w.sockets) <= 1 /\ w.client.eth = NULL
      /\ w.client.captured = 0
  BY DEF Sound, OneSocket, Worlds, NoRequest
<1>2. w.sockets # <<>> => w.sockets[1].eth = NULL /\ w.sockets[1].clen = 0
  BY <1>1 DEF Sound, OneSocket
<1>3. Found(w, NULL) = IF w.sockets # <<>> THEN 1 ELSE 0
  BY <1>1, <1>2, FoundOnly
<1>4. /\ x.client = w.client /\ x.eth = w.eth /\ x.server = w.server /\ x.files = w.files
      /\ x.swap = w.swap /\ x.reported = w.reported /\ x \in Worlds
      /\ Len(x.sockets) = 1 /\ x.sockets[1].eth = NULL /\ x.sockets[1].clen = 0
  <2>1. CASE w.sockets # <<>>
    <3>1. x = w
      BY <1>3, <2>1 DEF socket_manager_find_socket
    <3>2. Len(w.sockets) = 1
      BY <1>1, <2>1, OneElement
    <3> QED  BY <1>1, <1>2, <2>1, <3>1, <3>2
  <2>2. CASE w.sockets = <<>>
    <3> DEFINE b == NewSocket(NULL)
               s == <<b>> \o <<>>
    <3>1. x = [w EXCEPT !.sockets = s]
      BY <1>3, <2>2 DEF socket_manager_find_socket
    <3>2. b \in Sockets /\ b.eth = NULL /\ b.clen = 0
      BY ClientAssumption DEF NewSocket, Sockets, States
    <3> HIDE DEF b
    <3>3. <<b>> \in Seq(Sockets) /\ Len(<<b>>) = 1 /\ <<b>>[1] = b
      BY <3>2
    <3>4. s = <<b>>
      BY <3>3, ConcatEmptySeq
    <3> HIDE DEF s
    <3>5. s \in Seq(Sockets) /\ Len(s) = 1 /\ s[1] = b
      BY <3>3, <3>4
    <3> QED  BY <1>1, <3>1, <3>2, <3>5 DEF Worlds
  <2> QED  BY <2>1, <2>2
<1>5. cl \in Clients /\ cl.eth = NULL /\ cl.captured = 0
  BY ClientAssumption DEF NoRequest, Clients
<1>6. WithSocket(w) = [x EXCEPT !.sockets[1].state = "SEND_REQUEST", !.client.send = TRUE]
  <2> HIDE DEF x
  <2>1. x.sockets # <<>>
    BY <1>4, OneElement DEF Worlds
  <2>2. Found(x, NULL) = 1
    <3>1. x \in Worlds /\ Len(x.sockets) <= 1 /\ x.sockets[1].eth = NULL
      BY <1>4
    <3> QED  BY <2>1, <3>1, FoundOnly
  <2> QED  BY <2>2 DEF WithSocket, x
<1> HIDE DEF x
<1>7. WithSocket(w) = v
  BY <1>4, <1>6
<1> HIDE DEF cl
<1>8. /\ u \in Worlds /\ u.client = cl /\ u.sockets = x.sockets /\ u.eth = w.eth
      /\ u.server = w.server /\ u.files = w.files /\ u.swap = w.swap /\ u.reported = w.reported
  BY <1>4, <1>5 DEF Worlds
<1> HIDE DEF u
<1>9. Len(u.sockets) = 1 /\ u.sockets[1] \in Sockets
  BY <1>4, <1>8, OneElement DEF Worlds
<1>10. /\ t \in Sockets /\ t.eth = NULL /\ t.clen = 0 /\ t.state = "SEND_REQUEST"
  BY <1>4, <1>8, <1>9 DEF Sockets, States
<1> HIDE DEF t
<1>11. v \in Worlds /\ Len(v.sockets) = 1 /\ v.sockets[1] = t /\ v.sockets # <<>> /\ SameButSockets(u, v)
  BY <1>8, <1>9, <1>10, SocketPut
<1> HIDE DEF v
<1>12. /\ v.client = cl /\ v.eth = w.eth /\ v.server = w.server /\ v.files = w.files
       /\ v.swap = w.swap /\ v.reported = w.reported
  BY <1>8, <1>11 DEF SameButSockets
<1>13. OneSocket(v)
  BY <1>1, <1>5, <1>10, <1>11, <1>12, IdleWorld DEF OneSocket
<1>14. SwapKept(v) /\ FilesKept(v) /\ InStep(v, 0)
  BY <1>1, <1>5, <1>10, <1>11, <1>12, IdleWorld DEF Sound, SwapKept, FilesKept, InStep
<1>15. PeerKnown(v) /\ ReportTrue(v)
  BY <1>5, <1>12 DEF Sound, PeerKnown, ReportTrue
<1>16. Sound(v, 0)
  BY <1>11, <1>13, <1>14, <1>15 DEF Sound
<1>17. Calling(v)
  BY <1>10, <1>11, <1>12, <1>16 DEF Calling, cl
<1>18. Found(v, NULL) = 1
  <2>1. v \in Worlds /\ Len(v.sockets) <= 1 /\ v.sockets # <<>> /\ v.sockets[1].eth = NULL
    BY <1>10, <1>11
  <2> QED  BY <2>1, FoundOnly
<1>19. v = WithSocket(w)
  BY <1>7
<1> QED  BY <1>12, <1>17, <1>18, <1>19

(* The request of a task that has found a server.                          *)
LEMMA ConnectSound ==
  ASSUME NEW w, Calling(w), NEW c \in Conns, NEW r \in Responses
  PROVE  LET v == [Dials(w, c, r) EXCEPT !.sockets[1].eth = c, !.client.eth = c]
         IN  Sound(v, 0) /\ NotOpening(v) /\ v.reported = w.reported
<1> DEFINE states == [w.eth EXCEPT ![c] = "syn"]
           peer == [NoServer EXCEPT !.size = r.size, !.announced = r.announced]
           peers == [w.server EXCEPT ![c] = peer]
           cl == [w.client EXCEPT !.eth = c]
           t == [w.sockets[1] EXCEPT !.eth = c]
           u == [w EXCEPT !.sockets = [w.sockets EXCEPT ![1] = t]]
           v == [u EXCEPT !.eth = states, !.server = peers, !.client = cl]
<1>1. /\ w \in Worlds /\ Len(w.sockets) = 1 /\ w.sockets[1] \in Sockets /\ w.client \in Clients
      /\ w.eth \in [Conns -> EthStates] /\ w.server \in [Conns -> Peers]
      /\ w.client.eth = NULL /\ w.client.captured = 0
  BY SocketType DEF Calling, Sound, Worlds, NoRequest
<1>2. [Dials(w, c, r) EXCEPT !.sockets[1].eth = c, !.client.eth = c] = v
  BY DEF Dials
<1>3. states \in [Conns -> EthStates] /\ \A d \in Conns : states[d] # "closed" => d = c
  <2>1. \A d \in Conns : w.eth[d] = "closed"
    BY <1>1, IdleWorld DEF Calling
  <2> QED  BY <1>1, <2>1 DEF EthStates
<1>4. peer \in Peers /\ PeerSound(peer) /\ peer.size = r.size
  <2>1. r.size \in Nat /\ r.announced \in BOOLEAN
    BY ClientAssumption
  <2>2. /\ NoServer \in Peers /\ NoServer.head = "unsent" /\ NoServer.sent = 0
        /\ NoServer.skipped = 0
    BY DEF NoServer, Peers, Heads
  <2>3. /\ peer \in Peers /\ peer.size = r.size /\ peer.head = NoServer.head
        /\ peer.sent = NoServer.sent /\ peer.skipped = NoServer.skipped
    BY <2>1, <2>2 DEF Peers
  <2> HIDE DEF peer
  <2> QED  BY <2>1, <2>2, <2>3 DEF PeerSound
<1> HIDE DEF peer
<1>5. /\ peers \in [Conns -> Peers] /\ peers[c] = peer
      /\ \A d \in Conns : d # c => peers[d] = w.server[d]
  BY <1>1, <1>4
<1>6. cl \in Clients /\ cl.eth = c /\ cl.captured = 0
  BY <1>1 DEF Clients
<1>7. t \in Sockets /\ t.eth = c /\ t.clen = 0 /\ t.state = "SEND_REQUEST"
  BY <1>1 DEF Calling, Sockets
<1> HIDE DEF states, peers, cl, t
<1>8. u \in Worlds /\ Len(u.sockets) = 1 /\ u.sockets[1] = t /\ u.sockets # <<>> /\ SameButSockets(w, u)
  BY <1>1, <1>7, SocketPut
<1> HIDE DEF u
<1>9. /\ v \in Worlds /\ v.client = cl /\ v.sockets = u.sockets /\ v.eth = states /\ v.server = peers
      /\ v.files = w.files /\ v.swap = w.swap /\ v.reported = w.reported
  BY <1>3, <1>5, <1>6, <1>8 DEF Worlds, SameButSockets
<1> HIDE DEF v
<1>10. v.sockets # <<>> /\ v.sockets[1] = t /\ Len(v.sockets) = 1 /\ v.client.eth = c
  BY <1>6, <1>8, <1>9
<1>11. OneSocket(v)
  BY <1>3, <1>7, <1>9, <1>10, ClientAssumption DEF OneSocket
<1>12. "close_fails" \notin Faults => \A h \in Handles : w.files[h] # "swap"
  BY <1>1, IdleWorld DEF Calling
<1>13. SwapKept(v) /\ FilesKept(v)
  BY <1>6, <1>9, <1>12 DEF Calling, Sound, SwapKept, FilesKept
<1>14. PeerKnown(v)
  <2>1. \A d \in Conns : PeerSound(v.server[d])
    <3> TAKE d \in Conns
    <3>1. CASE d = c
      BY <1>4, <1>5, <1>9, <3>1
    <3>2. CASE d # c
      BY <1>5, <1>9, <3>2 DEF Calling, Sound, PeerKnown
    <3> QED  BY <3>1, <3>2
  <2> QED  BY <1>7, <1>10, <2>1 DEF PeerKnown
<1>15. InStep(v, 0) /\ NotOpening(v)
  BY <1>7, <1>10 DEF InStep, NotOpening
<1>16. ReportTrue(v)
  BY <1>9 DEF Calling, Sound, ReportTrue
<1>17. Sound(v, 0)
  BY <1>9, <1>11, <1>13, <1>14, <1>15, <1>16 DEF Sound
<1> QED  BY <1>2, <1>9, <1>15, <1>17

(* The request that fails: its socket is closed.                           *)
LEMMA FailSound ==
  ASSUME NEW w, Calling(w), NEW o \in OutcomeType
  PROVE  LET v == [close_client_socket(w, 1, o) EXCEPT !.client.eth = NULL]
         IN  Sound(v, 0) /\ NotOpening(v) /\ v.reported = w.reported
<1> DEFINE u == close_client_socket(w, 1, o)
           v == [u EXCEPT !.client.eth = NULL]
<1>1. w.client.eth = NULL
  BY DEF Calling, NoRequest
<1>2. /\ Sound(u, 0) /\ Ends(w, u) /\ u.client.eth = NULL
      /\ u.sockets = w.sockets \/ u.sockets = <<>>
  BY <1>1, CloseSound DEF Calling
<1> SUFFICES Sound(v, 0) /\ NotOpening(v) /\ v.reported = w.reported
  OBVIOUS
<1> HIDE DEF u
<1>3. u \in Worlds /\ u.client \in Clients
  BY <1>2 DEF Sound, Worlds
<1> DEFINE cl == u.client
<1>4. [cl EXCEPT !.eth = NULL] = cl
  <2>1. cl \in Clients /\ cl.eth = NULL
    BY <1>2, <1>3
  <2> HIDE DEF cl
  <2>2. cl = [eth |-> NULL, send |-> cl.send, captured |-> cl.captured, handle |-> cl.handle]
    BY <2>1 DEF Clients
  <2> DEFINE dl == [cl EXCEPT !.eth = NULL]
  <2>3. dl = [eth |-> NULL, send |-> cl.send, captured |-> cl.captured, handle |-> cl.handle]
    BY <2>1 DEF Clients
  <2> QED  BY <2>2, <2>3
<1>5. v = u
  <2>1. v = [u EXCEPT !.client = [cl EXCEPT !.eth = NULL]]
    OBVIOUS
  <2>2. v = [u EXCEPT !.client = u.client]
    BY <1>4, <2>1
  <2>3. [u EXCEPT !.client = u.client] = u
    BY <1>3 DEF Worlds
  <2> QED  BY <2>2, <2>3
<1>6. NotOpening(u) /\ u.reported = w.reported
  BY <1>1, <1>2 DEF NotOpening, Calling, Ends
<1> QED  BY <1>2, <1>5, <1>6

LEMMA OutcomesTyped ==
  /\ \A o \in Outcomes : o \in OutcomeType
  /\ \A o \in Outcomes, d \in BOOLEAN : [o EXCEPT !.disconnects = d] \in OutcomeType
  /\ \A o \in TwoOutcomes : o \in [1 .. 2 -> OutcomeType]
<1>1. \A f \in {"disconnect_fails", "card_fails", "open_fails", "write_fails"} : May(f) \subseteq BOOLEAN
  BY DEF May
<1>2. \A o \in Outcomes : o \in OutcomeType
  BY <1>1 DEF Outcomes, OutcomeType
<1>3. \A o \in Outcomes, d \in BOOLEAN : [o EXCEPT !.disconnects = d] \in OutcomeType
  BY <1>2 DEF OutcomeType
<1>4. \A o \in TwoOutcomes : o \in [1 .. 2 -> OutcomeType]
  BY <1>2 DEF TwoOutcomes
<1> QED  BY <1>2, <1>3, <1>4

LEMMA RequestKept ==
  ASSUME NoLate, Sound(World, 0), NotOpening(World), http_client_request_file
  PROVE  Keeps(World, World')
<1> DEFINE w == WithSocket(RequestStart)
<1>1. client.eth = NULL /\ World.client = client /\ World.sockets = sockets /\ World.reported = reported
  BY DEF http_client_request_file, RequestRefused, RequestFails, RequestConnects, World
<1>2. /\ Keeps(World, RequestStart) /\ RequestStart.client = NoRequest
      /\ RequestStart.client.eth = NULL /\ RequestStart.sockets = sockets
      /\ RequestStart.reported = reported
  BY <1>1, StartSound DEF RequestStart
<1>3. CASE RequestRefused
  BY <1>2, <1>3, StepKept DEF RequestRefused
<1>4. ASSUME HasRoom
      PROVE  Calling(w) /\ Found(w, NULL) = 1 /\ w.reported = World.reported
  <2>1. Found(RequestStart, NULL) # 0 \/ Len(RequestStart.sockets) < MAX_SOCKET
    BY <1>1, <1>2, <1>4 DEF HasRoom, Found
  <2>2. Sound(RequestStart, 0)
    BY <1>2 DEF Keeps
  <2> QED  BY <1>1, <1>2, <2>1, <2>2, SocketTaken
<1>5. CASE RequestFails
  <2>1. PICK o \in Outcomes, d \in BOOLEAN : Becomes(GiveUp(w, [o EXCEPT !.disconnects = d]))
    BY <1>5 DEF RequestFails, NoLate, Late
  <2> DEFINE p == [o EXCEPT !.disconnects = d]
             v == GiveUp(w, p)
  <2>2. p \in OutcomeType
    BY OutcomesTyped
  <2>3. Calling(w) /\ Found(w, NULL) = 1 /\ w.reported = World.reported
    BY <1>4, <1>5 DEF RequestFails
  <2> HIDE DEF p, w
  <2>4. v = [close_client_socket(w, 1, p) EXCEPT !.client.eth = NULL]
    BY <2>3 DEF GiveUp
  <2>5. Sound(v, 0) /\ NotOpening(v) /\ v.reported = w.reported
    BY <2>2, <2>3, <2>4, FailSound
  <2> HIDE DEF v
  <2>6. Keeps(World, v)
    BY <2>3, <2>5 DEF Keeps, Ends
  <2> QED  BY <2>1, <2>6, StepKept DEF p, v, w
<1>6. ASSUME NEW c \in Conns, NEW r \in Responses, RequestConnects(c, r)
      PROVE  Keeps(World, World')
  <2> DEFINE v == [Dials(w, c, r) EXCEPT !.sockets[1].eth = c, !.client.eth = c]
  <2>1. Calling(w) /\ Found(w, NULL) = 1 /\ w.reported = World.reported
    BY <1>4, <1>6 DEF RequestConnects
  <2>2. Becomes(v)
    BY <1>6, <2>1 DEF RequestConnects
  <2> HIDE DEF w
  <2>3. Sound(v, 0) /\ NotOpening(v) /\ v.reported = w.reported
    BY <2>1, ConnectSound
  <2> HIDE DEF v
  <2>4. Keeps(World, v)
    BY <2>1, <2>3 DEF Keeps, Ends
  <2> QED  BY <2>2, <2>4, StepKept
<1> QED  BY <1>3, <1>5, <1>6 DEF http_client_request_file

(* A step that leaves the request, the pool and the files alone.           *)
LEMMA OthersKept ==
  ASSUME NEW w, NEW v \in Worlds, Sound(w, 0), NotOpening(w),
         v.client = w.client \/ v.client = [w.client EXCEPT !.send = FALSE],
         v.sockets = w.sockets, v.server = w.server, v.files = w.files, v.swap = w.swap,
         v.reported = w.reported,
         \A c \in Conns : v.eth[c] # "closed" => w.eth[c] # "closed"
  PROVE  Keeps(w, v)
<1>1. v.client.eth = w.client.eth /\ v.client.captured = w.client.captured
  BY DEF Sound, Worlds, Clients
<1>2. OneSocket(v) /\ SwapKept(v) /\ FilesKept(v) /\ PeerKnown(v)
  BY <1>1 DEF Sound, OneSocket, SwapKept, FilesKept, Capturing, PeerKnown
<1>3. InStep(v, 0) /\ ReportTrue(v) /\ NotOpening(v) /\ Ends(w, v)
  BY <1>1 DEF Sound, InStep, ReportTrue, NotOpening, Ends
<1> QED  BY <1>2, <1>3 DEF Keeps, Sound

LEMMA StackKept ==
  ASSUME Sound(World, 0), NotOpening(World),
         \/ http_client_request_pending
         \/ \E c \in Conns : Established(c) \/ Reset(c)
  PROVE  Keeps(World, World')
<1>1. /\ World \in Worlds /\ World.client = client /\ World.eth = eth
      /\ client \in Clients /\ eth \in [Conns -> EthStates]
  BY DEF Sound, Worlds, World
<1>2. CASE http_client_request_pending
  <2> DEFINE v == [World EXCEPT !.client = [client EXCEPT !.send = FALSE]]
  <2>1. [client EXCEPT !.send = FALSE] \in Clients
    BY <1>1 DEF Clients
  <2>2. /\ v \in Worlds /\ v.client = [client EXCEPT !.send = FALSE] /\ v.sockets = World.sockets
        /\ v.eth = World.eth /\ v.server = World.server /\ v.files = World.files
        /\ v.swap = World.swap /\ v.reported = World.reported
    BY <1>1, <2>1 DEF Worlds
  <2>3. Becomes(v)
    BY <1>2 DEF http_client_request_pending, Becomes, World
  <2> HIDE DEF v
  <2>4. Keeps(World, v)
    BY <1>1, <2>2, OthersKept
  <2> QED  BY <2>3, <2>4, StepKept
<1>3. ASSUME NEW c \in Conns, NEW x \in EthStates, eth[c] # "closed", eth' = [eth EXCEPT ![c] = x],
             UNCHANGED <<client, sockets, server, files, swap, reported>>
      PROVE  Keeps(World, World')
  <2> DEFINE now == [eth EXCEPT ![c] = x]
             v == [World EXCEPT !.eth = now]
  <2>1. now \in [Conns -> EthStates] /\ \A d \in Conns : now[d] # "closed" => eth[d] # "closed"
    BY <1>1, <1>3
  <2> HIDE DEF now
  <2>2. /\ v \in Worlds /\ v.client = World.client /\ v.sockets = World.sockets
        /\ v.eth = now /\ v.server = World.server /\ v.files = World.files
        /\ v.swap = World.swap /\ v.reported = World.reported
    BY <1>1, <2>1 DEF Worlds
  <2>3. Becomes(v)
    BY <1>3 DEF Becomes, World, now
  <2> HIDE DEF v
  <2>4. Keeps(World, v)
    BY <1>1, <2>1, <2>2, OthersKept
  <2> QED  BY <2>3, <2>4, StepKept
<1>4. ASSUME NEW c \in Conns, Established(c) \/ Reset(c)
      PROVE  Keeps(World, World')
  BY <1>3, <1>4 DEF Established, Reset, EthStates
<1> QED  BY <1>2, <1>4

(* What the network makes of the state before the handler sees it.         *)
Arrives(w, c, g, head, state) ==
  [w EXCEPT !.eth[c] = state, !.server[c].head = head,
            !.server[c].sent = @ + Len(g.units)]

(* A segment of the server of connection c, whose header is as far as      *)
(* `head' with it: the next units of its body.                             *)
Segment(w, c, g, head) ==
  LET peer == w.server[c]
      n == Len(g.units)
  IN  /\ head \in Heads /\ (peer.head # "unsent" => head = peer.head)
      /\ g.units \in Seq(Nat) /\ peer.sent + n <= peer.size
      /\ \A k \in 1 .. n : g.units[k] = peer.sent + k
      /\ g.units # <<>> => head # "unsent"
      /\ g.reads = "end" =>
           /\ head # "unsent" /\ g.skip \in 0 .. n
           /\ head # "cut" => peer.head = "unsent" /\ g.skip = 0

LEMMA ArrivesSound ==
  ASSUME NEW w, Sound(w, 0), NotOpening(w), NEW c \in Conns, w.eth[c] = "open",
         NEW g, NEW head, Segment(w, c, g, head), NEW state \in {"open", "closing"}
  PROVE  LET v == Arrives(w, c, g, head, state)
         IN  /\ Sound(v, Len(g.units)) /\ NotOpening(v) /\ Hears(v, g)
             /\ v.sockets = w.sockets /\ v.client = w.client /\ v.reported = w.reported
             /\ v.sockets # <<>> /\ v.sockets[1].eth = c
<1> DEFINE n == Len(g.units)
           states == [w.eth EXCEPT ![c] = state]
           old == w.server[c]
           peer == [old EXCEPT !.head = head, !.sent = @ + n]
           peers == [w.server EXCEPT ![c] = peer]
           v == [w EXCEPT !.eth = states, !.server = peers]
<1>1. /\ w \in Worlds /\ w.eth \in [Conns -> EthStates] /\ w.server \in [Conns -> Peers]
      /\ old \in Peers /\ w.client.captured \in Nat /\ PeerSound(old)
  BY DEF Sound, PeerKnown, Worlds, Clients
<1>2. n \in Nat /\ (g.units = <<>> => n = 0)
  BY LenProperties, EmptySeq DEF Segment
<1>3. w.client.eth = c /\ w.sockets # <<>> /\ w.sockets[1].eth = c /\ c # NULL
  BY ClientAssumption DEF Sound, OneSocket
<1>4. Arrives(w, c, g, head, state) = v
  BY <1>1 DEF Arrives
<1>5. states \in [Conns -> EthStates] /\ \A d \in Conns : states[d] # "closed" => w.eth[d] # "closed"
  BY <1>1 DEF EthStates
<1>6. /\ old.sent \in Nat /\ old.size \in Nat /\ old.skipped \in Nat /\ old.sent + n <= old.size
      /\ head \in Heads /\ (old.head # "unsent" => head = old.head)
      /\ old.head \in Heads /\ (n # 0 => head # "unsent")
      /\ old.head = "unsent" => old.sent = 0
      /\ old.head # "cut" => old.skipped = 0
  BY <1>1, <1>2 DEF Segment, Peers, PeerSound
<1>7. /\ peer \in Peers /\ peer.sent = old.sent + n /\ peer.size = old.size
      /\ peer.head = head /\ peer.skipped = old.skipped
  <2>1. old \in Peers /\ old.sent + n \in Nat /\ head \in Heads
    BY <1>1, <1>2, <1>6
  <2>2. peer = [old EXCEPT !.head = head, !.sent = old.sent + n]
    OBVIOUS
  <2> HIDE DEF n, old, peer
  <2> QED  BY <2>1, <2>2 DEF Peers
<1>8. /\ g.units \in Seq(Nat)
      /\ \A k \in 1 .. n : g.units[k] = old.sent + k
      /\ g.reads = "end" =>
           /\ head # "unsent" /\ g.skip \in 0 .. n
           /\ head # "cut" => old.head = "unsent" /\ g.skip = 0
  BY DEF Segment
<1> HIDE DEF n, states, peer, old
<1>9. PeerSound(peer)
  <2>1. head = "unsent" => old.head = "unsent" /\ n = 0
    BY <1>6
  <2>2. head # "cut" => old.head # "cut"
    BY <1>6 DEF Heads
  <2> QED  BY <1>2, <1>6, <1>7, <2>1, <2>2 DEF PeerSound
<1>10. /\ peers \in [Conns -> Peers] /\ peers[c] = peer
       /\ \A d \in Conns : d # c => peers[d] = w.server[d]
  BY <1>1, <1>7
<1> HIDE DEF peers
<1>11. /\ v \in Worlds /\ v.client = w.client /\ v.sockets = w.sockets /\ v.eth = states
       /\ v.server = peers /\ v.files = w.files /\ v.swap = w.swap /\ v.reported = w.reported
  BY <1>1, <1>5, <1>10 DEF Worlds
<1> HIDE DEF v
<1>12. v.server[c] = peer /\ v.server[v.client.eth] = peer /\ w.server[w.client.eth] = old
  BY <1>3, <1>10, <1>11 DEF old
<1>13. OneSocket(v) /\ FilesKept(v) /\ ReportTrue(v) /\ NotOpening(v)
  BY <1>5, <1>11 DEF Sound, OneSocket, FilesKept, Capturing, ReportTrue, NotOpening
<1>14. SwapKept(v)
  <2>1. Capturing(w) => Capturing(v)
    BY <1>11 DEF Capturing
  <2> QED  BY <1>7, <1>11, <1>12, <2>1 DEF Sound, SwapKept
<1>15. PeerKnown(v)
  <2>1. \A d \in Conns : PeerSound(v.server[d])
    <3> TAKE d \in Conns
    <3>1. CASE d = c
      BY <1>9, <1>12, <3>1
    <3>2. CASE d # c
      BY <1>10, <1>11, <3>2 DEF Sound, PeerKnown
    <3> QED  BY <3>1, <3>2
  <2> QED  BY <1>3, <1>7, <1>11, <1>12, <2>1 DEF Sound, PeerKnown
<1>16. ASSUME w.sockets[1].state = "GET_DATA"
       PROVE  /\ old.head # "unsent" /\ old.sent = old.skipped + w.client.captured
              /\ w.swap = Run(old.skipped, w.client.captured)
  BY <1>1, <1>3, <1>6, <1>12, <1>16 DEF Sound, InStep
<1>17. InStep(v, n)
  <2> SUFFICES ASSUME w.sockets[1].state = "GET_DATA"
               PROVE  /\ v.client.eth # NULL /\ v.swap = Run(peer.skipped, v.client.captured)
                      /\ peer.head # "unsent" /\ peer.sent = peer.skipped + v.client.captured + n
    BY <1>11, <1>12 DEF InStep
  <2>1. peer.head # "unsent" /\ v.swap = Run(peer.skipped, v.client.captured)
    BY <1>6, <1>7, <1>11, <1>16
  <2>2. peer.sent = peer.skipped + v.client.captured + n
    BY <1>1, <1>2, <1>6, <1>7, <1>11, <1>16
  <2> QED  BY <1>3, <1>11, <2>1, <2>2
<1>18. Hears(v, g)
  <2>1. n <= peer.sent /\ peer.sent - n = old.sent
    BY <1>2, <1>6, <1>7
  <2>2. \A k \in 1 .. n : g.units[k] = peer.sent - n + k
    BY <1>8, <2>1
  <2>3. ASSUME g.reads = "end"
        PROVE  /\ peer.head # "unsent" /\ g.skip \in 0 .. n
               /\ peer.head # "cut" => g.skip = 0 /\ peer.sent = n
    BY <1>2, <1>6, <1>7, <1>8, <2>3
  <2> QED  BY <1>3, <1>8, <1>11, <1>12, <2>1, <2>2, <2>3 DEF Hears, n
<1>19. Sound(v, n)
  BY <1>11, <1>13, <1>14, <1>15, <1>17 DEF Sound
<1> QED  BY <1>3, <1>4, <1>11, <1>13, <1>18, <1>19 DEF n

LEMMA PacketKept ==
  ASSUME Sound(World, 0), NotOpening(World), NEW c \in Conns, eth[c] = "open",
         NEW g, NEW head, Segment(World, c, g, head), NEW state \in {"open", "closing"},
         Packet(c, g, head, state)
  PROVE  Keeps(World, World')
<1> DEFINE v == Arrives(World, c, g, head, state)
<1>1. World.eth = eth
  BY DEF World
<1>2. /\ Sound(v, Len(g.units)) /\ NotOpening(v) /\ Hears(v, g)
      /\ v.client = World.client /\ v.reported = World.reported
      /\ v.sockets # <<>> /\ v.sockets[1].eth = c
  BY <1>1, ArrivesSound
<1> HIDE DEF v
<1>3. Found(v, c) = 1
  BY <1>2, FoundOnly DEF Sound, OneSocket
<1>4. socket_manager_find_socket(v, c) = v
  BY <1>3 DEF socket_manager_find_socket
<1>5. PICK o \in TwoOutcomes : Becomes(http_client_handle(v, 1, g, o))
  BY <1>3, <1>4 DEF Packet, Arrives, v
<1> DEFINE x == http_client_handle(v, 1, g, o)
<1>6. Sound(x, 0) /\ NotOpening(x) /\ Ends(v, x)
  BY <1>2, OutcomesTyped, HandleSound
<1> HIDE DEF x
<1>7. Keeps(World, x)
  BY <1>2, <1>6 DEF Keeps, Ends
<1> QED  BY <1>5, <1>7, StepKept DEF x

LEMMA UnitsTyped ==
  ASSUME Sound(World, 0), NEW c \in Conns, NEW n \in 0 .. Left(c)
  PROVE  /\ n \in Nat /\ Units(c, n) \in Seq(Nat) /\ Len(Units(c, n)) = n
         /\ server[c].sent + n <= server[c].size
         /\ \A k \in 1 .. n : Units(c, n)[k] = server[c].sent + k
<1>1. server[c] \in Peers
  BY DEF Sound, Worlds, World
<1>2. n \in Nat /\ server[c].sent + n <= server[c].size
  BY <1>1 DEF Left, Peers
<1>3. \A k \in 1 .. n : server[c].sent + k \in Nat
  BY <1>1, <1>2 DEF Peers
<1> QED  BY <1>2, <1>3 DEF Units

LEMMA NetworkKept ==
  ASSUME Sound(World, 0), NotOpening(World), NEW c \in Conns,
         Poll(c) \/ Fin(c) \/ Header(c) \/ Body(c)
  PROVE  Keeps(World, World')
<1>1. World.server = server /\ server[c] \in Peers
  BY DEF Sound, Worlds, World
<1>2. server[c].sent \in Nat /\ server[c].size \in Nat /\ server[c].sent <= server[c].size
  BY <1>1 DEF Sound, PeerKnown, PeerSound, Peers
<1>3. server[c].head \in Heads
  BY <1>1 DEF Peers
<1>4. \A reads \in {"none", "part", "bad", "long"} : Segment(World, c, Lines(reads), server[c].head)
  BY <1>1, <1>2, <1>3 DEF Segment, Lines
<1>5. CASE Poll(c) \/ Fin(c)
  <2>1. NoData = Lines("none")
    BY DEF NoData, Lines
  <2>2. /\ eth[c] = "open"
        /\ \E state \in {"open", "closing"} : Packet(c, Lines("none"), server[c].head, state)
    BY <1>5, <2>1 DEF Poll, Fin
  <2> QED  BY <1>4, <2>2, PacketKept
<1>6. ASSUME NEW n \in 0 .. Left(c), NEW g \in Misread(c, n)
      PROVE  /\ g.units = Units(c, n)
             /\ g.reads = "end" => g.skip \in 1 .. n
  BY DEF Misread, Plain, End
<1>7. ASSUME NEW n \in 0 .. Left(c), NEW g, g.units = Units(c, n), NEW head \in {"sent", "cut"},
             server[c].head # "unsent" => head = server[c].head,
             g.reads = "end" => /\ g.skip \in 0 .. n
                                /\ head # "cut" => server[c].head = "unsent" /\ g.skip = 0
      PROVE  Segment(World, c, g, head)
  BY <1>1, <1>7, UnitsTyped DEF Segment, Heads
<1>8. CASE Header(c)
  <2>1. eth[c] = "open" /\ server[c].head = "unsent"
    BY <1>8 DEF Header
  <2>2. ASSUME NEW reads \in {"part", "bad", "long"}, Packet(c, Lines(reads), "unsent", "open")
        PROVE  Keeps(World, World')
    BY <1>4, <2>1, <2>2, PacketKept
  <2>3. ASSUME NEW n \in 0 .. Left(c), Packet(c, End(c, n), "sent", "open")
        PROVE  Keeps(World, World')
    <3>1. n \in Nat
      BY UnitsTyped
    <3>2. End(c, n).units = Units(c, n) /\ End(c, n).skip = 0 /\ 0 \in 0 .. n
      BY <3>1 DEF End
    <3>3. Segment(World, c, End(c, n), "sent")
      BY <1>7, <2>1, <3>2
    <3> QED  BY <2>1, <2>3, <3>3, PacketKept
  <2>4. ASSUME NEW n \in 0 .. Left(c), NEW g \in Misread(c, n), Packet(c, g, "cut", "open")
        PROVE  Keeps(World, World')
    <3>1. g.units = Units(c, n) /\ (g.reads = "end" => g.skip \in 0 .. n)
      BY <1>6
    <3>2. Segment(World, c, g, "cut")
      BY <1>7, <2>1, <3>1
    <3> QED  BY <2>1, <2>4, <3>2, PacketKept
  <2> QED  BY <1>8, <2>2, <2>3, <2>4 DEF Header
<1>9. CASE Body(c)
  <2>1. eth[c] = "open" /\ server[c].head \in {"sent", "cut"}
    BY <1>3, <1>9 DEF Body, Heads
  <2>2. PICK n \in 1 .. Left(c) :
          \E g \in IF server[c].head = "cut" THEN Misread(c, n) ELSE {Plain(c, n)} :
            Packet(c, g, server[c].head, "open")
    BY <1>9 DEF Body
  <2>3. n \in 0 .. Left(c)
    BY <1>2 DEF Left
  <2>4. PICK g \in IF server[c].head = "cut" THEN Misread(c, n) ELSE {Plain(c, n)} :
          Packet(c, g, server[c].head, "open")
    BY <2>2
  <2>5. CASE server[c].head = "cut"
    <3>1. g.units = Units(c, n) /\ (g.reads = "end" => g.skip \in 0 .. n)
      BY <1>6, <2>3, <2>4, <2>5
    <3>2. Segment(World, c, g, server[c].head)
      BY <1>7, <2>1, <2>3, <2>5, <3>1
    <3> QED  BY <2>1, <2>4, <3>2, PacketKept
  <2>6. CASE server[c].head = "sent"
    <3>1. g.units = Units(c, n) /\ g.reads # "end"
      BY <2>4, <2>6 DEF Plain
    <3>2. Segment(World, c, g, server[c].head)
      BY <1>7, <2>1, <2>3, <2>6, <3>1
    <3> QED  BY <2>1, <2>4, <3>2, PacketKept
  <2> QED  BY <2>1, <2>5, <2>6
<1> QED  BY <1>5, <1>8, <1>9

(* The timer interrupt.                                                    *)
LEMMA AliveKept ==
  ASSUME Sound(World, 0), NotOpening(World), alive_time_update
  PROVE  Keeps(World, World') /\ Len(sockets') = Len(sockets)
<1> DEFINE s == [k \in 1 .. Len(sockets) |->
                   [sockets[k] EXCEPT !.alive = IF @ > MAX_ALIVE_TIME THEN @ ELSE @ + 1]]
           a == IF sockets[1].alive > MAX_ALIVE_TIME THEN sockets[1].alive ELSE sockets[1].alive + 1
           t == [sockets[1] EXCEPT !.alive = a]
           v == [World EXCEPT !.sockets = s]
<1>1. World \in Worlds /\ World.sockets = sockets /\ sockets # <<>>
  BY DEF Sound, World, alive_time_update
<1>2. Len(sockets) = 1 /\ sockets[1] \in Sockets
  BY <1>1, SocketType
<1>3. a \in 0 .. MAX_ALIVE_TIME + 1
  BY <1>2, ClientAssumption DEF Sockets
<1> HIDE DEF a
<1>4. t \in Sockets
  BY <1>2, <1>3 DEF Sockets
<1>5. s = [k \in 1 .. 1 |-> t]
  BY <1>2 DEF a
<1> HIDE DEF s
<1>6. s \in Seq(Sockets) /\ Len(s) = 1 /\ s[1] = t
  <2> HIDE DEF t
  <2>1. [k \in 1 .. 1 |-> t] \in Seq(Sockets) /\ Len([k \in 1 .. 1 |-> t]) = 1
    BY <1>4
  <2> QED  BY <1>5, <2>1
<1>7. Becomes(v) /\ sockets' = s
  BY DEF alive_time_update, Becomes, World, s
<1>8. /\ Sound(v, 0) /\ Ends(World, v) /\ v.sockets # <<>>
      /\ v.sockets[1].state = World.sockets[1].state
  BY <1>1, <1>6, AliveSound
<1> HIDE DEF v
<1>9. Keeps(World, v)
  BY <1>1, <1>8 DEF Keeps, NotOpening
<1> QED  BY <1>2, <1>6, <1>7, <1>9, StepKept

(* The beat looks at the only socket.                                      *)
LEMMA BeatKept ==
  ASSUME Sound(World, 0), NotOpening(World), rest \in 0 .. Len(sockets), BeatVisits
  PROVE  Keeps(World, World') /\ rest' = 0
<1> DEFINE k == Len(sockets) - rest + 1
<1>1. World \in Worlds /\ World.sockets = sockets /\ sockets \in Seq(Sockets)
  BY DEF Sound, Worlds, World
<1>2. Len(sockets) <= 1 /\ Len(sockets) \in Nat
  BY <1>1, LenProperties DEF Sound, OneSocket
<1>3. rest = 1 /\ Len(sockets) = 1 /\ rest' = 0 /\ k = 1
  <2>1. rest > 0 /\ rest' = rest - 1
    BY DEF BeatVisits
  <2> QED  BY <1>2, <2>1
<1>4. sockets # <<>>
  BY <1>1, <1>3, OneElement
<1>5. CASE Expired(World, sockets[k])
  <2>1. PICK o \in Outcomes : Becomes(close_client_socket(World, 1, o))
    BY <1>3, <1>5 DEF BeatVisits
  <2> DEFINE v == close_client_socket(World, 1, o)
  <2>2. /\ Sound(v, 0) /\ Ends(World, v)
        /\ v.sockets = sockets \/ v.sockets = <<>>
    BY <1>1, <1>4, OutcomesTyped, CloseSound
  <2> HIDE DEF v
  <2>3. Keeps(World, v)
    BY <1>1, <2>2 DEF Keeps, NotOpening
  <2> QED  BY <1>3, <2>1, <2>3, StepKept DEF v
<1>6. CASE ~Expired(World, sockets[k])
  <2>1. Becomes(World)
    BY <1>6 DEF BeatVisits, Becomes, World
  <2>2. Keeps(World, World)
    BY DEF Keeps, Ends
  <2> QED  BY <1>3, <2>1, <2>2, StepKept
<1> QED  BY <1>5, <1>6

-----------------------------------------------------------------------------
(* The theorems.                                                           *)

ClientInv == Sound(World, 0) /\ NotOpening(World) /\ rest \in 0 .. Len(sockets)

LEMMA ClientInvInit ==
  ASSUME Init
  PROVE  ClientInv
<1>1. /\ World.client = NoRequest /\ World.sockets = <<>> /\ World.eth = [c \in Conns |-> "closed"]
      /\ World.server = [c \in Conns |-> NoServer] /\ World.files = [h \in Handles |-> NULL]
      /\ World.swap = NULL /\ World.reported = NotReported
  BY DEF Init, World
<1>2. /\ NoRequest \in Clients /\ NoRequest.eth = NULL /\ NoRequest.captured = 0
      /\ NoServer \in Peers /\ PeerSound(NoServer)
  BY ClientAssumption DEF NoRequest, NoServer, Clients, Peers, Heads, PeerSound
<1>3. /\ NotReported \in Reports /\ NotReported.state = "IDLE" /\ NotReported.data = Run(0, 0)
      /\ Len(NotReported.data) = 0
  BY DEF NotReported, Reports, States, Run
<1>4. World \in Worlds
  <2>1. <<>> \in Seq(Sockets)
    OBVIOUS
  <2> QED  BY <1>1, <1>2, <1>3, <2>1 DEF World, Worlds, EthStates, Uses
<1>5. OneSocket(World) /\ NotOpening(World) /\ InStep(World, 0)
  BY <1>1, <1>2, EmptySeq DEF OneSocket, NotOpening, InStep
<1>6. SwapKept(World) /\ FilesKept(World)
  BY <1>1, <1>2, ClientAssumption DEF SwapKept, FilesKept
<1>7. PeerKnown(World)
  BY <1>1, <1>2 DEF PeerKnown
<1>8. ReportTrue(World)
  <2>1. Runs(NotReported.data, NotReported.cut)
    BY <1>3 DEF Runs
  <2> QED  BY <1>1, <1>3, <2>1 DEF ReportTrue
<1>9. rest \in 0 .. Len(sockets)
  BY DEF Init
<1> QED  BY <1>4, <1>5, <1>6, <1>7, <1>8, <1>9 DEF ClientInv, Sound

LEMMA ClientInvNext ==
  ASSUME NoLate, ClientInv, [Next]_vars
  PROVE  ClientInv' /\ Ends(World, World')
<1>1. Sound(World, 0) /\ NotOpening(World) /\ rest \in 0 .. Len(sockets)
  BY DEF ClientInv
<1>2. SUFFICES Keeps(World, World') /\ rest' \in 0 .. Len(sockets')
  BY DEF ClientInv, Keeps, Sound
<1>3. ASSUME NEW s \in Seq(Sockets) PROVE 0 \in 0 .. Len(s)
  BY <1>3, LenProperties
<1>4. Keeps(World, World') => sockets' \in Seq(Sockets)
  BY DEF Keeps, Sound, Worlds, World
<1>5. CASE rest = 0 /\ MainLoop /\ UNCHANGED rest
  <2>1. CASE http_client_request_file
    BY <1>1, <1>3, <1>4, <1>5, <2>1, RequestKept
  <2>2. CASE http_client_request_pending
    BY <1>1, <1>3, <1>4, <1>5, <2>2, StackKept
  <2>3. ASSUME NEW c \in Conns, Established(c) \/ Reset(c)
        PROVE  Keeps(World, World') /\ rest' \in 0 .. Len(sockets')
    BY <1>1, <1>3, <1>4, <1>5, <2>3, StackKept
  <2>4. ASSUME NEW c \in Conns, Poll(c) \/ Fin(c) \/ Header(c) \/ Body(c)
        PROVE  Keeps(World, World') /\ rest' \in 0 .. Len(sockets')
    BY <1>1, <1>3, <1>4, <1>5, <2>4, NetworkKept
  <2> QED  BY <1>5, <2>1, <2>2, <2>3, <2>4 DEF MainLoop
<1>6. CASE alive_time_update /\ UNCHANGED rest
  BY <1>1, <1>6, AliveKept
<1>7. CASE BeatStarts
  <2>1. Becomes(World) /\ sockets' = sockets /\ rest' = Len(sockets) /\ sockets \in Seq(Sockets)
    BY <1>1, <1>7 DEF BeatStarts, Becomes, World, Sound, Worlds
  <2>2. Keeps(World, World)
    BY <1>1 DEF Keeps, Ends
  <2> QED  BY <2>1, <2>2, StepKept, LenProperties
<1>8. CASE BeatVisits
  BY <1>1, <1>3, <1>4, <1>8, BeatKept
<1>9. CASE UNCHANGED vars
  <2>1. Becomes(World) /\ sockets' = sockets /\ rest' = rest
    BY <1>9 DEF vars, Becomes, World
  <2>2. Keeps(World, World)
    BY <1>1 DEF Keeps, Ends
  <2> QED  BY <1>1, <2>1, <2>2, StepKept
<1> QED  BY <1>5, <1>6, <1>7, <1>8, <1>9 DEF Next, socket_manager_cleanup

(* http_client.c keeps one socket for one request, the swap file open only *)
(* for a socket that will close it (unless a FAT32_Close() fails), and the *)
(* count of what is captured in step with what the server has sent, in     *)
(* every reachable state.                                                  *)
THEOREM ClientInvariant ==
  ASSUME NoLate
  PROVE  Spec => []ClientInv
<1>1. Init => ClientInv
  BY ClientInvInit
<1>2. ClientInv /\ [Next]_vars => ClientInv'
  BY ClientInvNext
<1> QED  BY <1>1, <1>2, PTL DEF Spec

(* The types of the client's state; the pool never overflows.              *)
THEOREM ClientTypeCorrect ==
  ASSUME NoLate
  PROVE  Spec => []TypeOK
<1>1. ASSUME ClientInv PROVE TypeOK
  <2>1. /\ client \in Clients /\ sockets \in Seq(Sockets) /\ eth \in [Conns -> EthStates]
        /\ files \in [Handles -> Uses]
    BY <1>1 DEF ClientInv, Sound, Worlds, World
  <2>2. Len(sockets) <= 1 /\ Len(sockets) \in Nat
    BY <1>1, <2>1, LenProperties DEF ClientInv, Sound, OneSocket, World
  <2>3. Len(sockets) <= MAX_SOCKET /\ rest \in 0 .. Len(sockets)
    BY <1>1, <2>2, ClientAssumption DEF ClientInv
  <2>4. \A k \in 1 .. Len(sockets) : sockets[k] \in Sockets
    BY <2>1, ElementOfSeq
  <2>5. \A k \in 1 .. Len(sockets) :
          /\ sockets[k].eth \in Conns \cup {NULL} /\ sockets[k].state \in States
          /\ sockets[k].alive \in 0 .. MAX_ALIVE_TIME + 1
    BY <2>4 DEF Sockets
  <2> QED  BY <2>1, <2>3, <2>5 DEF TypeOK, Clients, EthStates, Uses
<1> QED  BY <1>1, ClientInvariant, PTL

(* The client never locks itself up: while client_request names a          *)
(* connection, the pool holds the socket whose close will clear it.        *)
THEOREM NeverLockedUp ==
  ASSUME NoLate
  PROVE  Spec => []RequestHasSocket
<1>1. ASSUME ClientInv PROVE RequestHasSocket
  <2>1. SUFFICES ASSUME client.eth # NULL PROVE Found(World, client.eth) # 0
    BY DEF RequestHasSocket
  <2>2. /\ World \in Worlds /\ Len(World.sockets) <= 1
        /\ World.sockets # <<>> /\ World.sockets[1].eth = client.eth
    BY <1>1, <2>1 DEF ClientInv, Sound, OneSocket, World
  <2> QED  BY <2>2, FoundOnly
<1> QED  BY <1>1, ClientInvariant, PTL

(* "make sure we don't leave files open": with memory for the copy, and as *)
(* long as FAT32_Close() succeeds, a file is open only for a socket whose  *)
(* close will close it.                                                    *)
THEOREM NoFileLeftOpen ==
  ASSUME NoLate, "no_memory" \notin Faults, "close_fails" \notin Faults
  PROVE  Spec => []FilesClosed
<1>1. ASSUME ClientInv PROVE FilesClosed
  <2>1. SUFFICES ASSUME NEW h \in Handles, files[h] # NULL
                 PROVE  \E k \in 1 .. Len(sockets) :
                          sockets[k].state \in {"GET_DATA", "DOWNLOAD_COMPLETE", "DISCONNECT"}
    BY DEF FilesClosed
  <2>2. World.files = files /\ World.sockets = sockets /\ files \in [Handles -> Uses]
        /\ World \in Worlds
    BY <1>1 DEF ClientInv, Sound, Worlds, World
  <2>3. files[h] = "swap"
    BY <1>1, <2>1, <2>2 DEF ClientInv, Sound, FilesKept, Uses
  <2>4. Capturing(World)
    BY <1>1, <2>2, <2>3 DEF ClientInv, Sound, FilesKept
  <2>5. Len(sockets) = 1
    BY <1>1, <2>2, <2>4, SocketType DEF ClientInv, Capturing
  <2> QED  BY <2>2, <2>4, <2>5 DEF Capturing
<1> QED  BY <1>1, ClientInvariant, PTL

(* What ReportTrue says of the units of a report, one by one.              *)
LEMMA RunsInOrder ==
  ASSUME NEW w \in Worlds, ReportTrue(w), "copy_fails" \notin Faults
  PROVE  LET r == w.reported
         IN  /\ \A n \in 2 .. Len(r.data) : r.data[n] = r.data[n - 1] + 1
             /\ r.data # <<>> /\ ~r.cut => r.data[1] = 1
<1> DEFINE data == w.reported.data
           cut == w.reported.cut
<1>1. data \in Seq(Nat)
  BY DEF Worlds, Reports
<1>2. Runs(data, cut)
  BY DEF ReportTrue
<1> HIDE DEF data, cut
<1>3. PICK m \in Nat : data = Run(m, Len(data)) /\ (~cut => m = 0)
  BY <1>2 DEF Runs
<1>4. Len(data) \in Nat /\ (data # <<>> => Len(data) >= 1)
  BY <1>1, LenProperties, EmptySeq
<1>5. \A n \in 1 .. Len(data) : data[n] = m + n
  BY <1>3, <1>4, RunCut
<1>6. \A n \in 2 .. Len(data) : data[n] = data[n - 1] + 1
  <2> TAKE n \in 2 .. Len(data)
  <2>1. n - 1 \in 1 .. Len(data) /\ n \in 1 .. Len(data)
    BY <1>4
  <2>2. data[n] = m + n /\ data[n - 1] = m + (n - 1)
    BY <1>5, <2>1
  <2> QED  BY <1>3, <2>1, <2>2
<1>7. data # <<>> /\ ~cut => data[1] = 1
  <2> SUFFICES ASSUME data # <<>>, ~cut PROVE data[1] = 1
    OBVIOUS
  <2>1. m = 0 /\ data[1] = m + 1
    BY <1>3, <1>4, <1>5
  <2> QED  BY <2>1
<1> QED  BY <1>6, <1>7 DEF data, cut

(* What the callback is given is the body without a gap, from its first    *)
(* unit on unless the end of the header came in two segments, as long as   *)
(* no read or write of the copy fails.                                     *)
THEOREM ReportsInOrder ==
  ASSUME NoLate, "copy_fails" \notin Faults
  PROVE  Spec => []ReportedInOrder
<1>1. ASSUME ClientInv PROVE ReportedInOrder
  <2>1. World \in Worlds /\ ReportTrue(World) /\ World.reported = reported
    BY <1>1 DEF ClientInv, Sound, World
  <2>2. /\ \A n \in 2 .. Len(reported.data) : reported.data[n] = reported.data[n - 1] + 1
        /\ reported.data # <<>> /\ ~reported.cut => reported.data[1] = 1
    BY <2>1, RunsInOrder
  <2> QED  BY <2>2 DEF ReportedInOrder
<1> QED  BY <1>1, ClientInvariant, PTL

(* A download that has reached its announced end is reported whole, as     *)
(* long as no read or write of the copy fails.                             *)
THEOREM ReportsWhole ==
  ASSUME NoLate, "copy_fails" \notin Faults
  PROVE  Spec => []CompleteIsWhole
<1>1. ASSUME ClientInv PROVE CompleteIsWhole
  BY <1>1 DEF ClientInv, Sound, ReportTrue, World, CompleteIsWhole
<1> QED  BY <1>1, ClientInvariant, PTL

(* A request is reported once, in the step that ends it.                   *)
THEOREM ReportsOnce ==
  ASSUME NoLate
  PROVE  Spec => ReportEndsRequest
<1>1. ASSUME ClientInv, [Next]_vars
      PROVE  [reported' # reported => client.eth # NULL /\ client'.eth = NULL]_vars
  BY <1>1, ClientInvNext DEF Ends, World
<1> QED  BY <1>1, ClientInvariant, PTL DEF Spec, ReportEndsRequest

=============================================================================
