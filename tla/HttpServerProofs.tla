---------------------------- MODULE HttpServerProofs ----------------------------
(***************************************************************************)
(* Proofs about the web server, for any number of connections, any pages,  *)
(* any traffic and any outcome of the calls to the TCP stack and FAT32.    *)
(*                                                                         *)
(* The operators of the model work on a record w of the whole state; so do *)
(* the parts of the invariant, and there is a lemma for each operator.  A  *)
(* packet of connection c changes nothing but what belongs to c, the pages *)
(* that c may ask for, the files and the buffer of POST data: so a lemma   *)
(* shows what holds of c (Sound) and what is left alone (Kept).            *)
(***************************************************************************)
EXTENDS HttpServer, TLAPS, FiniteSetTheorems, SequenceTheorems

States == {"IDLE", "GET_REQUEST", "PROCESS_REQUEST", "FIND_FILE", "SERVE_HEADERS",
           "SERVE_BODY", "WAIT_TILL_DONE", "DISCONNECT"}
Resting == {"GET_REQUEST", "PROCESS_REQUEST", "SERVE_BODY", "WAIT_TILL_DONE", "DISCONNECT"}
Requesting == {"IDLE", "GET_REQUEST", "PROCESS_REQUEST", "FIND_FILE"}

(* The names a peer may ask for, and those that any peer may.              *)
NamesOf(q, c) == {NULL} \cup {g.target : g \in q[c]}
Names == {NULL} \cup UNION {NamesOf(q, c) : q \in Traffic, c \in Conns}

Sockets == [state : States, req : {"UNKNOWN", "GET", "POST", "PUT"}, conn : Options,
            resp : {"UNKNOWN", "200", "404"}, target : Names, name : Names, clen : Nat,
            page : Pages \cup {NULL}, base : Nat, alive : 0 .. MAX_ALIVE_TIME + 1]
PageStates == [cur : Nat, len : Nat \ {0}, bpos : Nat, fpos : Nat, handle : Handles \cup {-1}]
Files == [page : Pages \cup {NULL}, off : Nat]
Units == Conns \cup {Junk}
Postings == [conn : Conns \cup {NULL}, want : Nat, data : Seq(Units)]
EthStates == {"open", "closing", "closed"}

Worlds == [sock : [Conns -> Sockets \cup {NoSocket}], page : [Pages -> PageStates],
           file : [Handles -> Files], eth : [Conns -> EthStates], tx : [Conns -> 0 .. TX],
           post : Seq(Units), posted : Postings, sent : [Conns -> Seq(Nat)],
           hdr : [Conns -> Nat]]

-----------------------------------------------------------------------------
(* The invariant.                                                          *)

Upto(n) == [k \in 1 .. n |-> k]

Position(w) == \A p \in Pages : Kind[p] # "flash" => w.page[p].cur < w.page[p].len

(* A file is open for each socket that serves it, at most: so a close,     *)
(* which closes one file of its page, leaves none without a socket.  It is *)
(* kept by peers that ask for no connection to be kept alive on which they *)
(* fetch files.                                                            *)
Page(w, c) == IF w.sock[c] = NoSocket THEN NULL ELSE w.sock[c].page
Serving(w, p) == {c \in Conns : Page(w, c) = p}
FlashFiles(w) == \A h \in Handles : w.file[h].page # NULL => Kind[w.file[h].page] = "flash"
FileCount(w) == \A p \in Pages : Cardinality(OpenFor(w, p)) <= Cardinality(Serving(w, p))

FilesNotKept ==
  \A q \in Traffic : \A c \in Conns : \A g, k \in q[c] :
    g.conn = "KEEP_ALIVE" /\ k.target \in Pages => Kind[k.target] # "flash"

(* What a socket keeps of its requests came from its own peer.             *)
SocketFits(w, q, c) ==
  LET s == w.sock[c]
  IN  /\ s.target \in NamesOf(q, c) /\ s.name \in NamesOf(q, c) /\ s.page \in NamesOf(q, c)
      /\ s.state \in Requesting => s.page = NULL
      /\ s.conn = "KEEP_ALIVE" => \E g \in q[c] : g.conn = "KEEP_ALIVE"
      /\ s.req = "POST" => Posts(q, c)
      /\ s.state = "PROCESS_REQUEST" => s.req \in {"GET", "POST"}

(* What has been sent is what the position says, and the header announced  *)
(* what the page holds.                                                    *)
BodyFits(w, c) ==
  LET s == w.sock[c]
      p == s.page
  IN  p # NULL /\ Kind[p] # "flash" =>
        /\ s.state = "SERVE_HEADERS" => w.page[p].cur = 0
        /\ s.state = "SERVE_BODY" => /\ w.hdr[c] = w.page[p].len
                                     /\ w.sent[c] = Upto(w.page[p].cur)
        /\ s.state = "WAIT_TILL_DONE" /\ w.eth[c] = "open" => w.sent[c] = Upto(w.hdr[c])

(* While a POST waits for the rest of its body, the buffer is its own.     *)
PostFits(w, c) ==
  w.sock[c].state = "PROCESS_REQUEST" /\ w.sock[c].req = "POST" =>
    w.post = Copies(c, Len(w.post))

Posted(w) ==
  w.posted # NotPosted =>
    /\ Len(w.posted.data) >= w.posted.want
    /\ SubSeq(w.posted.data, 1, w.posted.want) = Copies(w.posted.conn, w.posted.want)

Local(w, q, c) ==
  w.sock[c] # NoSocket =>
    /\ SocketFits(w, q, c)
    /\ OwnPages(q) /\ "slot_reused" \notin Faults => BodyFits(w, c)
    /\ OnePoster(q) => PostFits(w, c)

Shared(w, q) ==
  /\ Position(w) /\ FlashFiles(w)
  /\ FilesNotKept => FileCount(w)
  /\ OnePoster(q) => Posted(w)

Sound(w, q, c) == w \in Worlds /\ Shared(w, q) /\ Local(w, q, c)

Kept(w, v, q, c) ==
  /\ \A d \in Conns \ {c} : /\ v.sock[d] = w.sock[d] /\ v.eth[d] = w.eth[d]
                            /\ v.sent[d] = w.sent[d] /\ v.hdr[d] = w.hdr[d]
  /\ w.sock[c] = NoSocket => v.sock[c] = NoSocket
  /\ \A p \in Pages : p \notin NamesOf(q, c) => v.page[p] = w.page[p]
  /\ v.post = w.post \/ Posts(q, c)

Step(w, v, q, c) == Sound(v, q, c) /\ Kept(w, v, q, c)

Whole(w, q) ==
  /\ w \in Worlds /\ Shared(w, q) /\ Cardinality(InUse(w)) <= MAX_SOCKET
  /\ \A c \in Conns : Local(w, q, c)

Rested(w) == \A c \in Conns : w.sock[c] # NoSocket => w.sock[c].state \in Resting

ServerInv ==
  /\ Whole(World, peers) /\ Rested(World)
  /\ peers \in Traffic /\ rest \subseteq InUse(World)

-----------------------------------------------------------------------------
(* Handles, names and changes of one socket.                               *)

(* A nonempty set of natural numbers has a least element.                  *)
LEMMA LeastElement ==
  ASSUME NEW E \in SUBSET Nat, E # {}
  PROVE  Min(E) \in E /\ \A j \in E : Min(E) <= j
<1> DEFINE Less == {ss \in Nat \X Nat : ss[1] < ss[2]}
<1>1. IsWellFoundedOn(Less, Nat)
  BY NatLessThanWellFounded DEF OpToRel
<1>2. PICK k \in E : \A j \in E : <<j, k>> \notin Less
  BY <1>1, WFMin
<1>3. \A j \in E : k <= j
  <2> TAKE j \in E
  <2>1. j \in Nat /\ k \in Nat /\ ~(j < k)
    BY <1>2
  <2> QED  BY <2>1
<1> QED  BY <1>3 DEF Min

LEMMA LeastHandle ==
  ASSUME NEW hs \in SUBSET Handles, hs # {}
  PROVE  Min(hs) \in hs /\ Min(hs) \in Handles
BY HttpAssumption, LeastElement

(* What the peers send is well formed.                                     *)
LEMMA SegmentType ==
  ASSUME NEW q \in Traffic, NEW c \in Conns, NEW g \in q[c] \cup {NoData}
  PROVE  /\ IsSegment(g) /\ Bytes(g) \in Nat
         /\ g.target \in NamesOf(q, c) /\ NamesOf(q, c) \subseteq Names /\ NULL \in NamesOf(q, c)
         /\ g.conn = "KEEP_ALIVE" => \E k \in q[c] : k.conn = "KEEP_ALIVE"
         /\ g.method = "POST" => Posts(q, c)
<1>1. IsSegment(g)
  <2>1. CASE g \in q[c]
    BY <2>1, HttpAssumption
  <2>2. CASE g = NoData
    BY <2>2 DEF IsSegment, NoData, Methods, Options
  <2> QED  BY <2>1, <2>2
<1>2. Bytes(g) \in Nat
  BY <1>1 DEF Bytes, IsSegment
<1>3. g.target \in NamesOf(q, c) /\ NULL \in NamesOf(q, c)
  BY DEF NamesOf, NoData
<1>4. NamesOf(q, c) \subseteq Names
  BY DEF Names
<1>5. /\ g.conn = "KEEP_ALIVE" => \E k \in q[c] : k.conn = "KEEP_ALIVE"
      /\ g.method = "POST" => Posts(q, c)
  BY DEF NoData, Posts
<1> QED  BY <1>1, <1>2, <1>3, <1>4, <1>5

LEMMA SocketType ==
  ASSUME NEW w \in Worlds, NEW c \in Conns, w.sock[c] # NoSocket
  PROVE  w.sock[c] \in Sockets
BY DEF Worlds

LEMMA NotNoSocket ==
  ASSUME NEW s \in Sockets
  PROVE  s # NoSocket
<1>1. s.state \in States /\ NoSocket.state = "none"
  BY DEF Sockets, NoSocket
<1> QED  BY <1>1 DEF States

(* Another value for the socket of c.                                      *)
SocketOf(w, c, s) == [w EXCEPT !.sock[c] = s]

LEMMA SocketSet ==
  ASSUME NEW w \in Worlds, NEW c \in Conns, NEW s \in Sockets \cup {NoSocket}
  PROVE  LET v == SocketOf(w, c, s)
         IN  /\ v \in Worlds /\ v.sock[c] = s /\ \A d \in Conns \ {c} : v.sock[d] = w.sock[d]
             /\ v.page = w.page /\ v.file = w.file /\ v.eth = w.eth /\ v.tx = w.tx
             /\ v.post = w.post /\ v.posted = w.posted /\ v.sent = w.sent /\ v.hdr = w.hdr
BY DEF SocketOf, Worlds

-----------------------------------------------------------------------------
(* Counting files and the sockets they are open for.                       *)

LEMMA CountType ==
  ASSUME NEW w, NEW p
  PROVE  /\ IsFiniteSet(OpenFor(w, p)) /\ Cardinality(OpenFor(w, p)) \in Nat
         /\ IsFiniteSet(Serving(w, p)) /\ Cardinality(Serving(w, p)) \in Nat
<1>1. OpenFor(w, p) \subseteq Handles /\ Serving(w, p) \subseteq Conns
  BY DEF OpenFor, Serving
<1> QED  BY <1>1, HttpAssumption, FS_Subset, FS_CardinalityType

(* A step that opens no file of a page and leaves its sockets.             *)
LEMMA CountKept ==
  ASSUME NEW w, NEW v, NEW p, Cardinality(OpenFor(w, p)) <= Cardinality(Serving(w, p)),
         OpenFor(v, p) \subseteq OpenFor(w, p), Serving(w, p) \subseteq Serving(v, p)
  PROVE  Cardinality(OpenFor(v, p)) <= Cardinality(Serving(v, p))
<1>1. /\ Cardinality(OpenFor(v, p)) <= Cardinality(OpenFor(w, p))
      /\ Cardinality(Serving(w, p)) <= Cardinality(Serving(v, p))
  BY CountType, FS_Subset
<1> QED  BY <1>1, CountType

LEMMA CountEmpty ==
  ASSUME NEW w, NEW p, OpenFor(w, p) = {}
  PROVE  Cardinality(OpenFor(w, p)) <= Cardinality(Serving(w, p))
<1>1. Cardinality(OpenFor(w, p)) = 0
  BY FS_EmptySet
<1> QED  BY <1>1, CountType

(* One of each goes, or one of each comes.                                 *)
LEMMA CountLess ==
  ASSUME NEW w, NEW v, NEW p, Cardinality(OpenFor(w, p)) <= Cardinality(Serving(w, p)),
         NEW h \in OpenFor(w, p), OpenFor(v, p) = OpenFor(w, p) \ {h},
         NEW c \in Serving(w, p), Serving(v, p) = Serving(w, p) \ {c}
  PROVE  Cardinality(OpenFor(v, p)) <= Cardinality(Serving(v, p))
<1>1. /\ Cardinality(OpenFor(v, p)) = Cardinality(OpenFor(w, p)) - 1
      /\ Cardinality(Serving(v, p)) = Cardinality(Serving(w, p)) - 1
  BY CountType, FS_RemoveElement
<1> QED  BY <1>1, CountType

LEMMA CountMore ==
  ASSUME NEW w, NEW v, NEW p, Cardinality(OpenFor(w, p)) <= Cardinality(Serving(w, p)),
         NEW h, h \notin OpenFor(w, p), OpenFor(v, p) = OpenFor(w, p) \cup {h},
         NEW c, c \notin Serving(w, p), Serving(v, p) = Serving(w, p) \cup {c}
  PROVE  Cardinality(OpenFor(v, p)) <= Cardinality(Serving(v, p))
<1>1. /\ Cardinality(OpenFor(v, p)) = Cardinality(OpenFor(w, p)) + 1
      /\ Cardinality(Serving(v, p)) = Cardinality(Serving(w, p)) + 1
  BY CountType, FS_AddElement
<1> QED  BY <1>1, CountType

-----------------------------------------------------------------------------
(* A socket that is changed but keeps its page, if it has one: its own     *)
(* facts are to be shown, all others stay.                                 *)
LEMMA SocketStep ==
  ASSUME NEW q \in Traffic, NEW c \in Conns, NEW w, Sound(w, q, c), w.sock[c] # NoSocket,
         NEW s \in Sockets, w.sock[c].page \in {NULL, s.page},
         Local(SocketOf(w, c, s), q, c)
  PROVE  Step(w, SocketOf(w, c, s), q, c)
<1> DEFINE v == SocketOf(w, c, s)
<1>1. /\ v \in Worlds /\ v.sock[c] = s /\ \A d \in Conns \ {c} : v.sock[d] = w.sock[d]
      /\ v.page = w.page /\ v.file = w.file /\ v.eth = w.eth /\ v.tx = w.tx
      /\ v.post = w.post /\ v.posted = w.posted /\ v.sent = w.sent /\ v.hdr = w.hdr
  BY SocketSet DEF Sound
<1>2. s # NoSocket
  BY NotNoSocket
<1> HIDE DEF v
<1>3. \A p \in Pages : OpenFor(v, p) \subseteq OpenFor(w, p) /\ Serving(w, p) \subseteq Serving(v, p)
  BY <1>1, <1>2, HttpAssumption DEF OpenFor, Serving, Page
<1>4. Shared(v, q)
  <2>1. Position(v) /\ FlashFiles(v)
    BY <1>1 DEF Sound, Shared, Position, FlashFiles
  <2>2. FilesNotKept => FileCount(v)
    BY <1>3, CountKept DEF Sound, Shared, FileCount
  <2>3. OnePoster(q) => Posted(v)
    BY <1>1 DEF Sound, Shared, Posted
  <2> QED  BY <2>1, <2>2, <2>3 DEF Shared
<1>5. Kept(w, v, q, c)
  BY <1>1 DEF Kept
<1> QED  BY <1>1, <1>4, <1>5 DEF Step, Sound, v

(* Steps of one connection follow each other.                              *)
LEMMA KeptChain ==
  ASSUME NEW q, NEW c, NEW w, NEW v, NEW x, Kept(w, v, q, c), Kept(v, x, q, c)
  PROVE  Kept(w, x, q, c)
BY DEF Kept

LEMMA KeptSame ==
  ASSUME NEW q, NEW c, NEW w
  PROVE  Kept(w, w, q, c)
BY DEF Kept

-----------------------------------------------------------------------------
(* close_server_socket(): the socket is gone, and one file of its page.    *)
LEMMA GoneStep ==
  ASSUME NEW q \in Traffic, NEW c \in Conns, NEW w, Sound(w, q, c), w.sock[c] # NoSocket,
         NEW v, v \in Worlds, v.sock[c] = NoSocket, Position(v), FlashFiles(v),
         FilesNotKept => FileCount(v), v.post = w.post, v.posted = w.posted,
         \A d \in Conns \ {c} : /\ v.sock[d] = w.sock[d] /\ v.eth[d] = w.eth[d]
                                /\ v.sent[d] = w.sent[d] /\ v.hdr[d] = w.hdr[d],
         \A p \in Pages : p # w.sock[c].page => v.page[p] = w.page[p]
  PROVE  Step(w, v, q, c)
<1>1. Shared(v, q) /\ Local(v, q, c)
  BY DEF Sound, Shared, Local, Posted
<1>2. w.sock[c].page \in NamesOf(q, c)
  BY DEF Sound, Local, SocketFits
<1> QED  BY <1>1, <1>2 DEF Step, Sound, Kept

LEMMA CloseSound ==
  ASSUME NEW q \in Traffic, NEW c \in Conns, NEW w, Sound(w, q, c), w.sock[c] # NoSocket,
         NEW b \in BOOLEAN
  PROVE  LET v == close_server_socket(w, c, b)
         IN  Step(w, v, q, c) /\ (v = w \/ v.sock[c] = NoSocket)
<1> DEFINE p == w.sock[c].page
           gone == [w EXCEPT !.sock[c] = NoSocket, !.eth[c] = "closed", !.tx[c] = 0]
           v == close_server_socket(w, c, b)
<1>1. w \in Worlds /\ w.sock[c] \in Sockets /\ p \in Pages \cup {NULL} /\ NULL \notin Pages
  BY SocketType, HttpAssumption DEF Sound, Sockets
<1>2. 0 \in 0 .. TX /\ LARGE_BUFFER_SIZE - 1 \in Nat
  BY HttpAssumption
<1>3. /\ gone \in Worlds /\ gone.sock[c] = NoSocket
      /\ \A d \in Conns \ {c} : /\ gone.sock[d] = w.sock[d] /\ gone.eth[d] = w.eth[d]
                                /\ gone.sent[d] = w.sent[d] /\ gone.hdr[d] = w.hdr[d]
      /\ gone.page = w.page /\ gone.file = w.file /\ gone.post = w.post /\ gone.posted = w.posted
  BY <1>1, <1>2 DEF Worlds, EthStates
<1>11. \/ v = w
       \/ v = gone /\ p = NULL
       \/ v = [gone EXCEPT !.page[p].cur = 0] /\ p \in Pages /\ Kind[p] # "flash"
       \/ v = CloseFlash(gone, p) /\ p \in Pages /\ Kind[p] = "flash"
  BY <1>1 DEF close_server_socket
<1> SUFFICES Step(w, v, q, c) /\ (v = w \/ v.sock[c] = NoSocket)
  OBVIOUS
<1> HIDE DEF gone, v
<1>4. /\ Position(w) /\ FlashFiles(w)
      /\ FilesNotKept => FileCount(w)
  BY DEF Sound, Shared
<1>5. c \in Serving(w, p) /\ \A x \in Pages : Serving(gone, x) = Serving(w, x) \ {c}
  BY <1>1, <1>3 DEF Serving, Page
<1>6. \A x \in Pages : x # p => Serving(gone, x) = Serving(w, x)
  <2>1. \A x : x # p => c \notin Serving(w, x)
    BY DEF Serving, Page
  <2> QED  BY <1>5, <2>1
<1>7. CASE v = w
  <2>1. Step(w, w, q, c)
    BY KeptSame DEF Step
  <2> QED  BY <1>7, <2>1
<1>8. CASE v = gone /\ p = NULL
  <2>1. FileCount(w) => FileCount(gone)
    <3> SUFFICES ASSUME FileCount(w), NEW x \in Pages
                 PROVE  Cardinality(OpenFor(gone, x)) <= Cardinality(Serving(gone, x))
      BY DEF FileCount
    <3>1. OpenFor(gone, x) = OpenFor(w, x) /\ Serving(gone, x) = Serving(w, x)
      BY <1>1, <1>3, <1>6, <1>8 DEF OpenFor
    <3> QED  BY <3>1 DEF FileCount
  <2>2. Position(gone) /\ FlashFiles(gone)
    BY <1>3, <1>4 DEF Position, FlashFiles
  <2>3. Step(w, gone, q, c)
    BY <1>3, <1>4, <2>1, <2>2, GoneStep
  <2> QED  BY <1>3, <1>8, <2>3
<1>9. CASE v = [gone EXCEPT !.page[p].cur = 0] /\ p \in Pages /\ Kind[p] # "flash"
  <2> DEFINE x == [gone EXCEPT !.page[p].cur = 0]
  <2>1. [gone.page[p] EXCEPT !.cur = 0] \in PageStates
    <3>1. gone.page[p] \in PageStates
      BY <1>1, <1>3, <1>9 DEF Worlds
    <3> QED  BY <3>1 DEF PageStates
  <2>2. /\ x \in Worlds /\ x.sock = gone.sock /\ x.eth = gone.eth /\ x.sent = gone.sent
        /\ x.hdr = gone.hdr /\ x.file = w.file /\ x.post = w.post /\ x.posted = w.posted
        /\ x.page[p] = [w.page[p] EXCEPT !.cur = 0]
        /\ \A y \in Pages : y # p => x.page[y] = w.page[y]
    BY <1>3, <1>9, <2>1 DEF Worlds
  <2> HIDE DEF x
  <2>3. Position(x)
    <3>1. w.page[p] \in PageStates
      BY <1>1, <1>9 DEF Worlds
    <3>2. x.page[p].cur = 0 /\ x.page[p].len \in Nat \ {0}
      BY <2>2, <3>1 DEF PageStates
    <3>3. x.page[p].cur < x.page[p].len
      BY <3>2
    <3> QED  BY <1>4, <2>2, <3>3 DEF Position
  <2>4. FlashFiles(x)
    BY <1>4, <2>2 DEF FlashFiles
  <2>5. FileCount(w) => FileCount(x)
    <3> SUFFICES ASSUME FileCount(w), NEW y \in Pages
                 PROVE  Cardinality(OpenFor(x, y)) <= Cardinality(Serving(x, y))
      BY DEF FileCount
    <3>1. OpenFor(x, y) = OpenFor(w, y) /\ Serving(x, y) = Serving(gone, y)
      BY <2>2 DEF OpenFor, Serving, Page
    <3>2. CASE y = p
      <4>1. OpenFor(x, y) = {}
        BY <1>1, <1>4, <1>9, <3>1, <3>2 DEF OpenFor, FlashFiles
      <4> QED  BY <4>1, CountEmpty
    <3>3. CASE y # p
      BY <1>6, <3>1, <3>3 DEF FileCount
    <3> QED  BY <3>2, <3>3
  <2>6. Step(w, x, q, c)
    BY <1>3, <1>4, <2>2, <2>3, <2>4, <2>5, GoneStep
  <2> QED  BY <1>3, <1>9, <2>2, <2>6 DEF x
<1>10. CASE v = CloseFlash(gone, p) /\ p \in Pages /\ Kind[p] = "flash"
  <2> DEFINE hs == OpenFor(w, p)
             h == Min(hs)
             g == [gone.page[p] EXCEPT !.fpos = LARGE_BUFFER_SIZE - 1]
             rewound == [gone EXCEPT !.page[p] = g]
             closed == CloseFile(w.file, h)
             r == [g EXCEPT !.handle = h]
             x == [gone EXCEPT !.page[p] = r, !.file = closed]
  <2>1. g \in PageStates
    <3>1. gone.page[p] \in PageStates
      BY <1>1, <1>3, <1>10 DEF Worlds
    <3> QED  BY <1>2, <3>1 DEF PageStates
  <2> HIDE DEF g
  <2>2. /\ rewound \in Worlds /\ rewound.sock = gone.sock /\ rewound.eth = gone.eth
        /\ rewound.sent = gone.sent /\ rewound.hdr = gone.hdr /\ rewound.file = w.file
        /\ rewound.post = w.post /\ rewound.posted = w.posted
        /\ \A y \in Pages : y # p => rewound.page[y] = w.page[y]
    BY <1>3, <1>10, <2>1 DEF Worlds
  <2>3. \/ hs = {} /\ v = rewound
        \/ hs # {} /\ v = x
    <3>1. OpenFor(gone, p) = hs
      BY <1>3 DEF OpenFor
    <3>2. [gone EXCEPT !.page[p].fpos = LARGE_BUFFER_SIZE - 1] = rewound
      BY DEF g
    <3>3. CASE hs = {}
      BY <1>10, <3>1, <3>2, <3>3 DEF CloseFlash
    <3>4. CASE hs # {}
      <4>1. v = [rewound EXCEPT !.page[p].handle = h, !.file = CloseFile(@, h)]
        BY <1>10, <3>1, <3>2, <3>4 DEF CloseFlash
      <4>2. rewound.page[p] = g /\ rewound.file = w.file
        BY <1>3, <1>10, <2>1, <2>2 DEF Worlds
      <4>3. v = [rewound EXCEPT !.page[p] = r, !.file = closed]
        BY <4>1, <4>2
      <4>4. [rewound EXCEPT !.page[p] = r, !.file = closed] = x
        BY <1>3, <1>10 DEF Worlds
      <4> QED  BY <3>4, <4>3, <4>4
    <3> QED  BY <3>3, <3>4
  <2>4. CASE hs = {} /\ v = rewound
    <3> HIDE DEF rewound
    <3>1. Position(rewound) /\ FlashFiles(rewound)
      BY <1>4, <1>10, <2>2 DEF Position, FlashFiles
    <3>2. FileCount(w) => FileCount(rewound)
      <4> SUFFICES ASSUME FileCount(w), NEW y \in Pages
                   PROVE  Cardinality(OpenFor(rewound, y)) <= Cardinality(Serving(rewound, y))
        BY DEF FileCount
      <4>1. OpenFor(rewound, y) = OpenFor(w, y) /\ Serving(rewound, y) = Serving(gone, y)
        BY <2>2 DEF OpenFor, Serving, Page
      <4>2. CASE y = p
        BY <2>4, <4>1, <4>2, CountEmpty
      <4>3. CASE y # p
        BY <1>6, <4>1, <4>3 DEF FileCount
      <4> QED  BY <4>2, <4>3
    <3>3. Step(w, rewound, q, c)
      BY <1>3, <1>4, <2>2, <3>1, <3>2, GoneStep
    <3> QED  BY <1>3, <2>2, <2>4, <3>3
  <2>5. CASE hs # {} /\ v = x
    <3>1. h \in hs /\ h \in Handles
      BY <2>5, LeastHandle DEF OpenFor
    <3> HIDE DEF h
    <3>2. r \in PageStates
      BY <2>1, <3>1 DEF PageStates
    <3>3. /\ closed \in [Handles -> Files] /\ closed[h].page = NULL
          /\ \A k \in Handles : k # h => closed[k] = w.file[k]
      BY <1>1, <3>1 DEF CloseFile, Worlds, Files
    <3> HIDE DEF r, closed
    <3>4. /\ x \in Worlds /\ x.sock = gone.sock /\ x.eth = gone.eth
          /\ x.sent = gone.sent /\ x.hdr = gone.hdr /\ x.file = closed
          /\ x.post = w.post /\ x.posted = w.posted
          /\ \A y \in Pages : y # p => x.page[y] = w.page[y]
      BY <1>3, <1>10, <3>2, <3>3 DEF Worlds
    <3> HIDE DEF x
    <3>5. Position(x) /\ FlashFiles(x)
      BY <1>4, <1>10, <3>1, <3>3, <3>4 DEF Position, FlashFiles
    <3>6. FileCount(w) => FileCount(x)
      <4> SUFFICES ASSUME FileCount(w), NEW y \in Pages
                   PROVE  Cardinality(OpenFor(x, y)) <= Cardinality(Serving(x, y))
        BY DEF FileCount
      <4>1. Serving(x, y) = Serving(gone, y)
        BY <3>4 DEF Serving, Page
      <4>2. CASE y = p
        <5>1. OpenFor(x, p) = hs \ {h}
          BY <1>1, <1>10, <3>1, <3>3, <3>4 DEF OpenFor
        <5>2. Serving(x, p) = Serving(w, p) \ {c}
          BY <1>5, <4>1, <4>2
        <5>3. Cardinality(OpenFor(w, p)) <= Cardinality(Serving(w, p))
          BY <1>10 DEF FileCount
        <5> QED  BY <1>5, <3>1, <4>2, <5>1, <5>2, <5>3, CountLess
      <4>3. CASE y # p
        <5>1. OpenFor(x, y) = OpenFor(w, y)
          BY <1>1, <3>1, <3>3, <3>4, <4>3 DEF OpenFor
        <5> QED  BY <1>6, <4>1, <4>3, <5>1 DEF FileCount
      <4> QED  BY <4>2, <4>3
    <3>7. Step(w, x, q, c)
      BY <1>3, <1>4, <3>4, <3>5, <3>6, GoneStep
    <3> QED  BY <1>3, <2>5, <3>4, <3>7
  <2> QED  BY <2>3, <2>4, <2>5
<1> QED  BY <1>7, <1>8, <1>9, <1>10, <1>11

-----------------------------------------------------------------------------
(* Reading a request: a socket without a page changes, and the buffer of   *)
(* POST data may be filled.                                                *)
OutcomeType == [disconnects : BOOLEAN, opens : BOOLEAN, size : DynSizes]

LEMMA LocalPageless ==
  ASSUME NEW q, NEW c, NEW w, w.sock[c].page = NULL, SocketFits(w, q, c),
         OnePoster(q) => PostFits(w, c)
  PROVE  Local(w, q, c)
BY DEF Local, BodyFits

LEMMA CopiesType ==
  ASSUME NEW x \in Units, NEW n \in Nat
  PROVE  Copies(x, n) \in Seq(Units) /\ Len(Copies(x, n)) = n
BY DEF Copies

PostOf(w, data) == [w EXCEPT !.post = data]

LEMMA PostStep ==
  ASSUME NEW q \in Traffic, NEW c \in Conns, NEW w, Sound(w, q, c), w.sock[c] # NoSocket,
         w.sock[c].req = "POST" \/ Posts(q, c), NEW data \in Seq(Units),
         OnePoster(q) /\ w.sock[c].state = "PROCESS_REQUEST" => data = Copies(c, Len(data))
  PROVE  LET v == PostOf(w, data)
         IN  Step(w, v, q, c) /\ v.sock = w.sock /\ v.post = data /\ v.posted = w.posted
<1> DEFINE v == PostOf(w, data)
<1>1. /\ v \in Worlds /\ v.sock = w.sock /\ v.page = w.page /\ v.file = w.file /\ v.eth = w.eth
      /\ v.tx = w.tx /\ v.post = data /\ v.posted = w.posted /\ v.sent = w.sent /\ v.hdr = w.hdr
  BY DEF PostOf, Sound, Worlds
<1>2. Posts(q, c)
  BY DEF Sound, Local, SocketFits
<1> SUFFICES Step(w, v, q, c)
  BY <1>1
<1> HIDE DEF v
<1>3. Shared(v, q)
  <2>1. \A p \in Pages : OpenFor(v, p) = OpenFor(w, p) /\ Serving(v, p) = Serving(w, p)
    BY <1>1 DEF OpenFor, Serving, Page
  <2>2. FileCount(w) => FileCount(v)
    BY <2>1 DEF FileCount
  <2>3. Position(v) /\ FlashFiles(v)
    BY <1>1 DEF Sound, Shared, Position, FlashFiles
  <2>4. OnePoster(q) => Posted(v)
    BY <1>1 DEF Sound, Shared, Posted
  <2> QED  BY <2>2, <2>3, <2>4 DEF Sound, Shared
<1>4. Local(v, q, c)
  <2>1. SocketFits(v, q, c)
    BY <1>1 DEF Sound, Local, SocketFits
  <2>2. OwnPages(q) /\ "slot_reused" \notin Faults => BodyFits(v, c)
    BY <1>1 DEF Sound, Local, BodyFits
  <2>3. OnePoster(q) => PostFits(v, c)
    BY <1>1 DEF PostFits
  <2> QED  BY <2>1, <2>2, <2>3 DEF Local
<1>5. Kept(w, v, q, c)
  BY <1>1, <1>2 DEF Kept
<1> QED  BY <1>1, <1>3, <1>4, <1>5 DEF Step, Sound

LEMMA Parsed ==
  ASSUME NEW q \in Traffic, NEW c \in Conns, NEW s \in Sockets, NEW g \in q[c] \cup {NoData},
         ~Refuses(s, g)
  PROVE  LET t == lineparse_client_request(s, g)
         IN  /\ t \in Sockets /\ t.page = s.page /\ t.name = s.name
             /\ t.req \in {"GET", "POST", "PUT"} /\ t.target \in {s.target, g.target}
             /\ t.conn \in {s.conn, g.conn}
             /\ t.req = "POST" => s.req = "POST" \/ g.method = "POST"
<1> DEFINE req == IF s.req = "UNKNOWN" THEN g.method ELSE s.req
           target == IF s.req = "UNKNOWN" THEN g.target ELSE s.target
           conn == IF g.conn = "UNKNOWN" THEN s.conn ELSE g.conn
           clen == IF g.clen = 0 THEN s.clen ELSE g.clen
           t == [s EXCEPT !.req = req, !.target = target, !.conn = conn, !.clen = clen]
<1>1. lineparse_client_request(s, g) = t
  BY DEF lineparse_client_request
<1>2. /\ IsSegment(g) /\ g.target \in Names
  BY SegmentType
<1>3. req \in {"GET", "POST", "PUT"} /\ (req = "POST" => s.req = "POST" \/ g.method = "POST")
  BY <1>2 DEF IsSegment, Methods, Refuses, Sockets
<1>4. target \in {s.target, g.target} /\ target \in Names
  BY <1>2 DEF Sockets
<1>5. conn \in {s.conn, g.conn} /\ conn \in Options
  BY <1>2 DEF IsSegment, Sockets
<1>6. clen \in Nat
  BY <1>2 DEF IsSegment, Sockets
<1> HIDE DEF req, target, conn, clen
<1>7. /\ t \in Sockets /\ t.page = s.page /\ t.name = s.name /\ t.req = req
      /\ t.target = target /\ t.conn = conn
  BY <1>3, <1>4, <1>5, <1>6 DEF Sockets
<1> HIDE DEF t
<1> QED  BY <1>1, <1>3, <1>4, <1>5, <1>7

(* What is found in a segment keeps a socket's facts in any state that has *)
(* no page.                                                                *)
ParsedSocket(s, g, x, name) == [lineparse_client_request(s, g) EXCEPT !.state = x, !.name = name]

LEMMA ParsedFits ==
  ASSUME NEW q \in Traffic, NEW c \in Conns, NEW w, Sound(w, q, c), w.sock[c] # NoSocket,
         w.sock[c].page = NULL, NEW g \in q[c] \cup {NoData}, ~Refuses(w.sock[c], g),
         NEW x \in {"GET_REQUEST", "PROCESS_REQUEST", "DISCONNECT"},
         NEW name \in NamesOf(q, c),
         x = "PROCESS_REQUEST" => lineparse_client_request(w.sock[c], g).req \in {"GET", "POST"}
  PROVE  LET t == lineparse_client_request(w.sock[c], g)
             s == ParsedSocket(w.sock[c], g, x, name)
             v == SocketOf(w, c, s)
         IN  /\ s \in Sockets /\ s.page = NULL /\ s.state = x /\ s.req = t.req
             /\ s.clen = t.clen /\ s.target = t.target /\ SocketFits(v, q, c)
<1> DEFINE t == lineparse_client_request(w.sock[c], g)
           s == ParsedSocket(w.sock[c], g, x, name)
           v == SocketOf(w, c, s)
<1>1. w \in Worlds /\ w.sock[c] \in Sockets /\ SocketFits(w, q, c)
  BY SocketType DEF Sound, Local
<1>2. /\ t \in Sockets /\ t.page = NULL
      /\ t.req \in {"GET", "POST", "PUT"} /\ t.target \in {w.sock[c].target, g.target}
      /\ t.conn \in {w.sock[c].conn, g.conn}
      /\ t.req = "POST" => w.sock[c].req = "POST" \/ g.method = "POST"
  BY <1>1, Parsed
<1> HIDE DEF t
<1>3. NamesOf(q, c) \subseteq Names /\ x \in States
  BY SegmentType DEF States
<1>4. /\ s \in Sockets /\ s.page = NULL /\ s.state = x /\ s.name = name /\ s.req = t.req
      /\ s.target = t.target /\ s.conn = t.conn /\ s.clen = t.clen
  BY <1>2, <1>3 DEF Sockets, ParsedSocket, t
<1> HIDE DEF s
<1>5. v.sock[c] = s
  BY <1>1, <1>4, SocketSet
<1> HIDE DEF v
<1>6. /\ g.target \in NamesOf(q, c) /\ NULL \in NamesOf(q, c)
      /\ g.conn = "KEEP_ALIVE" => \E k \in q[c] : k.conn = "KEEP_ALIVE"
      /\ g.method = "POST" => Posts(q, c)
  BY SegmentType
<1>7. s.target \in NamesOf(q, c)
  BY <1>1, <1>2, <1>4, <1>6 DEF SocketFits
<1>8. s.conn = "KEEP_ALIVE" => \E k \in q[c] : k.conn = "KEEP_ALIVE"
  BY <1>1, <1>2, <1>4, <1>6 DEF SocketFits
<1>9. s.req = "POST" => Posts(q, c)
  BY <1>1, <1>2, <1>4, <1>6 DEF SocketFits
<1>10. SocketFits(v, q, c)
  BY <1>4, <1>5, <1>6, <1>7, <1>8, <1>9 DEF SocketFits, t
<1> QED  BY <1>4, <1>10 DEF s, t, v

(* A socket without a page that is moved on with what was parsed.          *)
Moved(w, c, g, x) ==
  [w EXCEPT !.sock[c] = [lineparse_client_request(w.sock[c], g) EXCEPT !.state = x]]

LEMMA GotoStep ==
  ASSUME NEW q \in Traffic, NEW c \in Conns, NEW w, Sound(w, q, c), w.sock[c] # NoSocket,
         w.sock[c].page = NULL, NEW g \in q[c] \cup {NoData}, ~Refuses(w.sock[c], g),
         NEW x \in {"GET_REQUEST", "PROCESS_REQUEST", "DISCONNECT"},
         x = "PROCESS_REQUEST" => lineparse_client_request(w.sock[c], g).req = "GET"
  PROVE  LET v == Moved(w, c, g, x)
         IN  Step(w, v, q, c) /\ v.sock[c] # NoSocket /\ v.sock[c].state = x
<1> DEFINE t == lineparse_client_request(w.sock[c], g)
           s == ParsedSocket(w.sock[c], g, x, w.sock[c].name)
           v == SocketOf(w, c, s)
<1>1. w \in Worlds /\ w.sock[c] \in Sockets /\ w.sock[c].name \in NamesOf(q, c)
  BY SocketType DEF Sound, Local, SocketFits
<1>2. t \in Sockets /\ t.name = w.sock[c].name
  BY <1>1, Parsed
<1>3. /\ s \in Sockets /\ s.page = NULL /\ s.state = x /\ s.req = t.req
      /\ SocketFits(v, q, c)
  <2>1. x = "PROCESS_REQUEST" => lineparse_client_request(w.sock[c], g).req \in {"GET", "POST"}
    OBVIOUS
  <2> QED  BY <1>1, <2>1, ParsedFits
<1> HIDE DEF t
<1>4. [t EXCEPT !.state = x] = s
  BY <1>2 DEF Sockets, ParsedSocket, t
<1> HIDE DEF s
<1>5. v.sock[c] = s /\ s # NoSocket
  BY <1>1, <1>3, SocketSet, NotNoSocket
<1>6. PostFits(v, c)
  BY <1>3, <1>5 DEF PostFits, t
<1>7. Local(v, q, c)
  BY <1>3, <1>5, <1>6, LocalPageless
<1>8. Step(w, v, q, c)
  BY <1>3, <1>7, SocketStep
<1>9. v = Moved(w, c, g, x)
  BY <1>4 DEF SocketOf, Moved, t
<1> QED  BY <1>3, <1>5, <1>8, <1>9

(* Step 1: get_client_request().                                           *)
LEMMA RequestRead ==
  ASSUME NEW q \in Traffic, NEW c \in Conns, NEW w, Sound(w, q, c), w.sock[c] # NoSocket,
         w.sock[c].state = "GET_REQUEST", NEW g \in q[c] \cup {NoData}, NEW o \in OutcomeType
  PROVE  LET v == get_client_request(w, c, g, o)
         IN  /\ Step(w, v, q, c)
             /\ v.sock[c] # NoSocket =>
                  v.sock[c].state \in {"GET_REQUEST", "PROCESS_REQUEST", "DISCONNECT"}
<1> DEFINE s == w.sock[c]
           t == lineparse_client_request(s, g)
           Goto(x) == Moved(w, c, g, x)
           v == get_client_request(w, c, g, o)
           goal == /\ Step(w, v, q, c)
                   /\ v.sock[c] # NoSocket =>
                        v.sock[c].state \in {"GET_REQUEST", "PROCESS_REQUEST", "DISCONNECT"}
<1>1. w \in Worlds /\ s \in Sockets /\ s.page = NULL /\ SocketFits(w, q, c) /\ o.disconnects \in BOOLEAN
  BY SocketType DEF Sound, Local, SocketFits, Requesting, OutcomeType
<1>2. \/ v = close_server_socket(w, c, o.disconnects)
      \/ v = [w EXCEPT !.sock[c].state = "DISCONNECT"]
      \/ ~Refuses(s, g) /\ v = Goto("GET_REQUEST")
      \/ ~Refuses(s, g) /\ v = Goto("PROCESS_REQUEST") /\ t.req = "GET"
      \/ ~Refuses(s, g) /\ v = Goto("DISCONNECT")
      \/ /\ ~Refuses(s, g) /\ t.req \notin {"PUT", "GET"}
         /\ v = [Goto("PROCESS_REQUEST") EXCEPT !.post = Copies(c, g.data),
                                                !.sock[c].name = lineparse_process_client(t)]
  <2>1. CASE w.eth[c] # "open" \/ Bytes(g) = 0
    BY <2>1 DEF get_client_request
  <2>2. CASE ~(w.eth[c] # "open" \/ Bytes(g) = 0) /\ Refuses(s, g)
    <3>1. v = [w EXCEPT !.sock[c].state = "DISCONNECT"]
      BY <2>2, SegmentType DEF get_client_request
    <3> QED  BY <3>1
  <2>3. CASE ~(w.eth[c] # "open" \/ Bytes(g) = 0) /\ ~Refuses(s, g)
    <3>1. v = CASE ~g.end \/ t.req = "PUT" -> Goto("GET_REQUEST")
                [] g.end /\ t.req = "GET" -> Goto("PROCESS_REQUEST")
                [] g.end /\ t.req = "POST" /\ t.clen > MAX_POST_SIZE -> Goto("DISCONNECT")
                [] OTHER -> [Goto("PROCESS_REQUEST") EXCEPT
                               !.post = Copies(c, g.data),
                               !.sock[c].name = lineparse_process_client(t)]
      BY <2>3 DEF get_client_request, Moved
    <3> HIDE DEF v, t, Goto
    <3> QED  BY <2>3, <3>1
  <2> QED  BY <2>1, <2>2, <2>3
<1> SUFFICES goal
  OBVIOUS
<1> HIDE DEF v
<1>3. CASE v = close_server_socket(w, c, o.disconnects)
  <2>1. Step(w, v, q, c) /\ (v = w \/ v.sock[c] = NoSocket)
    BY <1>1, <1>3, CloseSound
  <2> QED  BY <2>1
<1>4. CASE v = [w EXCEPT !.sock[c].state = "DISCONNECT"]
  <2> DEFINE d == [s EXCEPT !.state = "DISCONNECT"]
  <2>1. d \in Sockets /\ d.page = NULL /\ d.state = "DISCONNECT"
    BY <1>1 DEF Sockets, States
  <2>2. v = SocketOf(w, c, d)
    BY <1>4 DEF SocketOf
  <2>3. v.sock[c] = d
    BY <1>1, <2>1, <2>2, SocketSet
  <2>4. SocketFits(v, q, c) /\ PostFits(v, c)
    BY <1>1, <2>3 DEF SocketFits, PostFits, Requesting, Sockets
  <2> HIDE DEF d
  <2>5. Local(v, q, c)
    BY <2>1, <2>3, <2>4, LocalPageless
  <2>6. Step(w, v, q, c)
    BY <1>1, <2>1, <2>2, <2>5, SocketStep
  <2> QED  BY <2>1, <2>3, <2>6
<1>5. CASE ~Refuses(s, g) /\ v = Goto("GET_REQUEST")
  <2> DEFINE u == Goto("GET_REQUEST")
  <2>1. Step(w, u, q, c) /\ u.sock[c] # NoSocket /\ u.sock[c].state = "GET_REQUEST"
    BY <1>1, <1>5, GotoStep
  <2> QED  BY <1>5, <2>1
<1>6. CASE ~Refuses(s, g) /\ v = Goto("PROCESS_REQUEST") /\ t.req = "GET"
  <2> DEFINE u == Goto("PROCESS_REQUEST")
  <2>1. Step(w, u, q, c) /\ u.sock[c] # NoSocket /\ u.sock[c].state = "PROCESS_REQUEST"
    BY <1>1, <1>6, GotoStep
  <2> QED  BY <1>6, <2>1
<1>7. CASE ~Refuses(s, g) /\ v = Goto("DISCONNECT")
  <2> DEFINE u == Goto("DISCONNECT")
  <2>1. Step(w, u, q, c) /\ u.sock[c] # NoSocket /\ u.sock[c].state = "DISCONNECT"
    BY <1>1, <1>7, GotoStep
  <2> QED  BY <1>7, <2>1
<1>8. CASE /\ ~Refuses(s, g) /\ t.req \notin {"PUT", "GET"}
           /\ v = [Goto("PROCESS_REQUEST") EXCEPT !.post = Copies(c, g.data),
                                                  !.sock[c].name = lineparse_process_client(t)]
  <2> DEFINE name == lineparse_process_client(t)
             data == Copies(c, g.data)
             u == PostOf(w, data)
             r == ParsedSocket(s, g, "PROCESS_REQUEST", name)
             x == SocketOf(u, c, r)
  <2>1. /\ t \in Sockets /\ t.req = "POST" /\ t.target \in {s.target, g.target} /\ t.name = s.name
        /\ s.req = "POST" \/ g.method = "POST"
    BY <1>1, <1>8, Parsed
  <2>2. /\ g.target \in NamesOf(q, c) /\ g.data \in Nat /\ Posts(q, c)
    BY <1>1, <2>1, SegmentType DEF IsSegment, SocketFits
  <2>3. name \in NamesOf(q, c)
    BY <1>1, <2>1, <2>2 DEF lineparse_process_client, SocketFits
  <2>4. data \in Seq(Units) /\ data = Copies(c, Len(data))
    BY <2>2, CopiesType DEF Units
  <2> HIDE DEF data
  <2>5. Step(w, u, q, c) /\ u.sock = w.sock /\ u.post = data
    BY <1>1, <2>2, <2>4, PostStep
  <2>6. Sound(u, q, c) /\ u \in Worlds
    BY <2>5 DEF Step, Sound
  <2> HIDE DEF u, name
  <2>7. /\ r \in Sockets /\ r.page = NULL /\ r.state = "PROCESS_REQUEST" /\ r.req = "POST"
        /\ SocketFits(x, q, c)
    BY <1>1, <1>8, <2>1, <2>3, <2>5, <2>6, ParsedFits
  <2>8. v = x
    <3>1. v = [w EXCEPT !.sock[c] = r, !.post = data]
      BY <1>1, <1>8 DEF Worlds, Moved, data, name, ParsedSocket
    <3>2. x = [w EXCEPT !.sock[c] = r, !.post = data]
      BY <1>1 DEF SocketOf, PostOf, Worlds, u
    <3> QED  BY <3>1, <3>2
  <2> HIDE DEF r, t
  <2>9. x.sock[c] = r /\ x.post = u.post /\ r # NoSocket
    BY <2>6, <2>7, SocketSet, NotNoSocket
  <2> HIDE DEF x
  <2>10. PostFits(x, c)
    BY <2>4, <2>5, <2>9 DEF PostFits
  <2>11. Local(x, q, c)
    BY <2>7, <2>9, <2>10, LocalPageless
  <2>12. Step(u, x, q, c)
    BY <1>1, <2>5, <2>6, <2>7, <2>11, SocketStep DEF x
  <2>13. Kept(w, x, q, c)
    BY <2>5, <2>12, KeptChain DEF Step
  <2> QED  BY <2>7, <2>8, <2>9, <2>12, <2>13 DEF Step
<1> QED  BY <1>2, <1>3, <1>4, <1>5, <1>6, <1>7, <1>8

-----------------------------------------------------------------------------
(* Processing a request.                                                   *)
Advanced(s, x, name) == [s EXCEPT !.state = x, !.name = name]

LEMMA AdvanceStep ==
  ASSUME NEW q \in Traffic, NEW c \in Conns, NEW w, Sound(w, q, c), w.sock[c] # NoSocket,
         w.sock[c].page = NULL, NEW x \in {"GET_REQUEST", "FIND_FILE", "DISCONNECT"},
         NEW name \in NamesOf(q, c)
  PROVE  LET s == Advanced(w.sock[c], x, name)
             v == SocketOf(w, c, s)
         IN  Step(w, v, q, c) /\ s \in Sockets /\ v.sock[c] = s /\ s # NoSocket /\ s.state = x
<1> DEFINE s == Advanced(w.sock[c], x, name)
           v == SocketOf(w, c, s)
<1>1. w \in Worlds /\ w.sock[c] \in Sockets /\ SocketFits(w, q, c)
  BY SocketType DEF Sound, Local
<1>2. NamesOf(q, c) \subseteq Names /\ x \in States
  BY SegmentType DEF States
<1>3. /\ s \in Sockets /\ s.page = NULL /\ s.state = x /\ s.name = name /\ s.req = w.sock[c].req
      /\ s.target = w.sock[c].target /\ s.conn = w.sock[c].conn
  BY <1>1, <1>2 DEF Advanced, Sockets
<1> HIDE DEF s
<1>4. v.sock[c] = s /\ s # NoSocket
  BY <1>1, <1>3, SocketSet, NotNoSocket
<1>5. SocketFits(v, q, c) /\ PostFits(v, c)
  BY <1>1, <1>3, <1>4 DEF SocketFits, PostFits
<1>6. Local(v, q, c)
  BY <1>3, <1>4, <1>5, LocalPageless
<1>7. Step(w, v, q, c)
  BY <1>3, <1>6, SocketStep
<1> QED  BY <1>3, <1>4, <1>7 DEF s

LEMMA CopiesJoin ==
  ASSUME NEW x \in Units, NEW m \in Nat, NEW n \in Nat
  PROVE  Copies(x, m) \o Copies(x, n) = Copies(x, m + n)
<1> DEFINE a == Copies(x, m)
           b == Copies(x, n)
           t == Copies(x, m + n)
<1>1. /\ a \in Seq(Units) /\ Len(a) = m /\ \A k \in 1 .. m : a[k] = x
      /\ b \in Seq(Units) /\ Len(b) = n /\ \A k \in 1 .. n : b[k] = x
      /\ t \in Seq(Units) /\ Len(t) = m + n /\ \A k \in 1 .. m + n : t[k] = x
  BY DEF Copies
<1> SUFFICES a \o b = t
  OBVIOUS
<1> HIDE DEF a, b, t
<1>2. /\ a \o b \in Seq(Units) /\ Len(a \o b) = Len(a) + Len(b)
      /\ \A k \in 1 .. Len(a) + Len(b) :
           (a \o b)[k] = IF k <= Len(a) THEN a[k] ELSE b[k - Len(a)]
  BY <1>1, ConcatProperties
<1>3. \A k \in 1 .. m + n : (a \o b)[k] = x
  BY <1>1, <1>2
<1> QED  BY <1>1, <1>2, <1>3, SeqEqual

LEMMA CopiesCut ==
  ASSUME NEW x \in Units, NEW d \in Seq(Units), NEW n \in Nat, n <= Len(d),
         \A k \in 1 .. n : d[k] = x
  PROVE  SubSeq(d, 1, n) = Copies(x, n)
<1> DEFINE a == SubSeq(d, 1, n)
           t == Copies(x, n)
<1>1. t \in Seq(Units) /\ Len(t) = n /\ \A k \in 1 .. n : t[k] = x
  BY DEF Copies
<1>2. \A k \in 1 .. n : d[k] \in Units
  OBVIOUS
<1>3. /\ a \in Seq(Units) /\ Len(a) = IF 1 <= n THEN n - 1 + 1 ELSE 0
      /\ \A k \in 1 .. n - 1 + 1 : a[k] = d[1 + k - 1]
  BY <1>2, SubSeqProperties
<1> SUFFICES a = t
  OBVIOUS
<1> HIDE DEF a, t
<1>4. Len(a) = n /\ \A k \in 1 .. n : a[k] = x
  BY <1>3
<1> QED  BY <1>1, <1>3, <1>4, SeqEqual

(* The callback gets what was captured.                                    *)
PostedOf(w, r) == [w EXCEPT !.posted = r]

LEMMA PostedStep ==
  ASSUME NEW q \in Traffic, NEW c \in Conns, NEW w, Sound(w, q, c), w.sock[c] # NoSocket,
         NEW want \in Nat, NEW data \in Seq(Units), Len(data) >= want,
         OnePoster(q) => \A k \in 1 .. want : data[k] = c
  PROVE  LET v == PostedOf(w, [conn |-> c, want |-> want, data |-> data])
         IN  Step(w, v, q, c) /\ v.sock = w.sock
<1> DEFINE r == [conn |-> c, want |-> want, data |-> data]
           v == PostedOf(w, r)
<1>1. r \in Postings
  BY DEF Postings
<1>2. OnePoster(q) => SubSeq(r.data, 1, r.want) = Copies(r.conn, r.want)
  <2>1. c \in Units
    BY DEF Units
  <2>2. OnePoster(q) => SubSeq(data, 1, want) = Copies(c, want)
    BY <2>1, CopiesCut
  <2> QED  BY <2>2
<1>3. Len(r.data) >= r.want
  OBVIOUS
<1> HIDE DEF r
<1>4. /\ v \in Worlds /\ v.sock = w.sock /\ v.page = w.page /\ v.file = w.file /\ v.eth = w.eth
      /\ v.tx = w.tx /\ v.post = w.post /\ v.posted = r /\ v.sent = w.sent /\ v.hdr = w.hdr
  BY <1>1 DEF PostedOf, Sound, Worlds
<1> HIDE DEF v
<1>5. Shared(v, q)
  <2>1. \A p \in Pages : OpenFor(v, p) = OpenFor(w, p) /\ Serving(v, p) = Serving(w, p)
    BY <1>4 DEF OpenFor, Serving, Page
  <2>2. FileCount(w) => FileCount(v)
    BY <2>1 DEF FileCount
  <2>3. Position(v) /\ FlashFiles(v)
    BY <1>4 DEF Sound, Shared, Position, FlashFiles
  <2>4. OnePoster(q) => Posted(v)
    BY <1>2, <1>3, <1>4 DEF Posted
  <2> QED  BY <2>2, <2>3, <2>4 DEF Sound, Shared
<1>6. Local(v, q, c)
  <2>1. SocketFits(v, q, c)
    BY <1>4 DEF Sound, Local, SocketFits
  <2>2. OwnPages(q) /\ "slot_reused" \notin Faults => BodyFits(v, c)
    BY <1>4 DEF Sound, Local, BodyFits
  <2>3. OnePoster(q) => PostFits(v, c)
    BY <1>4 DEF Sound, Local, PostFits
  <2> QED  BY <2>1, <2>2, <2>3 DEF Local
<1>7. Kept(w, v, q, c)
  BY <1>4 DEF Kept
<1> QED  BY <1>4, <1>5, <1>6, <1>7 DEF Step, Sound, v, r

(* Step 2a: process_request().                                             *)
LEMMA RequestProcessed ==
  ASSUME NEW q \in Traffic, NEW c \in Conns, NEW w, Sound(w, q, c), w.sock[c] # NoSocket,
         w.sock[c].state = "PROCESS_REQUEST", NEW g \in q[c] \cup {NoData},
         NEW first \in BOOLEAN,
         first /\ w.sock[c].req = "POST" => Captured(w.post, w.sock[c].clen)
  PROVE  LET v == process_request(w, c, g, first)
         IN  /\ Step(w, v, q, c) /\ v.sock[c] # NoSocket
             /\ v.sock[c].state \in {"PROCESS_REQUEST", "FIND_FILE", "DISCONNECT"}
<1> DEFINE s == w.sock[c]
           n == Bytes(g)
           more == Copies(IF first THEN Junk ELSE c, n)
           captured == w.post \o more
           v == process_request(w, c, g, first)
           Done(x) == /\ Step(w, x, q, c) /\ x.sock[c] # NoSocket
                      /\ x.sock[c].state \in {"PROCESS_REQUEST", "FIND_FILE", "DISCONNECT"}
<1>1. /\ w \in Worlds /\ s \in Sockets /\ SocketFits(w, q, c)
      /\ OnePoster(q) => PostFits(w, c)
  BY SocketType DEF Sound, Local
<1>2. s.page = NULL /\ s.req \in {"GET", "POST"} /\ s.clen \in Nat /\ w.post \in Seq(Units)
  BY <1>1 DEF SocketFits, Requesting, Sockets, Worlds
<1>3. n \in Nat /\ c \in Units /\ Junk \in Units
  BY SegmentType DEF Units
<1> HIDE DEF n
<1>4. more \in Seq(Units) /\ Len(more) = n
  BY <1>3, CopiesType
<1>5. /\ captured \in Seq(Units) /\ Len(captured) = Len(w.post) + n /\ Len(w.post) \in Nat
      /\ \A k \in 1 .. Len(w.post) : captured[k] = w.post[k]
  <2> HIDE DEF more
  <2>1. /\ captured \in Seq(Units) /\ Len(captured) = Len(w.post) + Len(more)
        /\ \A k \in 1 .. Len(w.post) + Len(more) :
             captured[k] = IF k <= Len(w.post) THEN w.post[k] ELSE more[k - Len(w.post)]
    BY <1>2, <1>4, ConcatProperties
  <2>2. Len(w.post) \in Nat
    BY <1>2
  <2> HIDE DEF captured
  <2> QED  BY <1>3, <1>4, <2>1, <2>2
<1>6. ~first /\ OnePoster(q) /\ s.req = "POST" => captured = Copies(c, Len(captured))
  <2> SUFFICES ASSUME ~first, OnePoster(q), s.req = "POST"
               PROVE  captured = Copies(c, Len(captured))
    OBVIOUS
  <2>1. w.post = Copies(c, Len(w.post))
    BY <1>1 DEF PostFits
  <2>2. captured = Copies(c, Len(w.post)) \o Copies(c, n)
    BY <2>1
  <2>3. Copies(c, Len(w.post)) \o Copies(c, n) = Copies(c, Len(w.post) + n)
    BY <1>3, <1>5, CopiesJoin
  <2> QED  BY <1>5, <2>2, <2>3
<1> HIDE DEF captured, more
<1>7. \/ s.req = "GET" /\ v = [w EXCEPT !.sock[c].state = "DISCONNECT"]
      \/ s.req = "GET" /\ v = [w EXCEPT !.sock[c].state = "FIND_FILE",
                                        !.sock[c].name = lineparse_process_client(s)]
      \/ s.req = "POST" /\ ~Captured(captured, s.clen) /\ v = [w EXCEPT !.post = captured]
      \/ /\ s.req = "POST" /\ Captured(captured, s.clen)
         /\ v = [w EXCEPT !.post = captured,
                          !.posted = [conn |-> c, want |-> s.clen, data |-> captured],
                          !.sock[c].state = "FIND_FILE"]
  BY <1>2 DEF process_request, captured, more, n
<1> SUFFICES Done(v)
  OBVIOUS
<1> HIDE DEF v
<1>8. CASE s.req = "GET" /\ v = [w EXCEPT !.sock[c].state = "DISCONNECT"]
  <2> DEFINE d == Advanced(s, "DISCONNECT", s.name)
             x == SocketOf(w, c, d)
  <2>1. s.name \in NamesOf(q, c)
    BY <1>1 DEF SocketFits
  <2>2. Step(w, x, q, c) /\ x.sock[c] = d /\ d # NoSocket /\ d.state = "DISCONNECT"
    BY <1>2, <2>1, AdvanceStep
  <2>3. d = [s EXCEPT !.state = "DISCONNECT"]
    BY <1>1 DEF Advanced, Sockets
  <2>4. v = x
    BY <1>8, <2>3 DEF SocketOf
  <2> QED  BY <2>2, <2>4
<1>9. CASE s.req = "GET" /\ v = [w EXCEPT !.sock[c].state = "FIND_FILE",
                                          !.sock[c].name = lineparse_process_client(s)]
  <2> DEFINE d == Advanced(s, "FIND_FILE", lineparse_process_client(s))
             x == SocketOf(w, c, d)
  <2>1. lineparse_process_client(s) \in NamesOf(q, c)
    BY <1>1 DEF SocketFits, lineparse_process_client
  <2>2. Step(w, x, q, c) /\ x.sock[c] = d /\ d # NoSocket /\ d.state = "FIND_FILE"
    BY <1>2, <2>1, AdvanceStep
  <2>3. v = x
    BY <1>1, <1>9 DEF SocketOf, Advanced, Worlds
  <2> QED  BY <2>2, <2>3
<1>10. CASE s.req = "POST" /\ ~Captured(captured, s.clen) /\ v = [w EXCEPT !.post = captured]
  <2>1. ~first
    BY <1>2, <1>3, <1>5, <1>10 DEF Captured
  <2>2. OnePoster(q) => captured = Copies(c, Len(captured))
    BY <1>6, <1>10, <2>1
  <2> DEFINE x == PostOf(w, captured)
  <2>3. Step(w, x, q, c) /\ x.sock = w.sock
    BY <1>5, <1>10, <2>2, PostStep
  <2>4. v = x
    BY <1>10 DEF PostOf
  <2> QED  BY <2>3, <2>4
<1>11. CASE /\ s.req = "POST" /\ Captured(captured, s.clen)
            /\ v = [w EXCEPT !.post = captured,
                             !.posted = [conn |-> c, want |-> s.clen, data |-> captured],
                             !.sock[c].state = "FIND_FILE"]
  <2> DEFINE d == Advanced(s, "FIND_FILE", s.name)
             x == SocketOf(w, c, d)
             y == PostOf(x, captured)
             r == [conn |-> c, want |-> s.clen, data |-> captured]
             z == PostedOf(y, r)
  <2>1. s.name \in NamesOf(q, c)
    BY <1>1 DEF SocketFits
  <2>2. Step(w, x, q, c) /\ d \in Sockets /\ x.sock[c] = d /\ d # NoSocket /\ d.state = "FIND_FILE"
    BY <1>2, <2>1, AdvanceStep
  <2>3. d = [s EXCEPT !.state = "FIND_FILE"] /\ d.req = "POST"
    BY <1>1, <1>11 DEF Advanced, Sockets
  <2>4. v = z
    BY <1>1, <1>11, <2>3 DEF SocketOf, PostOf, PostedOf, Worlds
  <2> HIDE DEF d, r
  <2>5. Sound(x, q, c)
    BY <2>2 DEF Step
  <2> HIDE DEF x
  <2>6. Step(x, y, q, c) /\ y.sock = x.sock
    <3>1. /\ x.sock[c] # NoSocket /\ x.sock[c].req = "POST"
          /\ x.sock[c].state # "PROCESS_REQUEST"
      BY <2>2, <2>3
    <3> QED  BY <1>5, <2>5, <3>1, PostStep
  <2>7. Sound(y, q, c)
    BY <2>6 DEF Step
  <2> HIDE DEF y
  <2>8. Len(captured) >= s.clen
    BY <1>11 DEF Captured
  <2>9. OnePoster(q) => \A k \in 1 .. s.clen : captured[k] = c
    <3> SUFFICES ASSUME OnePoster(q), NEW k \in 1 .. s.clen PROVE captured[k] = c
      OBVIOUS
    <3>1. CASE first
      <4>1. Len(w.post) >= s.clen
        BY <1>11, <3>1 DEF Captured
      <4>2. w.post = Copies(c, Len(w.post))
        BY <1>1, <1>11 DEF PostFits
      <4>3. k \in 1 .. Len(w.post)
        BY <1>2, <1>5, <4>1
      <4>4. Copies(c, Len(w.post))[k] = c
        BY <4>3 DEF Copies
      <4> QED  BY <1>5, <4>2, <4>3, <4>4
    <3>2. CASE ~first
      <4>1. captured = Copies(c, Len(captured))
        BY <1>6, <1>11, <3>2
      <4>2. k \in 1 .. Len(captured)
        BY <1>2, <1>3, <1>5, <2>8
      <4>3. Copies(c, Len(captured))[k] = c
        BY <4>2 DEF Copies
      <4> QED  BY <4>1, <4>3
    <3> QED  BY <3>1, <3>2
  <2>10. Step(y, z, q, c) /\ z.sock = y.sock
    BY <1>2, <1>5, <2>2, <2>6, <2>7, <2>8, <2>9, PostedStep DEF r
  <2> HIDE DEF z
  <2>11. Kept(w, z, q, c)
    BY <2>2, <2>6, <2>10, KeptChain DEF Step
  <2> QED  BY <2>2, <2>4, <2>6, <2>10, <2>11 DEF Step
<1> QED  BY <1>7, <1>8, <1>9, <1>10, <1>11

-----------------------------------------------------------------------------
(* Finding the file.                                                       *)
PageOf(w, p, r) == [w EXCEPT !.page[p] = r]

LEMMA PageStep ==
  ASSUME NEW q \in Traffic, NEW c \in Conns, NEW w, Sound(w, q, c), w.sock[c] # NoSocket,
         w.sock[c].page = NULL, NEW p \in Pages, p \in NamesOf(q, c),
         NEW r \in PageStates, Kind[p] # "flash" => r.cur < r.len
  PROVE  LET v == PageOf(w, p, r)
         IN  /\ Step(w, v, q, c) /\ v.sock = w.sock /\ v.file = w.file /\ v.eth = w.eth
             /\ v.tx = w.tx /\ v.page[p] = r
<1> DEFINE v == PageOf(w, p, r)
<1>1. /\ v \in Worlds /\ v.sock = w.sock /\ v.file = w.file /\ v.eth = w.eth
      /\ v.tx = w.tx /\ v.post = w.post /\ v.posted = w.posted /\ v.sent = w.sent /\ v.hdr = w.hdr
      /\ v.page[p] = r /\ \A x \in Pages : x # p => v.page[x] = w.page[x]
  BY DEF PageOf, Sound, Worlds
<1> SUFFICES Step(w, v, q, c)
  BY <1>1
<1> HIDE DEF v
<1>2. Shared(v, q)
  <2>1. \A x \in Pages : OpenFor(v, x) = OpenFor(w, x) /\ Serving(v, x) = Serving(w, x)
    BY <1>1 DEF OpenFor, Serving, Page
  <2>2. FileCount(w) => FileCount(v)
    BY <2>1 DEF FileCount
  <2>3. Position(v)
    BY <1>1 DEF Sound, Shared, Position
  <2>4. FlashFiles(v)
    BY <1>1 DEF Sound, Shared, FlashFiles
  <2>5. OnePoster(q) => Posted(v)
    BY <1>1 DEF Sound, Shared, Posted
  <2> QED  BY <2>2, <2>3, <2>4, <2>5 DEF Sound, Shared
<1>3. Local(v, q, c)
  <2>1. SocketFits(v, q, c)
    BY <1>1 DEF Sound, Local, SocketFits
  <2>2. BodyFits(v, c)
    BY <1>1 DEF BodyFits
  <2>3. OnePoster(q) => PostFits(v, c)
    BY <1>1 DEF Sound, Local, PostFits
  <2> QED  BY <2>1, <2>2, <2>3 DEF Local
<1>4. Kept(w, v, q, c)
  BY <1>1 DEF Kept
<1> QED  BY <1>1, <1>2, <1>3, <1>4 DEF Step, Sound

(* The socket's page is found, or there is none.                           *)
FoundSocket(s, p, resp) == [s EXCEPT !.page = p, !.resp = resp, !.state = "SERVE_HEADERS"]

LEMMA FoundFits ==
  ASSUME NEW q \in Traffic, NEW c \in Conns, NEW w \in Worlds, NEW t \in Sockets,
         NEW p \in Pages \cup {NULL}, p \in NamesOf(q, c), NEW resp \in {"200", "404"},
         NEW v, v.sock[c] = FoundSocket(t, p, resp),
         w.sock[c] = t, SocketFits(w, q, c),
         p # NULL /\ Kind[p] # "flash" => v.page[p].cur = 0
  PROVE  /\ v.sock[c] \in Sockets /\ v.sock[c] # NoSocket /\ v.sock[c].state = "SERVE_HEADERS"
         /\ v.sock[c].page = p /\ Local(v, q, c)
<1> DEFINE s == v.sock[c]
<1>1. /\ s \in Sockets /\ s.page = p /\ s.state = "SERVE_HEADERS" /\ s.target = t.target
      /\ s.name = t.name /\ s.conn = t.conn /\ s.req = t.req
  <2>1. s = [t EXCEPT !.page = p, !.resp = resp, !.state = "SERVE_HEADERS"]
    BY DEF FoundSocket
  <2> HIDE DEF s
  <2>2. /\ s.page = p /\ s.state = "SERVE_HEADERS" /\ s.target = t.target
        /\ s.name = t.name /\ s.conn = t.conn /\ s.req = t.req
    BY <2>1 DEF Sockets
  <2>3. s \in Sockets
    <3>1. "SERVE_HEADERS" \in States /\ resp \in {"UNKNOWN", "200", "404"}
      BY DEF States
    <3> HIDE DEF States
    <3> QED  BY <2>1, <3>1 DEF Sockets
  <2> QED  BY <2>2, <2>3
<1>2. s # NoSocket
  BY <1>1, NotNoSocket
<1> HIDE DEF s
<1>3. SocketFits(v, q, c)
  BY <1>1 DEF SocketFits, Requesting, s
<1>4. BodyFits(v, c) /\ PostFits(v, c)
  BY <1>1 DEF BodyFits, PostFits, s
<1> QED  BY <1>1, <1>2, <1>3, <1>4 DEF Local, s

LEMMA FoundStep ==
  ASSUME NEW q \in Traffic, NEW c \in Conns, NEW w, Sound(w, q, c), w.sock[c] # NoSocket,
         w.sock[c].page = NULL, NEW p \in Pages \cup {NULL}, p \in NamesOf(q, c),
         NEW resp \in {"200", "404"}, p # NULL /\ Kind[p] # "flash" => w.page[p].cur = 0
  PROVE  LET v == SocketOf(w, c, FoundSocket(w.sock[c], p, resp))
         IN  Step(w, v, q, c) /\ v.sock[c] # NoSocket /\ v.sock[c].state = "SERVE_HEADERS"
<1> DEFINE t == w.sock[c]
           s == FoundSocket(t, p, resp)
           v == SocketOf(w, c, s)
<1>1. w \in Worlds /\ t \in Sockets /\ SocketFits(w, q, c)
  BY SocketType DEF Sound, Local
<1>2. s \in Sockets
  BY <1>1 DEF FoundSocket, Sockets, States
<1> HIDE DEF s
<1>3. v.sock[c] = s /\ v.page = w.page
  BY <1>1, <1>2, SocketSet
<1> HIDE DEF v
<1>4. s # NoSocket /\ s.state = "SERVE_HEADERS" /\ Local(v, q, c)
  BY <1>1, <1>3, FoundFits DEF s
<1>5. Step(w, v, q, c)
  BY <1>2, <1>4, SocketStep DEF v
<1> QED  BY <1>3, <1>4, <1>5 DEF v, s

(* A file is opened for the socket that will serve it.                     *)
OpenedOf(w, c, h, f, s) == [w EXCEPT !.file[h] = f, !.sock[c] = s]

LEMMA OpenedStep ==
  ASSUME NEW q \in Traffic, NEW c \in Conns, NEW w, Sound(w, q, c), w.sock[c] # NoSocket,
         w.sock[c].page = NULL, NEW p \in Pages, p \in NamesOf(q, c), Kind[p] = "flash",
         NEW h \in Handles, w.file[h].page = NULL, NEW f \in Files, f.page = p,
         NEW base \in Nat
  PROVE  LET t == [w.sock[c] EXCEPT !.base = base]
             v == OpenedOf(w, c, h, f, FoundSocket(t, p, "200"))
         IN  Step(w, v, q, c) /\ v.sock[c] # NoSocket /\ v.sock[c].state = "SERVE_HEADERS"
<1> DEFINE t == [w.sock[c] EXCEPT !.base = base]
           s == FoundSocket(t, p, "200")
           v == OpenedOf(w, c, h, f, s)
           u == SocketOf(w, c, t)
<1>1. w \in Worlds /\ w.sock[c] \in Sockets /\ SocketFits(w, q, c)
  BY SocketType DEF Sound, Local
<1>2. /\ t \in Sockets /\ t.target = w.sock[c].target /\ t.name = w.sock[c].name
      /\ t.page = NULL /\ t.state = w.sock[c].state /\ t.conn = w.sock[c].conn
      /\ t.req = w.sock[c].req
  BY <1>1 DEF Sockets
<1> HIDE DEF t
<1>3. u \in Worlds /\ u.sock[c] = t
  BY <1>1, <1>2, SocketSet
<1> HIDE DEF u
<1>4. SocketFits(u, q, c)
  BY <1>1, <1>2, <1>3 DEF SocketFits
<1>5. s \in Sockets
  BY <1>2 DEF FoundSocket, Sockets, States
<1> HIDE DEF s
<1>6. /\ v \in Worlds /\ v.sock[c] = s /\ \A d \in Conns \ {c} : v.sock[d] = w.sock[d]
      /\ v.page = w.page /\ v.eth = w.eth /\ v.tx = w.tx /\ v.file[h] = f
      /\ \A k \in Handles : k # h => v.file[k] = w.file[k]
      /\ v.post = w.post /\ v.posted = w.posted /\ v.sent = w.sent /\ v.hdr = w.hdr
  BY <1>1, <1>5 DEF OpenedOf, Worlds
<1> HIDE DEF v
<1>7. s # NoSocket /\ s.state = "SERVE_HEADERS" /\ s.page = p /\ Local(v, q, c)
  BY <1>2, <1>3, <1>4, <1>6, FoundFits DEF s
<1>8. Shared(v, q)
  <2>1. Position(v)
    BY <1>6 DEF Sound, Shared, Position
  <2>2. FlashFiles(v)
    BY <1>6 DEF Sound, Shared, FlashFiles
  <2>3. OnePoster(q) => Posted(v)
    BY <1>6 DEF Sound, Shared, Posted
  <2>4. FileCount(w) => FileCount(v)
    <3> SUFFICES ASSUME FileCount(w), NEW x \in Pages
                 PROVE  Cardinality(OpenFor(v, x)) <= Cardinality(Serving(v, x))
      BY DEF FileCount
    <3>1. Cardinality(OpenFor(w, x)) <= Cardinality(Serving(w, x)) /\ x # NULL
      BY HttpAssumption DEF FileCount
    <3>2. CASE x = p
      <4>1. h \notin OpenFor(w, x) /\ OpenFor(v, x) = OpenFor(w, x) \cup {h}
        BY <1>6, <3>1, <3>2 DEF OpenFor
      <4>2. c \notin Serving(w, x) /\ Serving(v, x) = Serving(w, x) \cup {c}
        BY <1>6, <1>7, <3>1, <3>2 DEF Serving, Page
      <4> QED  BY <3>1, <4>1, <4>2, CountMore
    <3>3. CASE x # p
      <4>1. OpenFor(v, x) = OpenFor(w, x)
        BY <1>6, <3>1, <3>3 DEF OpenFor
      <4>2. Serving(v, x) = Serving(w, x)
        BY <1>6, <1>7, <3>1, <3>3 DEF Serving, Page
      <4> QED  BY <3>1, <4>1, <4>2
    <3> QED  BY <3>2, <3>3
  <2> QED  BY <2>1, <2>2, <2>3, <2>4 DEF Sound, Shared
<1>9. Kept(w, v, q, c)
  BY <1>6 DEF Kept
<1> QED  BY <1>6, <1>7, <1>8, <1>9 DEF Step, Sound, v, s, t

(* Step 4: find_requested_file().                                          *)
LEMMA FileFound ==
  ASSUME NEW q \in Traffic, NEW c \in Conns, NEW w, Sound(w, q, c), w.sock[c] # NoSocket,
         w.sock[c].state = "FIND_FILE", NEW o \in OutcomeType
  PROVE  LET v == find_requested_file(w, c, o)
         IN  Step(w, v, q, c) /\ v.sock[c] # NoSocket /\ v.sock[c].state = "SERVE_HEADERS"
<1> DEFINE s == w.sock[c]
           p == page_manager_find_page(s.name)
           v == find_requested_file(w, c, o)
           Found(x, r, resp) == [x EXCEPT !.sock[c].page = r, !.sock[c].resp = resp,
                                          !.sock[c].state = "SERVE_HEADERS"]
           Done(x) == /\ Step(w, x, q, c) /\ x.sock[c] # NoSocket
                      /\ x.sock[c].state = "SERVE_HEADERS"
           row == w.page[p]
           base == ReadBuffer([size |-> row.len, off |-> 0, base |-> s.base]).base
           off == ReadBuffer([size |-> row.len, off |-> 0, base |-> s.base]).off
           h == Min(FreeHandles(w))
<1>1. /\ w \in Worlds /\ s \in Sockets /\ SocketFits(w, q, c) /\ s.page = NULL
      /\ NULL \in NamesOf(q, c) /\ NULL \notin Pages
  BY SocketType, SegmentType, HttpAssumption DEF Sound, Local, SocketFits, Requesting
<1>2. p \in Pages \cup {NULL} /\ p \in NamesOf(q, c)
  BY <1>1 DEF page_manager_find_page, SocketFits
<1>3. p \in Pages => Kind[p] \in {"static", "dynamic", "flash"} /\ row \in PageStates
  BY <1>1, HttpAssumption DEF Worlds
<1>4. o.size \in Nat \ {0} /\ LARGE_BUFFER_SIZE \in Nat \ {0}
  BY HttpAssumption DEF OutcomeType
<1>5. \/ p = NULL /\ v = Found(w, NULL, "404")
      \/ p \in Pages /\ Kind[p] = "static" /\ v = Found([w EXCEPT !.page[p].cur = 0], p, "200")
      \/ p \in Pages /\ Kind[p] = "dynamic" /\ v = Found(Refresh(w, p, o.size), p, "200")
      \/ /\ p \in Pages /\ Kind[p] = "flash"
         /\ v = Found([w EXCEPT !.page[p].handle = -1], NULL, "200")
      \/ /\ p \in Pages /\ Kind[p] = "flash" /\ FreeHandles(w) # {}
         /\ v = Found([w EXCEPT !.file[h] = [page |-> p, off |-> off], !.sock[c].base = base,
                                !.page[p].handle = h, !.page[p].bpos = 0], p, "200")
  <2>1. CASE p = NULL
    BY <2>1 DEF find_requested_file
  <2>2. CASE p \in Pages /\ Kind[p] = "static"
    <3>1. v = Found([w EXCEPT !.page[p].cur = 0], p, "200")
      BY <1>1, <2>2 DEF find_requested_file
    <3> QED  BY <2>2, <3>1
  <2>3. CASE p \in Pages /\ Kind[p] = "dynamic"
    <3>1. v = Found(Refresh(w, p, o.size), p, "200")
      BY <1>1, <2>3 DEF find_requested_file
    <3> QED  BY <2>3, <3>1
  <2>4. CASE p \in Pages /\ Kind[p] = "flash"
    <3>1. CASE ~o.opens \/ FreeHandles(w) = {}
      <4>1. v = Found([w EXCEPT !.page[p].handle = -1], NULL, "200")
        BY <1>1, <2>4, <3>1 DEF find_requested_file
      <4> QED  BY <2>4, <4>1
    <3>2. CASE ~(~o.opens \/ FreeHandles(w) = {})
      <4>1. p # NULL /\ ~(Kind[p] = "static") /\ ~(Kind[p] = "dynamic")
        BY <1>1, <2>4
      <4>2. v = Found([w EXCEPT !.file[h] = [page |-> p, off |-> off], !.sock[c].base = base,
                                !.page[p].handle = h, !.page[p].bpos = 0], p, "200")
        BY <2>4, <3>2, <4>1, ZenonT(30) DEF find_requested_file
      <4> QED  BY <2>4, <3>2, <4>2
    <3> QED  BY <3>1, <3>2
  <2> QED  BY <1>2, <1>3, <2>1, <2>2, <2>3, <2>4
<1> SUFFICES Done(v)
  OBVIOUS
<1> HIDE DEF v, p
(* A page in memory, or none: its row changes, then its socket finds it.   *)
<1>6. ASSUME p \in Pages, NEW r \in PageStates, NEW x \in Pages \cup {NULL}, x \in {NULL, p},
             Kind[p] # "flash" => r.cur < r.len,
             x # NULL /\ Kind[x] # "flash" => r.cur = 0,
             v = Found(PageOf(w, p, r), x, "200")
      PROVE  Done(v)
  <2> DEFINE u == PageOf(w, p, r)
             y == SocketOf(u, c, FoundSocket(u.sock[c], x, "200"))
  <2>1. Step(w, u, q, c) /\ u.sock = w.sock /\ u.page[p] = r
    BY <1>1, <1>2, <1>6, PageStep
  <2> HIDE DEF u
  <2>2. Sound(u, q, c) /\ u \in Worlds /\ x \in NamesOf(q, c)
    BY <1>1, <1>2, <1>6, <2>1 DEF Step, Sound
  <2>3. x # NULL /\ Kind[x] # "flash" => u.page[x].cur = 0
    BY <1>6, <2>1
  <2>4. Step(u, y, q, c) /\ y.sock[c] # NoSocket /\ y.sock[c].state = "SERVE_HEADERS"
    BY <1>1, <2>1, <2>2, <2>3, FoundStep
  <2>5. v = y
    BY <1>1, <1>6, <2>1, <2>2 DEF SocketOf, FoundSocket, Worlds, u
  <2> HIDE DEF y
  <2>6. Kept(w, y, q, c)
    BY <2>1, <2>4, KeptChain DEF Step
  <2> QED  BY <2>4, <2>5, <2>6 DEF Step
<1>7. CASE p = NULL /\ v = Found(w, NULL, "404")
  <2> DEFINE y == SocketOf(w, c, FoundSocket(s, NULL, "404"))
  <2>1. Step(w, y, q, c) /\ y.sock[c] # NoSocket /\ y.sock[c].state = "SERVE_HEADERS"
    BY <1>1, FoundStep
  <2>2. v = y
    BY <1>1, <1>7 DEF SocketOf, FoundSocket, Worlds
  <2> QED  BY <2>1, <2>2
<1>8. CASE /\ p \in Pages /\ Kind[p] = "static"
           /\ v = Found([w EXCEPT !.page[p].cur = 0], p, "200")
  <2> DEFINE r == [row EXCEPT !.cur = 0]
  <2>1. r \in PageStates /\ r.cur = 0 /\ r.cur < r.len
    BY <1>3, <1>8 DEF PageStates
  <2>2. [w EXCEPT !.page[p].cur = 0] = PageOf(w, p, r)
    BY DEF PageOf
  <2> HIDE DEF r
  <2> QED  BY <1>6, <1>8, <2>1, <2>2
<1>9. CASE /\ p \in Pages /\ Kind[p] = "dynamic"
           /\ v = Found(Refresh(w, p, o.size), p, "200")
  <2> DEFINE r == [row EXCEPT !.cur = 0, !.len = o.size]
  <2>1. r \in PageStates /\ r.cur = 0 /\ r.len = o.size
    <3>1. row \in PageStates /\ o.size \in Nat \ {0}
      BY <1>3, <1>4, <1>9
    <3> QED  BY <3>1 DEF PageStates
  <2>2. Refresh(w, p, o.size) = PageOf(w, p, r)
    BY <1>1, <1>9 DEF PageOf, Refresh, Worlds
  <2> HIDE DEF r
  <2>3. r.cur < r.len
    BY <1>4, <2>1
  <2> QED  BY <1>6, <1>9, <2>1, <2>2, <2>3
<1>10. CASE /\ p \in Pages /\ Kind[p] = "flash"
            /\ v = Found([w EXCEPT !.page[p].handle = -1], NULL, "200")
  <2> DEFINE r == [row EXCEPT !.handle = -1]
  <2>1. r \in PageStates
    BY <1>3, <1>10 DEF PageStates
  <2>2. [w EXCEPT !.page[p].handle = -1] = PageOf(w, p, r)
    BY DEF PageOf
  <2> HIDE DEF r
  <2> QED  BY <1>6, <1>10, <2>1, <2>2
<1>11. CASE /\ p \in Pages /\ Kind[p] = "flash" /\ FreeHandles(w) # {}
            /\ v = Found([w EXCEPT !.file[h] = [page |-> p, off |-> off], !.sock[c].base = base,
                                   !.page[p].handle = h, !.page[p].bpos = 0], p, "200")
  <2> DEFINE r == [row EXCEPT !.handle = h, !.bpos = 0]
             u == PageOf(w, p, r)
             f == [page |-> p, off |-> off]
             t == [u.sock[c] EXCEPT !.base = base]
             y == OpenedOf(u, c, h, f, FoundSocket(t, p, "200"))
  <2>1. h \in Handles /\ w.file[h].page = NULL
    <3>1. FreeHandles(w) \in SUBSET Handles /\ FreeHandles(w) # {}
      BY <1>11 DEF FreeHandles
    <3>2. h \in FreeHandles(w)
      BY <3>1, LeastHandle
    <3> QED  BY <3>2 DEF FreeHandles
  <2>2. base \in Nat /\ off \in Nat
    <3>1. row.len \in Nat \ {0} /\ s.base \in Nat
      BY <1>1, <1>3, <1>11 DEF PageStates, Sockets
    <3>2. base = 0 /\ off = MinOf(0 + LARGE_BUFFER_SIZE, row.len)
      BY <3>1 DEF ReadBuffer
    <3> HIDE DEF base, off
    <3> QED  BY <1>4, <3>1, <3>2 DEF MinOf
  <2> HIDE DEF base, off, h
  <2>3. r \in PageStates
    BY <1>3, <1>11, <2>1 DEF PageStates
  <2>4. f \in Files /\ f.page = p
    BY <1>11, <2>2 DEF Files
  <2>5. Step(w, u, q, c) /\ u.sock = w.sock /\ u.file = w.file
    BY <1>1, <1>2, <1>11, <2>3, PageStep
  <2>6. v = y
    <3> DEFINE n == [s EXCEPT !.base = base, !.page = p, !.resp = "200", !.state = "SERVE_HEADERS"]
    <3> DEFINE b == [s EXCEPT !.base = base]
               x == [w EXCEPT !.file[h] = f, !.sock[c] = b, !.page[p] = r]
    <3>1. x = [w EXCEPT !.file[h] = f, !.sock[c].base = base, !.page[p].handle = h,
                        !.page[p].bpos = 0]
      <4>1. [w EXCEPT !.file[h] = f, !.sock[c].base = base, !.page[p].handle = h,
                      !.page[p].bpos = 0]
              = [w EXCEPT !.file[h] = f, !.sock[c] = b, !.page[p].handle = h, !.page[p].bpos = 0]
        OBVIOUS
      <4>2. w.page \in [Pages -> PageStates]
        BY <1>1 DEF Worlds
      <4> HIDE DEF b
      <4>3. [w EXCEPT !.file[h] = f, !.sock[c] = b, !.page[p].handle = h, !.page[p].bpos = 0] = x
        BY <1>1, <1>11, <4>2 DEF Worlds
      <4> QED  BY <4>1, <4>3
    <3>2. v = Found(x, p, "200")
      BY <1>11, <3>1
    <3>3. x.sock[c] = b
      BY <1>1 DEF Worlds
    <3>4. n = [b EXCEPT !.page = p, !.resp = "200", !.state = "SERVE_HEADERS"]
      BY <1>1 DEF Sockets
    <3>5. Found(x, p, "200") = [x EXCEPT !.sock[c] = n]
      <4> HIDE DEF n, b, x
      <4> QED  BY <3>3, <3>4
    <3>6. v = [w EXCEPT !.file[h] = f, !.sock[c] = n, !.page[p] = r]
      <4> HIDE DEF n, b
      <4>1. [x EXCEPT !.sock[c] = n] = [w EXCEPT !.file[h] = f, !.sock[c] = n, !.page[p] = r]
        BY <1>1 DEF Worlds
      <4> QED  BY <3>2, <3>5, <4>1
    <3>7. u.sock[c] = s
      BY <2>5
    <3>8. FoundSocket(t, p, "200") = n
      BY <3>7 DEF FoundSocket
    <3> HIDE DEF r, f, t, n
    <3>9. y = [w EXCEPT !.file[h] = f, !.sock[c] = n, !.page[p] = r]
      BY <1>1, <3>8 DEF OpenedOf, PageOf, Worlds
    <3> QED  BY <3>6, <3>9
  <2> HIDE DEF u, f
  <2>7. Sound(u, q, c)
    BY <2>5 DEF Step
  <2>8. Step(u, y, q, c) /\ y.sock[c] # NoSocket /\ y.sock[c].state = "SERVE_HEADERS"
    BY <1>1, <1>2, <1>11, <2>1, <2>2, <2>4, <2>5, <2>7, OpenedStep
  <2> HIDE DEF y
  <2>9. Kept(w, y, q, c)
    BY <2>5, <2>8, KeptChain DEF Step
  <2> QED  BY <2>6, <2>8, <2>9 DEF Step
<1> QED  BY <1>5, <1>7, <1>8, <1>9, <1>10, <1>11

-----------------------------------------------------------------------------
(* Serving the response.  What a step of it writes: the socket's state and *)
(* buffer, the transmit buffer, the histories, the pages and the files.    *)
Output(w, c, x, base, n, units, length, rows, files) ==
  [w EXCEPT !.sock[c] = [w.sock[c] EXCEPT !.state = x, !.base = base], !.tx[c] = n,
            !.sent[c] = units, !.hdr[c] = length, !.page = rows, !.file = files]

(* It has its types, opens no file, changes no page but the socket's, and  *)
(* agrees with the position in a page in memory.                           *)
Outputs(w, c, x, base, n, units, length, rows, files) ==
  /\ x \in {"SERVE_BODY", "WAIT_TILL_DONE"} /\ base \in Nat /\ n \in 0 .. TX
  /\ units \in Seq(Nat) /\ length \in Nat
  /\ rows \in [Pages -> PageStates] /\ files \in [Handles -> Files]
  /\ \A y \in Pages : y # w.sock[c].page => rows[y] = w.page[y]
  /\ \A y \in Pages : Kind[y] # "flash" => rows[y].cur < rows[y].len
  /\ \A h \in Handles : files[h].page \in {NULL, w.file[h].page}

Accounted(w, c, x, units, length, rows) ==
  LET p == w.sock[c].page
  IN  p # NULL /\ Kind[p] # "flash" =>
        /\ x = "SERVE_BODY" => length = rows[p].len /\ units = Upto(rows[p].cur)
        /\ x = "WAIT_TILL_DONE" /\ w.eth[c] = "open" => units = Upto(length)

LEMMA ServeStep ==
  ASSUME NEW q \in Traffic, NEW c \in Conns, NEW w, Sound(w, q, c), w.sock[c] # NoSocket,
         NEW x, NEW base, NEW n, NEW units, NEW length, NEW rows, NEW files,
         Outputs(w, c, x, base, n, units, length, rows, files),
         OwnPages(q) /\ "slot_reused" \notin Faults => Accounted(w, c, x, units, length, rows)
  PROVE  LET v == Output(w, c, x, base, n, units, length, rows, files)
         IN  /\ Step(w, v, q, c) /\ v.sock[c] # NoSocket /\ v.sock[c].state = x
             /\ v.eth = w.eth /\ v.tx[c] = n
<1> DEFINE s == [w.sock[c] EXCEPT !.state = x, !.base = base]
           v == Output(w, c, x, base, n, units, length, rows, files)
<1>0. /\ x \in {"SERVE_BODY", "WAIT_TILL_DONE"} /\ base \in Nat /\ n \in 0 .. TX
      /\ units \in Seq(Nat) /\ length \in Nat
      /\ rows \in [Pages -> PageStates] /\ files \in [Handles -> Files]
      /\ \A y \in Pages : y # w.sock[c].page => rows[y] = w.page[y]
      /\ \A y \in Pages : Kind[y] # "flash" => rows[y].cur < rows[y].len
      /\ \A h \in Handles : files[h].page \in {NULL, w.file[h].page}
  BY DEF Outputs
<1>1. w \in Worlds /\ w.sock[c] \in Sockets /\ SocketFits(w, q, c)
  BY SocketType DEF Sound, Local
<1>2. /\ s \in Sockets /\ s.target = w.sock[c].target /\ s.name = w.sock[c].name
      /\ s.page = w.sock[c].page /\ s.state = x /\ s.conn = w.sock[c].conn
      /\ s.req = w.sock[c].req
  BY <1>0, <1>1 DEF Sockets, States
<1>3. s # NoSocket
  BY <1>2, NotNoSocket
<1> HIDE DEF s
<1>4. /\ v \in Worlds /\ v.sock[c] = s /\ v.page = rows /\ v.file = files /\ v.eth = w.eth
      /\ v.post = w.post /\ v.posted = w.posted /\ v.sent[c] = units /\ v.hdr[c] = length
      /\ v.tx[c] = n
      /\ \A d \in Conns \ {c} : /\ v.sock[d] = w.sock[d]
                                /\ v.sent[d] = w.sent[d] /\ v.hdr[d] = w.hdr[d]
  <2>1. v = [w EXCEPT !.sock[c] = s, !.tx[c] = n, !.sent[c] = units, !.hdr[c] = length,
                      !.page = rows, !.file = files]
    BY DEF Output, s
  <2> HIDE DEF v
  <2> QED  BY <1>0, <1>1, <1>2, <2>1 DEF Worlds
<1> HIDE DEF v
<1>5. Shared(v, q)
  <2>1. Position(v)
    BY <1>0, <1>4 DEF Position
  <2>2. FlashFiles(v)
    BY <1>0, <1>4 DEF Sound, Shared, FlashFiles
  <2>3. OnePoster(q) => Posted(v)
    BY <1>4 DEF Sound, Shared, Posted
  <2>4. \A y \in Pages : OpenFor(v, y) \subseteq OpenFor(w, y) /\ Serving(w, y) \subseteq Serving(v, y)
    <3>1. \A y \in Pages : y # NULL
      BY HttpAssumption
    <3>2. \A y \in Pages : OpenFor(v, y) \subseteq OpenFor(w, y)
      BY <1>0, <1>4, <3>1 DEF OpenFor
    <3>3. \A d \in Conns : Page(w, d) = Page(v, d)
      BY <1>2, <1>3, <1>4 DEF Page
    <3>4. \A y \in Pages : Serving(w, y) \subseteq Serving(v, y)
      BY <3>3 DEF Serving
    <3> QED  BY <3>2, <3>4
  <2>5. FilesNotKept => FileCount(v)
    BY <2>4, CountKept DEF Sound, Shared, FileCount
  <2> QED  BY <2>1, <2>2, <2>3, <2>5 DEF Shared
<1>6. Local(v, q, c)
  <2>1. SocketFits(v, q, c)
    BY <1>0, <1>1, <1>2, <1>4 DEF SocketFits, Requesting
  <2>2. OwnPages(q) /\ "slot_reused" \notin Faults => BodyFits(v, c)
    BY <1>0, <1>2, <1>4 DEF BodyFits, Accounted
  <2>3. PostFits(v, c)
    BY <1>0, <1>2, <1>4 DEF PostFits
  <2> QED  BY <2>1, <2>2, <2>3 DEF Local
<1>7. Kept(w, v, q, c)
  <2>1. \A y \in Pages : y \notin NamesOf(q, c) => v.page[y] = w.page[y]
    BY <1>0, <1>1, <1>4 DEF SocketFits
  <2> QED  BY <1>3, <1>4, <2>1 DEF Kept
<1> QED  BY <1>2, <1>3, <1>4, <1>5, <1>6, <1>7 DEF Step, Sound, v

LEMMA UptoType ==
  ASSUME NEW n \in Nat
  PROVE  Upto(n) \in Seq(Nat) /\ Len(Upto(n)) = n
BY DEF Upto

(* Step 3: serve_header().                                                 *)
LEMMA HeaderServed ==
  ASSUME NEW q \in Traffic, NEW c \in Conns, NEW w, Sound(w, q, c), w.sock[c] # NoSocket,
         w.sock[c].state = "SERVE_HEADERS"
  PROVE  LET v == serve_header(w, c)
         IN  Step(w, v, q, c) /\ v.sock[c] # NoSocket /\ v.sock[c].state = "SERVE_BODY"
<1> DEFINE p == w.sock[c].page
           n == MinOf(w.tx[c] + 1, TX)
           length == header_generate(w, p)
           base == w.sock[c].base
           none == <<>>
           rows == w.page
           files == w.file
           v == Output(w, c, "SERVE_BODY", base, n, none, length, rows, files)
<1>1. w \in Worlds /\ w.sock[c] \in Sockets
  BY SocketType DEF Sound
<1>2. n \in 0 .. TX
  <2>1. w.tx[c] \in 0 .. TX /\ TX \in Nat
    BY <1>1, HttpAssumption DEF Worlds
  <2> QED  BY <2>1 DEF MinOf
<1>3. length \in Nat /\ base \in Nat
  <2>1. p \in Pages \cup {NULL} /\ base \in Nat
    BY <1>1 DEF Sockets
  <2>2. p \in Pages => w.page[p] \in PageStates
    BY <1>1 DEF Worlds
  <2> QED  BY <2>1, <2>2 DEF header_generate, PageStates
<1>4. rows \in [Pages -> PageStates] /\ files \in [Handles -> Files]
  BY <1>1 DEF Worlds
<1>5. \A y \in Pages : Kind[y] # "flash" => rows[y].cur < rows[y].len
  BY DEF Sound, Shared, Position
<1>6. OwnPages(q) /\ "slot_reused" \notin Faults =>
        (p # NULL /\ Kind[p] # "flash" => length = w.page[p].len /\ <<>> = Upto(w.page[p].cur))
  <2>1. Upto(0) = <<>>
    BY DEF Upto
  <2> QED  BY <2>1 DEF Sound, Local, BodyFits, header_generate
<1>7. serve_header(w, c) = v
  <2>1. [w.sock[c] EXCEPT !.state = "SERVE_BODY"]
          = [w.sock[c] EXCEPT !.state = "SERVE_BODY", !.base = base]
    BY <1>1 DEF Sockets
  <2>2. serve_header(w, c) = [w EXCEPT !.tx[c] = n, !.sent[c] = <<>>, !.hdr[c] = length,
                                       !.sock[c] = [w.sock[c] EXCEPT !.state = "SERVE_BODY"]]
    BY <1>1 DEF serve_header, Worlds
  <2> HIDE DEF n, length, base
  <2> QED  BY <1>1, <2>1, <2>2, ZenonT(30) DEF Output, Worlds
<1> HIDE DEF n, length, base
<1>8. /\ Step(w, v, q, c) /\ v.sock[c] # NoSocket /\ v.sock[c].state = "SERVE_BODY"
  <2>1. none \in Seq(Nat)
    OBVIOUS
  <2>2. OwnPages(q) /\ "slot_reused" \notin Faults =>
          Accounted(w, c, "SERVE_BODY", none, length, rows)
    BY <1>6 DEF Accounted
  <2> HIDE DEF none
  <2>3. Outputs(w, c, "SERVE_BODY", base, n, none, length, rows, files)
    BY <1>2, <1>3, <1>4, <1>5, <2>1 DEF Outputs
  <2> HIDE DEF rows, files
  <2> QED  BY <2>2, <2>3, ServeStep
<1> QED  BY <1>7, <1>8

(* What is recorded of a body.                                             *)
LEMMA RecordType ==
  ASSUME NEW w \in Worlds, NEW c \in Conns, NEW units \in Seq(Nat)
  PROVE  Record(w, c, units) \in Seq(Nat)
<1> DEFINE all == w.sent[c] \o units
           n == MinOf(Len(all), w.hdr[c] + 1)
<1>1. w.sent[c] \in Seq(Nat) /\ w.hdr[c] \in Nat
  BY DEF Worlds
<1>2. all \in Seq(Nat)
  BY <1>1
<1> HIDE DEF all
<1>3. n \in 0 .. Len(all)
  BY <1>1, <1>2 DEF MinOf
<1> HIDE DEF n
<1>4. SubSeq(all, 1, n) \in Seq(Nat)
  BY <1>2, <1>3
<1> QED  BY <1>4 DEF Record, all, n

LEMMA RecordWhole ==
  ASSUME NEW w \in Worlds, NEW c \in Conns, NEW m \in Nat, NEW n \in Nat,
         w.sent[c] = Upto(m), m + n <= w.hdr[c]
  PROVE  Record(w, c, [k \in 1 .. n |-> m + k]) = Upto(m + n)
<1> DEFINE a == Upto(m)
           b == [k \in 1 .. n |-> m + k]
           all == a \o b
           t == Upto(m + n)
<1>1. /\ a \in Seq(Nat) /\ Len(a) = m /\ \A k \in 1 .. m : a[k] = k
      /\ b \in Seq(Nat) /\ Len(b) = n /\ \A k \in 1 .. n : b[k] = m + k
      /\ t \in Seq(Nat) /\ Len(t) = m + n /\ \A k \in 1 .. m + n : t[k] = k
  BY DEF Upto
<1>2. w.hdr[c] \in Nat
  BY DEF Worlds
<1>3. Record(w, c, b) = SubSeq(all, 1, MinOf(Len(all), w.hdr[c] + 1))
  BY DEF Record
<1> HIDE DEF a, b, t
<1>4. /\ all \in Seq(Nat) /\ Len(all) = Len(a) + Len(b)
      /\ \A k \in 1 .. Len(a) + Len(b) :
           all[k] = IF k <= Len(a) THEN a[k] ELSE b[k - Len(a)]
  BY <1>1, ConcatProperties
<1> HIDE DEF all
<1>5. \A k \in 1 .. m + n : all[k] = k
  <2> SUFFICES ASSUME NEW k \in 1 .. m + n PROVE all[k] = k
    OBVIOUS
  <2>1. CASE k <= m
    <3>1. k \in 1 .. m
      BY <2>1
    <3> QED  BY <1>1, <1>4, <2>1, <3>1
  <2>2. CASE ~(k <= m)
    <3>1. k - m \in 1 .. n /\ m + (k - m) = k
      BY <2>2
    <3>2. all[k] = b[k - m]
      BY <1>1, <1>4, <2>2
    <3> QED  BY <1>1, <3>1, <3>2
  <2> QED  BY <2>1, <2>2
<1>6. all = t
  BY <1>1, <1>4, <1>5, SeqEqual
<1>7. MinOf(Len(all), w.hdr[c] + 1) = m + n
  BY <1>1, <1>2, <1>6 DEF MinOf
<1>8. SubSeq(t, 1, m + n) = t
  <2>1. \A k \in 1 .. m + n : t[k] \in Nat
    BY <1>1
  <2>2. /\ SubSeq(t, 1, m + n) \in Seq(Nat)
        /\ Len(SubSeq(t, 1, m + n)) = IF 1 <= m + n THEN m + n - 1 + 1 ELSE 0
        /\ \A k \in 1 .. m + n - 1 + 1 : SubSeq(t, 1, m + n)[k] = t[1 + k - 1]
    BY <1>1, <2>1, SubSeqProperties
  <2> DEFINE u == SubSeq(t, 1, m + n)
  <2> SUFFICES u = t
    OBVIOUS
  <2>3. Len(u) = m + n /\ \A k \in 1 .. m + n : u[k] = k
    BY <1>1, <2>2
  <2> HIDE DEF u
  <2>4. u \in Seq(Nat)
    BY <2>2 DEF u
  <2> QED  BY <1>1, <2>3, <2>4, SeqEqual
<1> QED  BY <1>3, <1>6, <1>7, <1>8 DEF b, t

(* The room that is left, and what of the page fits into it.               *)
LEMMA FitsRange ==
  ASSUME NEW w \in Worlds, NEW c \in Conns, NEW p \in Pages, w.page[p].cur < w.page[p].len
  PROVE  /\ Fits(w, c, p) \in Nat /\ w.tx[c] + Fits(w, c, p) \in 0 .. TX
         /\ w.page[p].cur + Fits(w, c, p) <= w.page[p].len
<1>1. w.page[p] \in PageStates /\ w.tx[c] \in 0 .. TX /\ TX \in Nat
  BY HttpAssumption DEF Worlds
<1>2. w.page[p].cur \in Nat /\ w.page[p].len \in Nat
  BY <1>1 DEF PageStates
<1>3. \A k \in Nat : k % 65536 \in 0 .. k
  OBVIOUS
<1>4. remaining_bytes(w, p) \in 0 .. (w.page[p].len - w.page[p].cur)
  BY <1>2, <1>3 DEF remaining_bytes
<1> QED  BY <1>1, <1>2, <1>4 DEF Fits, MinOf

(* Step 5, a page in memory: serve_memory().                               *)
LEMMA MemoryServed ==
  ASSUME NEW q \in Traffic, NEW c \in Conns, NEW w, Sound(w, q, c), w.sock[c] # NoSocket,
         w.sock[c].state = "SERVE_BODY", NEW p \in Pages, w.sock[c].page = p, Kind[p] # "flash"
  PROVE  LET v == serve_memory(w, c, p)
         IN  /\ Step(w, v, q, c) /\ v.sock[c] # NoSocket
             /\ v.sock[c].state \in {"SERVE_BODY", "WAIT_TILL_DONE"}
<1> DEFINE s == w.sock[c]
           row == w.page[p]
           n == Fits(w, c, p)
           cur == NextPosition(w, c, p)
           x == IF Served(w, c, p) THEN "WAIT_TILL_DONE" ELSE s.state
           base == s.base
           room == w.tx[c] + n
           units == Record(w, c, [k \in 1 .. n |-> row.cur + k])
           length == w.hdr[c]
           rows == [w.page EXCEPT ![p] = [row EXCEPT !.cur = cur]]
           files == w.file
           v == Output(w, c, x, base, room, units, length, rows, files)
<1>1. /\ w \in Worlds /\ s \in Sockets /\ row \in PageStates
      /\ length \in Nat /\ rows = [w.page EXCEPT ![p].cur = cur]
  BY SocketType DEF Sound, Worlds
<1>2. row.cur \in Nat /\ row.len \in Nat /\ row.cur < row.len
  BY <1>1 DEF PageStates, Sound, Shared, Position
<1>3. n \in Nat /\ room \in 0 .. TX /\ row.cur + n <= row.len
  BY <1>1, <1>2, FitsRange
<1>4. /\ cur \in Nat /\ cur < row.len
      /\ x = "SERVE_BODY" => cur = row.cur + n
      /\ x = "WAIT_TILL_DONE" => row.cur + n = row.len
      /\ x \in {"SERVE_BODY", "WAIT_TILL_DONE"}
  <2> HIDE DEF n
  <2>1. CASE Served(w, c, p)
    <3>1. row.cur + n = row.len /\ cur = 0 /\ x = "WAIT_TILL_DONE"
      BY <2>1 DEF Served, NextPosition, n
    <3> QED  BY <1>2, <3>1
  <2>2. CASE ~Served(w, c, p)
    <3>1. row.cur + n # row.len /\ cur = row.cur + n /\ x = "SERVE_BODY"
      BY <2>2 DEF Served, NextPosition, n
    <3>2. cur \in Nat /\ cur < row.len
      BY <1>2, <1>3, <3>1
    <3> QED  BY <3>1, <3>2
  <2> QED  BY <2>1, <2>2
<1>5. v = serve_memory(w, c, p)
  <2>1. serve_memory(w, c, p) =
          [w EXCEPT !.page = rows, !.tx[c] = room, !.sent[c] = units,
                    !.sock[c] = [s EXCEPT !.state = x]]
    BY <1>1 DEF serve_memory, Worlds
  <2> HIDE DEF n, cur, x, room, units, rows
  <2>2. [s EXCEPT !.state = x] = [s EXCEPT !.state = x, !.base = base]
    BY <1>1 DEF Sockets
  <2> HIDE DEF base
  <2>3. [w EXCEPT !.page = rows, !.tx[c] = room, !.sent[c] = units,
                  !.sock[c] = [s EXCEPT !.state = x, !.base = base]] = v
    BY <1>1, ZenonT(30) DEF Output, Worlds
  <2> QED  BY <2>1, <2>2, <2>3
<1>6. units \in Seq(Nat)
  <2>1. [k \in 1 .. n |-> row.cur + k] \in Seq(Nat)
    BY <1>2, <1>3
  <2> HIDE DEF n
  <2> QED  BY <1>1, <2>1, RecordType
<1>7. rows \in [Pages -> PageStates] /\ rows[p].cur = cur /\ rows[p].len = row.len
  <2> HIDE DEF cur
  <2>1. /\ [row EXCEPT !.cur = cur] \in PageStates /\ [row EXCEPT !.cur = cur].cur = cur
        /\ [row EXCEPT !.cur = cur].len = row.len
    BY <1>1, <1>4 DEF PageStates
  <2> DEFINE r == [row EXCEPT !.cur = cur]
  <2> HIDE DEF r
  <2>2. w.page \in [Pages -> PageStates] /\ rows = [w.page EXCEPT ![p] = r]
    BY <1>1 DEF Worlds, r
  <2> HIDE DEF rows
  <2> QED  BY <2>1, <2>2 DEF r
<1>8. OwnPages(q) /\ "slot_reused" \notin Faults => Accounted(w, c, x, units, length, rows)
  <2> SUFFICES ASSUME OwnPages(q), "slot_reused" \notin Faults
               PROVE  Accounted(w, c, x, units, length, rows)
    OBVIOUS
  <2>1. length = row.len /\ w.sent[c] = Upto(row.cur)
    BY HttpAssumption DEF Sound, Local, BodyFits
  <2>2. units = Upto(row.cur + n)
    <3> HIDE DEF n
    <3> QED  BY <1>1, <1>2, <1>3, <2>1, RecordWhole
  <2> HIDE DEF n, cur, x, units, rows, length
  <2> QED  BY <1>4, <1>7, <2>1, <2>2 DEF Accounted
<1>9. Outputs(w, c, x, base, room, units, length, rows, files)
  <2>1. files \in [Handles -> Files] /\ base \in Nat
    BY <1>1 DEF Worlds, Sockets
  <2>2. \A y \in Pages : y # p => rows[y] = w.page[y]
    OBVIOUS
  <2>3. \A y \in Pages : Kind[y] # "flash" => rows[y].cur < rows[y].len
    <3> HIDE DEF rows
    <3> QED  BY <1>4, <1>7, <2>2 DEF Sound, Shared, Position
  <2> HIDE DEF n, cur, x, units, rows, length, room, base
  <2> QED  BY <1>1, <1>3, <1>4, <1>6, <1>7, <2>1, <2>2, <2>3 DEF Outputs
<1> SUFFICES Step(w, v, q, c) /\ v.sock[c] # NoSocket /\ v.sock[c].state = x
  BY <1>4, <1>5
<1> HIDE DEF cur, x, base, room, units, length, rows, files
<1> QED  BY <1>8, <1>9, ServeStep

-----------------------------------------------------------------------------
(* Serving a file: the loop is a recursive function, and there is one.     *)

LEMMA PutBytesDef ==
  ASSUME NEW r
  PROVE  /\ PutBytes(r)[0] = r
         /\ \A n \in 1 .. TX : PutBytes(r)[n] = Put(PutBytes(r)[n - 1])
<1> DEFINE Upon(f, n) == IF n = 0 THEN r ELSE Put(f[n - 1])
           Is(f, m) == f = [n \in 0 .. m |-> Upon(f, n)]
           Missing == {m \in 0 .. TX : ~ \E f : Is(f, m)}
<1>1. TX \in Nat
  BY HttpAssumption
<1>2. Missing = {}
  <2> SUFFICES ASSUME Missing # {} PROVE FALSE
    OBVIOUS
  <2>1. PICK k \in Missing : \A j \in Missing : k <= j
    <3>1. Missing \in SUBSET Nat
      BY <1>1
    <3> HIDE DEF Missing
    <3> QED  BY <3>1, LeastElement
  <2>2. k # 0
    <3> DEFINE f == [n \in 0 .. 0 |-> r]
    <3>1. Is(f, 0)
      OBVIOUS
    <3> QED  BY <3>1
  <2>3. k - 1 \in 0 .. TX /\ k - 1 \notin Missing /\ k \in 0 .. TX
    BY <1>1, <2>1, <2>2
  <2>4. PICK f : Is(f, k - 1)
    BY <2>3
  <2> DEFINE g == [n \in 0 .. k |-> IF n = k THEN Put(f[k - 1]) ELSE f[n]]
  <2>5. \A n \in 0 .. k : g[n] = Upon(g, n)
    <3> SUFFICES ASSUME NEW n \in 0 .. k PROVE g[n] = Upon(g, n)
      OBVIOUS
    <3>1. CASE n = k
      <4>1. g[n] = Put(f[k - 1])
        BY <3>1
      <4>2. g[k - 1] = f[k - 1]
        BY <2>3
      <4> QED  BY <2>2, <3>1, <4>1, <4>2
    <3>2. CASE n # k
      <4>1. n \in 0 .. k - 1 /\ g[n] = f[n]
        BY <2>3, <3>2
      <4>2. f[n] = Upon(f, n)
        BY <2>4, <4>1
      <4>3. n # 0 => g[n - 1] = f[n - 1]
        BY <2>3, <4>1
      <4> QED  BY <4>1, <4>2, <4>3
    <3> QED  BY <3>1, <3>2
  <2>6. Is(g, k)
    <3>1. g = [n \in 0 .. k |-> g[n]]
      OBVIOUS
    <3> HIDE DEF g
    <3>2. [n \in 0 .. k |-> g[n]] = [n \in 0 .. k |-> Upon(g, n)]
      BY <2>5
    <3> QED  BY <3>1, <3>2
  <2> QED  BY <2>1, <2>6
<1>3. PICK f : Is(f, TX)
  BY <1>1, <1>2
<1>4. PutBytes(r) = CHOOSE g : Is(g, TX)
  BY DEF PutBytes
<1>5. Is(PutBytes(r), TX)
  BY <1>3, <1>4
<1>6. \A n \in 0 .. TX : PutBytes(r)[n] = Upon(PutBytes(r), n)
  BY <1>5
<1> QED  BY <1>1, <1>6

(* What the loop works on, after n bytes at most.                          *)
Loops == [bpos : Nat, fpos : Nat, size : Nat \ {0}, off : Nat, base : Nat, out : Seq(Nat),
          done : BOOLEAN]

LEMMA PutType ==
  ASSUME NEW r \in Loops
  PROVE  Put(r) \in Loops /\ Len(Put(r).out) <= Len(r.out) + 1
<1> DEFINE unit == IF r.base + r.bpos < r.size THEN r.base + r.bpos + 1 ELSE 0
           put == [r EXCEPT !.out = Append(@, unit)]
           read == ReadBuffer(put)
           moved == IF r.bpos = LARGE_BUFFER_SIZE - 1
                      THEN [read EXCEPT !.bpos = 0]
                      ELSE [put EXCEPT !.bpos = @ + 1, !.fpos = @ + 1]
<1>1. /\ r.base \in Nat /\ r.bpos \in Nat /\ r.size \in Nat /\ r.out \in Seq(Nat)
      /\ LARGE_BUFFER_SIZE \in Nat
  BY HttpAssumption DEF Loops
<1>2. put \in Loops /\ Len(put.out) = Len(r.out) + 1
  <2>1. unit \in Nat
    BY <1>1
  <2> HIDE DEF unit
  <2>2. Append(r.out, unit) \in Seq(Nat) /\ Len(Append(r.out, unit)) = Len(r.out) + 1
    BY <1>1, <2>1
  <2> DEFINE out == Append(r.out, unit)
  <2> HIDE DEF out
  <2>3. put = [r EXCEPT !.out = out]
    BY DEF out
  <2> HIDE DEF put
  <2> QED  BY <2>2, <2>3 DEF Loops, out
<1>3. PutByte(r) = IF moved.fpos >= moved.size THEN [moved EXCEPT !.fpos = 0, !.done = TRUE]
                   ELSE moved
  BY DEF PutByte
<1> HIDE DEF put
<1>4. read \in Loops /\ read.out = put.out
  <2> DEFINE off == MinOf(put.off + LARGE_BUFFER_SIZE, put.size)
  <2>1. off \in Nat
    BY <1>1, <1>2 DEF MinOf, Loops
  <2>2. read = put \/ read = [put EXCEPT !.base = put.off, !.off = off]
    BY DEF ReadBuffer
  <2> HIDE DEF off, read
  <2> QED  BY <1>2, <2>1, <2>2 DEF Loops
<1> HIDE DEF read
<1>5. moved \in Loops /\ moved.out = put.out
  <2>1. [read EXCEPT !.bpos = 0] \in Loops /\ [read EXCEPT !.bpos = 0].out = read.out
    BY <1>4 DEF Loops
  <2> DEFINE next == [put EXCEPT !.bpos = @ + 1, !.fpos = @ + 1]
  <2>2. next \in Loops /\ next.out = put.out
    <3>1. put.bpos + 1 \in Nat /\ put.fpos + 1 \in Nat
      BY <1>2 DEF Loops
    <3> QED  BY <1>2, <3>1 DEF Loops
  <2> HIDE DEF next
  <2>3. moved = [read EXCEPT !.bpos = 0] \/ moved = next
    BY DEF next
  <2> QED  BY <1>4, <2>1, <2>2, <2>3
<1> HIDE DEF moved
<1>6. PutByte(r) \in Loops /\ PutByte(r).out = put.out
  <2> DEFINE last == [moved EXCEPT !.fpos = 0, !.done = TRUE]
  <2>1. last \in Loops /\ last.out = moved.out
    BY <1>5 DEF Loops
  <2>2. PutByte(r) = last \/ PutByte(r) = moved
    BY <1>3
  <2> HIDE DEF last
  <2> QED  BY <1>5, <2>1, <2>2
<1>7. CASE r.done
  BY <1>1, <1>7 DEF Put
<1>8. CASE ~r.done
  BY <1>1, <1>2, <1>6, <1>8 DEF Put
<1> QED  BY <1>7, <1>8

LEMMA PutBytesType ==
  ASSUME NEW r \in Loops, r.out = <<>>, NEW m \in 0 .. TX
  PROVE  PutBytes(r)[m] \in Loops /\ Len(PutBytes(r)[m].out) <= m
<1> DEFINE Typed(n) == PutBytes(r)[n] \in Loops /\ Len(PutBytes(r)[n].out) <= n
           Wrong == {n \in 0 .. TX : ~Typed(n)}
<1>1. TX \in Nat
  BY HttpAssumption
<1> SUFFICES ASSUME Wrong # {} PROVE FALSE
  OBVIOUS
<1>2. PICK k \in Wrong : \A j \in Wrong : k <= j
  <2>1. Wrong \in SUBSET Nat
    BY <1>1
  <2> HIDE DEF Wrong
  <2> QED  BY <2>1, LeastElement
<1>3. k # 0
  <2>1. PutBytes(r)[0] = r /\ Len(r.out) = 0
    BY PutBytesDef
  <2> QED  BY <1>2, <2>1
<1>4. k \in 1 .. TX /\ k - 1 \in 0 .. TX /\ Typed(k - 1)
  BY <1>1, <1>2, <1>3
<1> DEFINE x == PutBytes(r)[k - 1]
<1>5. PutBytes(r)[k] = Put(x)
  BY <1>4, PutBytesDef
<1>6. x \in Loops /\ Len(x.out) <= k - 1
  BY <1>4
<1> HIDE DEF x
<1>7. Put(x) \in Loops /\ Len(Put(x).out) <= Len(x.out) + 1
  BY <1>6, PutType
<1>8. Len(Put(x).out) \in Nat /\ Len(x.out) \in Nat
  <2>1. Put(x).out \in Seq(Nat) /\ x.out \in Seq(Nat)
    BY <1>6, <1>7 DEF Loops
  <2> QED  BY <2>1, LenProperties
<1>9. Typed(k)
  BY <1>4, <1>5, <1>6, <1>7, <1>8
<1> QED  BY <1>2, <1>9

(* Step 5, a file: serve_flash().                                          *)
LEMMA FlashServed ==
  ASSUME NEW q \in Traffic, NEW c \in Conns, NEW w, Sound(w, q, c), w.sock[c] # NoSocket,
         w.sock[c].state = "SERVE_BODY", NEW p \in Pages, w.sock[c].page = p, Kind[p] = "flash"
  PROVE  LET v == serve_flash(w, c, p)
         IN  /\ Step(w, v, q, c) /\ v.sock[c] # NoSocket
             /\ v.sock[c].state \in {"SERVE_BODY", "WAIT_TILL_DONE"}
<1> DEFINE s == w.sock[c]
           row == w.page[p]
           h == row.handle
           readable == h \in Handles /\ w.file[h].page = p
           start == [bpos |-> row.bpos, fpos |-> row.fpos, size |-> row.len,
                     off |-> IF readable THEN w.file[h].off ELSE row.len,
                     base |-> s.base, out |-> <<>>, done |-> FALSE]
           end == PutBytes(start)[TX - w.tx[c]]
           x == IF end.done THEN "WAIT_TILL_DONE" ELSE s.state
           base == end.base
           room == w.tx[c] + Len(end.out)
           units == Record(w, c, end.out)
           length == w.hdr[c]
           r == [row EXCEPT !.bpos = end.bpos, !.fpos = end.fpos]
           rows == [w.page EXCEPT ![p] = r]
           files == IF end.done THEN CloseFile(w.file, h)
                    ELSE IF readable THEN [w.file EXCEPT ![h].off = end.off] ELSE w.file
           v == Output(w, c, x, base, room, units, length, rows, files)
<1>1. /\ w \in Worlds /\ s \in Sockets /\ row \in PageStates /\ s.base \in Nat
      /\ length \in Nat /\ w.tx[c] \in 0 .. TX /\ TX \in Nat /\ w.file \in [Handles -> Files]
  BY SocketType, HttpAssumption DEF Sound, Worlds, Sockets
<1>2. row.bpos \in Nat /\ row.fpos \in Nat /\ row.len \in Nat \ {0}
  BY <1>1 DEF PageStates
<1>3. start \in Loops /\ start.out = <<>>
  <2>1. readable => w.file[h].off \in Nat
    BY <1>1 DEF Files
  <2> QED  BY <1>1, <1>2, <2>1 DEF Loops
<1>4. serve_flash(w, c, p) =
        [w EXCEPT !.page[p].bpos = end.bpos, !.page[p].fpos = end.fpos,
                  !.tx[c] = room, !.sent[c] = units, !.sock[c].base = base,
                  !.file = files, !.sock[c].state = x]
  <2> HIDE DEF start
  <2>1. serve_flash(w, c, p) =
        [w EXCEPT !.page[p].bpos = end.bpos, !.page[p].fpos = end.fpos,
                !.tx[c] = @ + Len(end.out),
                !.sent[c] = Record(w, c, end.out),
                !.sock[c].base = end.base,
                !.file = IF end.done THEN CloseFile(@, h)
                         ELSE IF readable THEN [@ EXCEPT ![h].off = end.off] ELSE @,
                !.sock[c].state = IF end.done THEN "WAIT_TILL_DONE" ELSE @]
    BY DEF serve_flash, start
  <2> HIDE DEF end, h
  <2> QED  BY <1>1, <2>1 DEF Worlds, Sockets
<1>5. end \in Loops /\ Len(end.out) <= TX - w.tx[c]
  <2>1. TX - w.tx[c] \in 0 .. TX
    BY <1>1
  <2> HIDE DEF start
  <2> QED  BY <1>3, <2>1, PutBytesType
<1> HIDE DEF start, end
<1>6. /\ end.out \in Seq(Nat) /\ Len(end.out) \in Nat /\ end.bpos \in Nat /\ end.fpos \in Nat
      /\ base \in Nat /\ end.off \in Nat
  BY <1>5 DEF Loops
<1>7. room \in 0 .. TX
  BY <1>1, <1>5, <1>6
<1>8. units \in Seq(Nat)
  BY <1>1, <1>6, RecordType
<1>9. r \in PageStates
  BY <1>1, <1>6 DEF PageStates
<1>10. /\ files \in [Handles -> Files]
       /\ \A k \in Handles : files[k].page \in {NULL, w.file[k].page}
  <2>1. CloseFile(w.file, h) \in [Handles -> Files]
    BY <1>1 DEF CloseFile, Files
  <2>2. \A k \in Handles : CloseFile(w.file, h)[k].page \in {NULL, w.file[k].page}
    BY DEF CloseFile
  <2>3. readable => /\ [w.file EXCEPT ![h].off = end.off] \in [Handles -> Files]
                    /\ \A k \in Handles :
                         [w.file EXCEPT ![h].off = end.off][k].page = w.file[k].page
    <3> SUFFICES ASSUME readable
                 PROVE  /\ [w.file EXCEPT ![h].off = end.off] \in [Handles -> Files]
                        /\ \A k \in Handles :
                             [w.file EXCEPT ![h].off = end.off][k].page = w.file[k].page
      OBVIOUS
    <3> DEFINE f == [w.file[h] EXCEPT !.off = end.off]
    <3>1. f \in Files /\ f.page = w.file[h].page
      BY <1>1, <1>6 DEF Files
    <3> HIDE DEF f
    <3>2. [w.file EXCEPT ![h].off = end.off] = [w.file EXCEPT ![h] = f]
      BY DEF f
    <3> QED  BY <1>1, <3>1, <3>2
  <2> QED  BY <1>1, <2>1, <2>2, <2>3
<1>11. x \in {"SERVE_BODY", "WAIT_TILL_DONE"}
  OBVIOUS
<1>12. rows \in [Pages -> PageStates] /\ \A y \in Pages : y # p => rows[y] = w.page[y]
  <2> HIDE DEF r
  <2> QED  BY <1>1, <1>9 DEF Worlds
<1>13. v = serve_flash(w, c, p)
  <2> HIDE DEF base, room, units, files, x
  <2> DEFINE b == end.bpos
             f == end.fpos
             d == [s EXCEPT !.state = x, !.base = base]
  <2>1. [[w.page EXCEPT ![p].bpos = b] EXCEPT ![p].fpos = f] = rows
    BY <1>1 DEF Worlds
  <2>2. [[w.sock EXCEPT ![c].base = base] EXCEPT ![c].state = x] = [w.sock EXCEPT ![c] = d]
    BY <1>1 DEF Worlds, Sockets
  <2>3. serve_flash(w, c, p) =
          [w EXCEPT !.page = [[w.page EXCEPT ![p].bpos = b] EXCEPT ![p].fpos = f],
                    !.sock = [[w.sock EXCEPT ![c].base = base] EXCEPT ![c].state = x],
                    !.tx[c] = room, !.sent[c] = units, !.file = files]
    <3> DEFINE ss == [[w.sock EXCEPT ![c].base = base] EXCEPT ![c].state = x]
               pp == [[w.page EXCEPT ![p].bpos = b] EXCEPT ![p].fpos = f]
               x1 == [w EXCEPT !.page[p].bpos = b, !.page[p].fpos = f]
               x2 == [x1 EXCEPT !.tx[c] = room, !.sent[c] = units]
               x3 == [x2 EXCEPT !.sock[c].base = base]
               x4 == [x3 EXCEPT !.file = files]
    <3>1. serve_flash(w, c, p) = [x4 EXCEPT !.sock[c].state = x]
      BY <1>4
    <3> HIDE DEF b, f
    <3>2. x1 = [w EXCEPT !.page = pp]
      BY <1>1 DEF Worlds
    <3> HIDE DEF x1, pp
    <3>3. x2 = [w EXCEPT !.page = pp, !.tx[c] = room, !.sent[c] = units]
      BY <1>1, <3>2 DEF Worlds
    <3> HIDE DEF x2
    <3>4. x3 = [w EXCEPT !.page = pp, !.tx[c] = room, !.sent[c] = units,
                         !.sock = [w.sock EXCEPT ![c].base = base]]
      BY <1>1, <3>3 DEF Worlds
    <3> HIDE DEF x3
    <3>5. x4 = [w EXCEPT !.page = pp, !.tx[c] = room, !.sent[c] = units,
                         !.sock = [w.sock EXCEPT ![c].base = base], !.file = files]
      BY <1>1, <3>4 DEF Worlds
    <3> HIDE DEF x4
    <3>6. [x4 EXCEPT !.sock[c].state = x]
            = [w EXCEPT !.page = pp, !.sock = ss, !.tx[c] = room, !.sent[c] = units,
                        !.file = files]
      BY <1>1, <3>5 DEF Worlds
    <3> QED  BY <3>1, <3>6 DEF pp
  <2>4. v = [w EXCEPT !.page = rows, !.sock = [w.sock EXCEPT ![c] = d],
                      !.tx[c] = room, !.sent[c] = units, !.file = files]
    <3>1. v = [w EXCEPT !.sock[c] = d, !.tx[c] = room, !.sent[c] = units, !.hdr[c] = w.hdr[c],
                        !.page = rows, !.file = files]
      BY DEF Output
    <3> HIDE DEF d, rows, v, length
    <3> QED  BY <1>1, <3>1 DEF Worlds
  <2> HIDE DEF b, f, d, rows, v
  <2> QED  BY <2>1, <2>2, <2>3, <2>4
<1> HIDE DEF x, base, room, units, length, rows, files
<1>14. Outputs(w, c, x, base, room, units, length, rows, files)
  <2>1. \A y \in Pages : Kind[y] # "flash" => rows[y].cur < rows[y].len
    BY <1>12 DEF Sound, Shared, Position
  <2> QED  BY <1>1, <1>6, <1>7, <1>8, <1>10, <1>11, <1>12, <2>1 DEF Outputs
<1>15. Accounted(w, c, x, units, length, rows)
  BY DEF Accounted
<1>16. Step(w, v, q, c) /\ v.sock[c] # NoSocket /\ v.sock[c].state = x
  BY <1>14, <1>15, ServeStep
<1> QED  BY <1>11, <1>13, <1>16

(* Step 5: serve_body().                                                   *)
LEMMA BodyServed ==
  ASSUME NEW q \in Traffic, NEW c \in Conns, NEW w, Sound(w, q, c), w.sock[c] # NoSocket,
         w.sock[c].state = "SERVE_BODY"
  PROVE  LET v == serve_body(w, c)
         IN  /\ Step(w, v, q, c) /\ v.sock[c] # NoSocket
             /\ v.sock[c].state \in {"SERVE_BODY", "WAIT_TILL_DONE"}
<1> DEFINE s == w.sock[c]
           p == s.page
           Done(v) == /\ Step(w, v, q, c) /\ v.sock[c] # NoSocket
                      /\ v.sock[c].state \in {"SERVE_BODY", "WAIT_TILL_DONE"}
<1>1. w \in Worlds /\ s \in Sockets /\ p \in Pages \cup {NULL}
  BY SocketType DEF Sound, Sockets
<1>2. CASE p = NULL \/ w.eth[c] # "open"
  <2> DEFINE n == MinOf(w.tx[c] + 1, TX)
             v == Output(w, c, "WAIT_TILL_DONE", s.base, n, w.sent[c], w.hdr[c], w.page, w.file)
  <2>1. n \in 0 .. TX
    <3>1. w.tx[c] \in 0 .. TX /\ TX \in Nat
      BY <1>1, HttpAssumption DEF Worlds
    <3> QED  BY <3>1 DEF MinOf
  <2>2. serve_body(w, c) = v
    <3>1. serve_body(w, c) = [w EXCEPT !.tx[c] = n, !.sock[c].state = "WAIT_TILL_DONE"]
      BY <1>2 DEF serve_body
    <3> HIDE DEF n
    <3>2. [s EXCEPT !.state = "WAIT_TILL_DONE"]
            = [s EXCEPT !.state = "WAIT_TILL_DONE", !.base = s.base]
      BY <1>1 DEF Sockets
    <3> DEFINE d == [s EXCEPT !.state = "WAIT_TILL_DONE"]
    <3>3. serve_body(w, c) = [w EXCEPT !.tx[c] = n, !.sock[c] = d]
      BY <3>1
    <3>4. v = [w EXCEPT !.sock[c] = d, !.tx[c] = n, !.sent[c] = w.sent[c], !.hdr[c] = w.hdr[c],
                        !.page = w.page, !.file = w.file]
      BY <3>2 DEF Output
    <3> DEFINE ss == [w.sock EXCEPT ![c] = d]
               tt == [w.tx EXCEPT ![c] = n]
               ee == [w.sent EXCEPT ![c] = w.sent[c]]
               hh == [w.hdr EXCEPT ![c] = w.hdr[c]]
    <3>5. ee = w.sent /\ hh = w.hdr
      BY <1>1 DEF Worlds
    <3>6. v = [w EXCEPT !.sock = ss, !.tx = tt, !.sent = ee, !.hdr = hh, !.page = w.page,
                        !.file = w.file]
      <4> HIDE DEF d, v
      <4> QED  BY <1>1, <3>4 DEF Worlds
    <3>7. serve_body(w, c) = [w EXCEPT !.sock = ss, !.tx = tt]
      <4> HIDE DEF d, v
      <4> QED  BY <1>1, <3>3 DEF Worlds
    <3> HIDE DEF v, ss, tt, ee, hh
    <3> QED  BY <1>1, <3>5, <3>6, <3>7 DEF Worlds
  <2> DEFINE base == s.base
             units == w.sent[c]
             length == w.hdr[c]
             rows == w.page
             files == w.file
  <2>3. base \in Nat /\ units \in Seq(Nat) /\ length \in Nat
    BY <1>1 DEF Worlds, Sockets
  <2>4. rows \in [Pages -> PageStates] /\ files \in [Handles -> Files]
    BY <1>1 DEF Worlds
  <2> HIDE DEF n, base, units, length
  <2>5. Outputs(w, c, "WAIT_TILL_DONE", base, n, units, length, rows, files)
    BY <2>1, <2>3, <2>4 DEF Outputs, Sound, Shared, Position
  <2>6. Accounted(w, c, "WAIT_TILL_DONE", units, length, rows)
    BY <1>2 DEF Accounted
  <2> HIDE DEF rows, files
  <2> DEFINE z == Output(w, c, "WAIT_TILL_DONE", base, n, units, length, rows, files)
  <2>7. Step(w, z, q, c) /\ z.sock[c] # NoSocket /\ z.sock[c].state = "WAIT_TILL_DONE"
    BY <2>5, <2>6, ServeStep
  <2>8. z = serve_body(w, c)
    BY <2>2 DEF base, units, length, rows, files
  <2> HIDE DEF z
  <2> QED  BY <2>7, <2>8
<1>3. CASE p \in Pages /\ w.eth[c] = "open" /\ Kind[p] = "flash"
  <2>1. serve_body(w, c) = serve_flash(w, c, p)
    BY <1>3, HttpAssumption DEF serve_body
  <2>2. Done(serve_flash(w, c, p))
    BY <1>3, FlashServed
  <2> QED  BY <2>1, <2>2
<1>4. CASE p \in Pages /\ w.eth[c] = "open" /\ Kind[p] # "flash"
  <2>1. serve_body(w, c) = serve_memory(w, c, p)
    BY <1>4, HttpAssumption DEF serve_body
  <2>2. Done(serve_memory(w, c, p))
    BY <1>4, MemoryServed
  <2> QED  BY <2>1, <2>2
<1> QED  BY <1>1, <1>2, <1>3, <1>4

-----------------------------------------------------------------------------
(* The end of a response, and of a connection.                             *)
Refused(w, c) == [w EXCEPT !.sock[c].state = "DISCONNECT"]

LEMMA RefusedStep ==
  ASSUME NEW q \in Traffic, NEW c \in Conns, NEW w, Sound(w, q, c), w.sock[c] # NoSocket
  PROVE  LET v == Refused(w, c)
         IN  Step(w, v, q, c) /\ v.sock[c] # NoSocket /\ v.sock[c].state = "DISCONNECT"
<1> DEFINE s == w.sock[c]
           d == [s EXCEPT !.state = "DISCONNECT"]
           v == SocketOf(w, c, d)
<1>1. w \in Worlds /\ s \in Sockets /\ SocketFits(w, q, c)
  BY SocketType DEF Sound, Local
<1>2. /\ d \in Sockets /\ d.page = s.page /\ d.state = "DISCONNECT" /\ d.target = s.target
      /\ d.name = s.name /\ d.conn = s.conn /\ d.req = s.req
  BY <1>1 DEF Sockets, States
<1>3. v = Refused(w, c)
  BY DEF SocketOf, Refused
<1> HIDE DEF d
<1>4. v.sock[c] = d /\ d # NoSocket
  BY <1>1, <1>2, SocketSet, NotNoSocket
<1>5. SocketFits(v, q, c) /\ BodyFits(v, c) /\ PostFits(v, c)
  BY <1>1, <1>2, <1>4 DEF SocketFits, BodyFits, PostFits, Requesting
<1>6. Local(v, q, c)
  BY <1>5 DEF Local
<1>7. Step(w, v, q, c)
  BY <1>2, <1>6, SocketStep
<1> QED  BY <1>2, <1>3, <1>4, <1>7

(* A connection that is kept drops its page: its file has to be closed, and*)
(* nobody keeps a connection on which a file is fetched.                   *)
Renewed(w, c) ==
  [w EXCEPT !.sock[c] = [w.sock[c] EXCEPT !.state = "GET_REQUEST", !.page = NULL,
                                          !.target = NULL]]

LEMMA RenewedStep ==
  ASSUME NEW q \in Traffic, NEW c \in Conns, NEW w, Sound(w, q, c), w.sock[c] # NoSocket,
         w.sock[c].conn = "KEEP_ALIVE"
  PROVE  LET v == Renewed(w, c)
         IN  Step(w, v, q, c) /\ v.sock[c] # NoSocket /\ v.sock[c].state = "GET_REQUEST"
<1> DEFINE s == w.sock[c]
           d == [s EXCEPT !.state = "GET_REQUEST", !.page = NULL, !.target = NULL]
           v == SocketOf(w, c, d)
<1>1. /\ w \in Worlds /\ s \in Sockets /\ SocketFits(w, q, c)
      /\ NULL \in NamesOf(q, c) /\ NULL \in Names /\ NULL \notin Pages
  BY SocketType, SegmentType, HttpAssumption DEF Sound, Local
<1>2. /\ d \in Sockets /\ d.page = NULL /\ d.state = "GET_REQUEST" /\ d.target = NULL
      /\ d.name = s.name /\ d.conn = s.conn /\ d.req = s.req
  BY <1>1 DEF Sockets, States
<1>3. v = Renewed(w, c)
  BY DEF SocketOf, Renewed
<1> HIDE DEF d
<1>4. /\ v \in Worlds /\ v.sock[c] = d /\ \A e \in Conns \ {c} : v.sock[e] = w.sock[e]
      /\ v.page = w.page /\ v.file = w.file /\ v.eth = w.eth /\ v.tx = w.tx
      /\ v.post = w.post /\ v.posted = w.posted /\ v.sent = w.sent /\ v.hdr = w.hdr
  BY <1>1, <1>2, SocketSet
<1>5. d # NoSocket
  BY <1>2, NotNoSocket
<1> HIDE DEF v
<1>6. SocketFits(v, q, c) /\ PostFits(v, c)
  BY <1>1, <1>2, <1>4 DEF SocketFits, PostFits
<1>7. Local(v, q, c)
  BY <1>2, <1>4, <1>6, LocalPageless
<1>8. FilesNotKept => FileCount(v)
  <2> SUFFICES ASSUME FilesNotKept, NEW y \in Pages
               PROVE  Cardinality(OpenFor(v, y)) <= Cardinality(Serving(v, y))
    BY DEF FileCount
  <2>1. OpenFor(v, y) = OpenFor(w, y)
    BY <1>4 DEF OpenFor
  <2>2. CASE y = s.page
    <3>1. PICK k \in q[c] : k.target = y
      BY <1>1, <2>2 DEF SocketFits, NamesOf
    <3>2. PICK g \in q[c] : g.conn = "KEEP_ALIVE"
      BY <1>1 DEF SocketFits
    <3>3. Kind[y] # "flash"
      BY <3>1, <3>2 DEF FilesNotKept
    <3>4. OpenFor(v, y) = {}
      BY <1>1, <2>1, <3>3 DEF Sound, Shared, FlashFiles, OpenFor
    <3> QED  BY <3>4, CountEmpty
  <2>3. CASE y # s.page
    <3>1. Serving(w, y) \subseteq Serving(v, y)
      BY <1>4, <2>3 DEF Serving, Page
    <3> QED  BY <2>1, <3>1, CountKept DEF Sound, Shared, FileCount
  <2> QED  BY <2>2, <2>3
<1>9. Shared(v, q)
  BY <1>4, <1>8 DEF Sound, Shared, Position, FlashFiles, Posted
<1>10. Kept(w, v, q, c)
  BY <1>4 DEF Kept
<1> QED  BY <1>2, <1>3, <1>4, <1>5, <1>7, <1>9, <1>10 DEF Step, Sound

(* Calls follow each other, and the last leaves the socket at rest.        *)
LEMMA StepChain ==
  ASSUME NEW q, NEW c, NEW w, NEW v, NEW x, Step(w, v, q, c), Step(v, x, q, c)
  PROVE  Step(w, x, q, c)
BY KeptChain DEF Step

Settled(w, v, q, c) ==
  Step(w, v, q, c) /\ (v.sock[c] # NoSocket => v.sock[c].state \in Resting)

LEMMA SettledChain ==
  ASSUME NEW q, NEW c, NEW w, NEW v, NEW x, Step(w, v, q, c), Settled(v, x, q, c)
  PROVE  Settled(w, x, q, c)
BY StepChain DEF Settled

LEMMA SettledAt ==
  ASSUME NEW q, NEW c, NEW w, Sound(w, q, c), w.sock[c].state \in Resting
  PROVE  Settled(w, w, q, c)
BY KeptSame DEF Settled, Step

LEMMA CloseSettled ==
  ASSUME NEW q \in Traffic, NEW c \in Conns, NEW w, Sound(w, q, c), w.sock[c] # NoSocket,
         w.sock[c].state \in Resting, NEW b \in BOOLEAN
  PROVE  Settled(w, close_server_socket(w, c, b), q, c)
<1> DEFINE v == close_server_socket(w, c, b)
<1>1. Step(w, v, q, c) /\ (v = w \/ v.sock[c] = NoSocket)
  BY CloseSound
<1> HIDE DEF v
<1> QED  BY <1>1 DEF Settled, v

LEMMA FinishSettled ==
  ASSUME NEW q \in Traffic, NEW c \in Conns, NEW w, Sound(w, q, c), w.sock[c] # NoSocket,
         w.sock[c].state = "WAIT_TILL_DONE", NEW g, NEW o \in OutcomeType
  PROVE  Settled(w, Finish(w, c, g, o), q, c)
<1> DEFINE s == w.sock[c]
           v == Finish(w, c, g, o)
           refused == Refused(w, c)
           b == o.disconnects
<1>1. b \in BOOLEAN
  BY DEF OutcomeType
<1>2. \/ v = w
      \/ s.conn = "KEEP_ALIVE" /\ v = Renewed(w, c)
      \/ v = close_server_socket(refused, c, b)
  <2>1. CASE w.tx[c] # 0 \/ s.conn = "UNKNOWN"
    BY <2>1 DEF Finish
  <2>2. CASE /\ ~(w.tx[c] # 0 \/ s.conn = "UNKNOWN")
             /\ s.conn = "KEEP_ALIVE" /\ (Bytes(g) # 0 \/ w.eth[c] # "open")
    <3>1. v = [w EXCEPT !.sock[c].state = "GET_REQUEST", !.sock[c].page = NULL,
                        !.sock[c].target = NULL]
      BY <2>2 DEF Finish
    <3>2. w \in Worlds
      BY DEF Sound
    <3>3. v = Renewed(w, c)
      BY <3>1, <3>2 DEF Renewed, Worlds
    <3> QED  BY <2>2, <3>3
  <2>3. CASE /\ ~(w.tx[c] # 0 \/ s.conn = "UNKNOWN")
             /\ ~(s.conn = "KEEP_ALIVE" /\ (Bytes(g) # 0 \/ w.eth[c] # "open"))
    <3>1. v = close_server_socket([w EXCEPT !.sock[c].state = "DISCONNECT"], c, b)
      BY <2>3 DEF Finish
    <3> QED  BY <3>1 DEF Refused
  <2> QED  BY <2>1, <2>2, <2>3
<1> SUFFICES Settled(w, v, q, c)
  OBVIOUS
<1> HIDE DEF v
<1>3. CASE v = w
  BY <1>3, SettledAt DEF Resting
<1>4. CASE s.conn = "KEEP_ALIVE" /\ v = Renewed(w, c)
  <2> DEFINE u == Renewed(w, c)
  <2>1. Step(w, u, q, c) /\ u.sock[c].state = "GET_REQUEST"
    BY <1>4, RenewedStep
  <2> HIDE DEF u
  <2> QED  BY <1>4, <2>1 DEF Settled, Resting, u
<1>5. CASE v = close_server_socket(refused, c, b)
  <2>1. Step(w, refused, q, c) /\ refused.sock[c] # NoSocket /\ refused.sock[c].state = "DISCONNECT"
    BY RefusedStep
  <2> HIDE DEF refused
  <2>2. Settled(refused, close_server_socket(refused, c, b), q, c)
    BY <1>1, <2>1, CloseSettled DEF Step, Resting
  <2> QED  BY <1>5, <2>1, <2>2, SettledChain
<1> QED  BY <1>2, <1>3, <1>4, <1>5

LEMMA ServeSettled ==
  ASSUME NEW q \in Traffic, NEW c \in Conns, NEW w, Sound(w, q, c), w.sock[c] # NoSocket,
         w.sock[c].state = "SERVE_BODY", NEW g, NEW o \in OutcomeType
  PROVE  Settled(w, Serve(w, c, g, o), q, c)
<1> DEFINE v == serve_body(w, c)
<1>1. /\ Step(w, v, q, c) /\ v.sock[c] # NoSocket
      /\ v.sock[c].state \in {"SERVE_BODY", "WAIT_TILL_DONE"}
  BY BodyServed
<1>2. Serve(w, c, g, o) = IF v.sock[c].state = "WAIT_TILL_DONE" THEN Finish(v, c, g, o) ELSE v
  BY DEF Serve
<1> HIDE DEF v
<1>3. CASE v.sock[c].state = "WAIT_TILL_DONE"
  <2>1. Settled(v, Finish(v, c, g, o), q, c)
    BY <1>1, <1>3, FinishSettled DEF Step
  <2> QED  BY <1>1, <1>2, <1>3, <2>1, SettledChain
<1>4. CASE v.sock[c].state = "SERVE_BODY"
  BY <1>1, <1>2, <1>4 DEF Settled, Resting
<1> QED  BY <1>1, <1>3, <1>4

LEMMA ProcessSettled ==
  ASSUME NEW q \in Traffic, NEW c \in Conns, NEW w, Sound(w, q, c), w.sock[c] # NoSocket,
         w.sock[c].state = "PROCESS_REQUEST", NEW g \in q[c] \cup {NoData},
         NEW o \in OutcomeType, NEW first \in BOOLEAN,
         first /\ w.sock[c].req = "POST" => Captured(w.post, w.sock[c].clen)
  PROVE  Settled(w, Process(w, c, g, o, first), q, c)
<1> DEFINE v == process_request(w, c, g, first)
           b == o.disconnects
<1>1. b \in BOOLEAN
  BY DEF OutcomeType
<1>2. /\ Step(w, v, q, c) /\ v.sock[c] # NoSocket
      /\ v.sock[c].state \in {"PROCESS_REQUEST", "FIND_FILE", "DISCONNECT"}
  BY RequestProcessed
<1>3. Process(w, c, g, o, first) =
        CASE v.sock[c].state = "FIND_FILE" ->
               Serve(serve_header(find_requested_file(v, c, o), c), c, g, o)
          [] v.sock[c].state = "DISCONNECT" -> close_server_socket(v, c, b)
          [] OTHER -> v
  BY DEF Process
<1> HIDE DEF v
<1>4. Sound(v, q, c)
  BY <1>2 DEF Step
<1>5. CASE v.sock[c].state = "FIND_FILE"
  <2> DEFINE f == find_requested_file(v, c, o)
             r == serve_header(f, c)
  <2>1. Step(v, f, q, c) /\ f.sock[c] # NoSocket /\ f.sock[c].state = "SERVE_HEADERS"
    BY <1>2, <1>4, <1>5, FileFound
  <2>2. Process(w, c, g, o, first) = Serve(r, c, g, o)
    BY <1>3, <1>5
  <2> HIDE DEF f
  <2>3. Step(f, r, q, c) /\ r.sock[c] # NoSocket /\ r.sock[c].state = "SERVE_BODY"
    BY <2>1, HeaderServed DEF Step
  <2> HIDE DEF r
  <2>4. Settled(r, Serve(r, c, g, o), q, c)
    BY <2>3, ServeSettled DEF Step
  <2> QED  BY <1>2, <2>1, <2>2, <2>3, <2>4, SettledChain
<1>6. CASE v.sock[c].state = "DISCONNECT"
  <2>1. Settled(v, close_server_socket(v, c, b), q, c)
    BY <1>1, <1>2, <1>4, <1>6, CloseSettled DEF Resting
  <2>2. Process(w, c, g, o, first) = close_server_socket(v, c, b)
    BY <1>3, <1>6
  <2> QED  BY <1>2, <2>1, <2>2, SettledChain
<1>7. CASE v.sock[c].state = "PROCESS_REQUEST"
  <2>1. Process(w, c, g, o, first) = v
    BY <1>3, <1>7
  <2> QED  BY <1>2, <1>7, <2>1 DEF Settled, Resting
<1> QED  BY <1>2, <1>5, <1>6, <1>7

LEMMA RequestSettled ==
  ASSUME NEW q \in Traffic, NEW c \in Conns, NEW w, Sound(w, q, c), w.sock[c] # NoSocket,
         w.sock[c].state \in {"IDLE", "GET_REQUEST"}, NEW g \in q[c] \cup {NoData},
         NEW o \in OutcomeType
  PROVE  Settled(w, Request(w, c, g, o), q, c)
<1> DEFINE s == w.sock[c]
           d == Advanced(s, "GET_REQUEST", s.name)
           u == SocketOf(w, c, d)
           v == get_client_request(u, c, g, o)
           b == o.disconnects
<1>1. /\ w \in Worlds /\ s \in Sockets /\ s.page = NULL /\ s.name \in NamesOf(q, c)
      /\ b \in BOOLEAN
  BY SocketType DEF Sound, Local, SocketFits, Requesting, OutcomeType
<1>2. Step(w, u, q, c) /\ u.sock[c] = d /\ d # NoSocket /\ d.state = "GET_REQUEST"
  BY <1>1, AdvanceStep
<1>3. [w EXCEPT !.sock[c].state = "GET_REQUEST"] = u
  <2>1. d = [s EXCEPT !.state = "GET_REQUEST"]
    BY <1>1 DEF Advanced, Sockets
  <2> QED  BY <2>1 DEF SocketOf
<1>4. Request(w, c, g, o) =
        CASE v.sock[c].state = "DISCONNECT" -> close_server_socket(v, c, b)
          [] /\ v.sock[c].state = "PROCESS_REQUEST"
             /\ v.sock[c].req = "GET" \/ Captured(v.post, v.sock[c].clen) ->
               Process(v, c, g, o, TRUE)
          [] OTHER -> v
  BY <1>3 DEF Request
<1> HIDE DEF u, d
<1>5. /\ Step(u, v, q, c)
      /\ v.sock[c] # NoSocket =>
           v.sock[c].state \in {"GET_REQUEST", "PROCESS_REQUEST", "DISCONNECT"}
  BY <1>2, RequestRead DEF Step
<1> HIDE DEF v
<1>6. Step(w, v, q, c) /\ Sound(v, q, c)
  BY <1>2, <1>5, StepChain DEF Step
<1>7. CASE v.sock[c] = NoSocket
  <2>1. v.sock[c].state = "none"
    BY <1>7 DEF NoSocket
  <2>2. Request(w, c, g, o) = v
    BY <1>4, <2>1
  <2> QED  BY <1>6, <1>7, <2>2 DEF Settled
<1>8. CASE v.sock[c] # NoSocket /\ v.sock[c].state = "DISCONNECT"
  <2>1. Request(w, c, g, o) = close_server_socket(v, c, b)
    BY <1>4, <1>8
  <2>2. Settled(v, close_server_socket(v, c, b), q, c)
    BY <1>1, <1>6, <1>8, CloseSettled DEF Resting
  <2> QED  BY <1>6, <2>1, <2>2, SettledChain
<1>9. CASE /\ v.sock[c] # NoSocket /\ v.sock[c].state = "PROCESS_REQUEST"
           /\ v.sock[c].req = "GET" \/ Captured(v.post, v.sock[c].clen)
  <2>1. Request(w, c, g, o) = Process(v, c, g, o, TRUE)
    BY <1>4, <1>9
  <2>2. v.sock[c].req = "POST" => Captured(v.post, v.sock[c].clen)
    BY <1>9
  <2>3. Settled(v, Process(v, c, g, o, TRUE), q, c)
    BY <1>6, <1>9, <2>2, ProcessSettled
  <2> QED  BY <1>6, <2>1, <2>3, SettledChain
<1>10. CASE /\ v.sock[c] # NoSocket /\ v.sock[c].state \in {"GET_REQUEST", "PROCESS_REQUEST"}
            /\ ~(/\ v.sock[c].state = "PROCESS_REQUEST"
                 /\ v.sock[c].req = "GET" \/ Captured(v.post, v.sock[c].clen))
  <2>1. Request(w, c, g, o) = v
    BY <1>4, <1>10
  <2> QED  BY <1>6, <1>10, <2>1 DEF Settled, Resting
<1> QED  BY <1>5, <1>7, <1>8, <1>9, <1>10

(* A packet that reaches the handler leaves the socket at rest, or gone.   *)
LEMMA HandleSettled ==
  ASSUME NEW q \in Traffic, NEW c \in Conns, NEW w, Sound(w, q, c), w.sock[c] # NoSocket,
         w.sock[c].state \in Resting \cup {"IDLE"}, NEW g \in q[c] \cup {NoData},
         NEW o \in OutcomeType
  PROVE  Settled(w, http_handle_client(w, c, g, o), q, c)
<1> DEFINE s == w.sock[c]
           d == [s EXCEPT !.alive = 0]
           v == SocketOf(w, c, d)
           b == o.disconnects
           x == http_handle_client(w, c, g, o)
<1>1. w \in Worlds /\ s \in Sockets /\ b \in BOOLEAN
  BY SocketType DEF Sound, OutcomeType
<1>2. /\ d \in Sockets /\ d.page = s.page /\ d.state = s.state /\ d.target = s.target
      /\ d.name = s.name /\ d.conn = s.conn /\ d.req = s.req
  <2>1. 0 \in 0 .. MAX_ALIVE_TIME + 1
    BY HttpAssumption
  <2> QED  BY <1>1, <2>1 DEF Sockets
<1>3. [w EXCEPT !.sock[c].alive = 0] = v
  BY DEF SocketOf
<1> HIDE DEF d
<1>4. /\ v.sock[c] = d /\ d # NoSocket /\ v.page = w.page /\ v.hdr = w.hdr /\ v.sent = w.sent
      /\ v.post = w.post /\ v.eth = w.eth
  BY <1>1, <1>2, SocketSet, NotNoSocket
<1>5. Local(v, q, c)
  <2> HIDE DEF v
  <2>1. SocketFits(v, q, c)
    BY <1>2, <1>4 DEF Sound, Local, SocketFits
  <2>2. OwnPages(q) /\ "slot_reused" \notin Faults => BodyFits(v, c)
    BY <1>2, <1>4 DEF Sound, Local, BodyFits
  <2>3. OnePoster(q) => PostFits(v, c)
    BY <1>2, <1>4 DEF Sound, Local, PostFits
  <2> QED  BY <2>1, <2>2, <2>3 DEF Local
<1>6. Step(w, v, q, c)
  BY <1>2, <1>5, SocketStep
<1>7. x = CASE v.sock[c].state \in {"IDLE", "GET_REQUEST"} -> Request(v, c, g, o)
            [] v.sock[c].state = "PROCESS_REQUEST" -> Process(v, c, g, o, FALSE)
            [] v.sock[c].state = "SERVE_BODY" -> Serve(v, c, g, o)
            [] v.sock[c].state = "WAIT_TILL_DONE" -> Finish(v, c, g, o)
            [] v.sock[c].state = "DISCONNECT" -> close_server_socket(v, c, b)
  BY <1>3 DEF http_handle_client
<1> HIDE DEF v, x
<1>8. Sound(v, q, c) /\ v.sock[c] # NoSocket
  BY <1>4, <1>6 DEF Step
<1>9. Settled(v, x, q, c)
  <2>1. CASE v.sock[c].state \in {"IDLE", "GET_REQUEST"}
    <3>1. x = Request(v, c, g, o)
      BY <1>7, <2>1
    <3> QED  BY <1>8, <2>1, <3>1, RequestSettled
  <2>2. CASE v.sock[c].state = "PROCESS_REQUEST"
    <3>1. x = Process(v, c, g, o, FALSE)
      BY <1>7, <2>2
    <3> QED  BY <1>8, <2>2, <3>1, ProcessSettled
  <2>3. CASE v.sock[c].state = "SERVE_BODY"
    <3>1. x = Serve(v, c, g, o)
      BY <1>7, <2>3
    <3> QED  BY <1>8, <2>3, <3>1, ServeSettled
  <2>4. CASE v.sock[c].state = "WAIT_TILL_DONE"
    <3>1. x = Finish(v, c, g, o)
      BY <1>7, <2>4
    <3> QED  BY <1>8, <2>4, <3>1, FinishSettled
  <2>5. CASE v.sock[c].state = "DISCONNECT"
    <3>1. x = close_server_socket(v, c, b)
      BY <1>7, <2>5
    <3> QED  BY <1>1, <1>8, <2>5, <3>1, CloseSettled DEF Resting
  <2> QED  BY <1>2, <1>4, <2>1, <2>2, <2>3, <2>4, <2>5 DEF Resting
<1> QED  BY <1>6, <1>9, SettledChain DEF x

-----------------------------------------------------------------------------
(* From one connection to all of them.                                     *)

(* What is left alone is enough for the other sockets: their pages, and    *)
(* the buffer when one of them posts.                                      *)
LEMMA OthersLocal ==
  ASSUME NEW q \in Traffic, NEW c \in Conns, NEW d \in Conns, d # c, NEW w \in Worlds, NEW v,
         Local(w, q, d), Kept(w, v, q, c)
  PROVE  Local(v, q, d)
<1> DEFINE s == w.sock[d]
<1>1. v.sock[d] = s /\ v.eth[d] = w.eth[d] /\ v.sent[d] = w.sent[d] /\ v.hdr[d] = w.hdr[d]
  BY DEF Kept
<1> SUFFICES ASSUME s # NoSocket PROVE Local(v, q, d)
  BY <1>1 DEF Local
<1>2. SocketFits(w, q, d)
  BY DEF Local
<1>3. SocketFits(v, q, d)
  BY <1>1, <1>2 DEF SocketFits
<1>4. OwnPages(q) /\ "slot_reused" \notin Faults => BodyFits(v, d)
  <2> SUFFICES ASSUME OwnPages(q), "slot_reused" \notin Faults, s.page # NULL PROVE BodyFits(v, d)
    BY <1>1 DEF BodyFits
  <2>1. s.page \in Pages
    BY SocketType DEF Sockets
  <2>2. PICK k \in q[d] : k.target = s.page
    BY <1>2, <2>1 DEF SocketFits, NamesOf
  <2>3. s.page \notin NamesOf(q, c)
    BY <2>1, <2>2, HttpAssumption DEF OwnPages, NamesOf
  <2>4. v.page[s.page] = w.page[s.page]
    BY <2>1, <2>3 DEF Kept
  <2>5. BodyFits(w, d)
    BY DEF Local
  <2> QED  BY <1>1, <2>4, <2>5 DEF BodyFits
<1>5. OnePoster(q) => PostFits(v, d)
  <2> SUFFICES ASSUME OnePoster(q), s.req = "POST" PROVE PostFits(v, d)
    BY <1>1 DEF PostFits
  <2>1. Posts(q, d) /\ ~Posts(q, c)
    BY <1>2 DEF SocketFits, OnePoster
  <2>2. v.post = w.post
    BY <2>1 DEF Kept
  <2> QED  BY <1>1, <2>2 DEF Local, PostFits
<1> QED  BY <1>3, <1>4, <1>5 DEF Local

LEMMA SocketCount ==
  ASSUME NEW w
  PROVE  IsFiniteSet(InUse(w)) /\ Cardinality(InUse(w)) \in Nat
<1>1. InUse(w) \subseteq Conns
  BY DEF InUse
<1> QED  BY <1>1, HttpAssumption, FS_Subset, FS_CardinalityType

LEMMA StepWhole ==
  ASSUME NEW q \in Traffic, NEW c \in Conns, NEW w, NEW v, Whole(w, q), Step(w, v, q, c)
  PROVE  /\ Whole(v, q) /\ InUse(v) \subseteq InUse(w) /\ InUse(w) \subseteq InUse(v) \cup {c}
         /\ \A d \in Conns \ {c} : v.sock[d] = w.sock[d]
<1>1. \A d \in Conns : Local(v, q, d)
  BY OthersLocal DEF Whole, Step, Sound
<1>2. \A d \in Conns \ {c} : v.sock[d] = w.sock[d]
  BY DEF Step, Kept
<1>3. InUse(v) \subseteq InUse(w) /\ InUse(w) \subseteq InUse(v) \cup {c}
  BY <1>2 DEF Step, Kept, InUse
<1>4. Cardinality(InUse(v)) <= Cardinality(InUse(w))
  BY <1>3, SocketCount, FS_Subset
<1>5. Cardinality(InUse(v)) <= MAX_SOCKET
  BY <1>4, SocketCount, HttpAssumption DEF Whole
<1> QED  BY <1>1, <1>2, <1>3, <1>5 DEF Whole, Step, Sound

(* The state that an operator of the model says there is.                  *)
LEMMA BecomesWorld ==
  ASSUME NEW v \in Worlds, Becomes(v)
  PROVE  World' = v
BY DEF Becomes, World, Worlds

LEMMA StepInv ==
  ASSUME ServerInv, NEW c \in Conns, NEW v, Settled(World, v, peers, c), World' = v,
         peers' = peers, rest' \subseteq InUse(v)
  PROVE  ServerInv'
<1>1. Whole(v, peers) /\ \A d \in Conns \ {c} : v.sock[d] = World.sock[d]
  BY StepWhole DEF ServerInv, Settled
<1>2. Rested(v)
  BY <1>1 DEF Rested, ServerInv, Settled
<1>3. Whole(World', peers') /\ Rested(World')
  BY <1>1, <1>2
<1> QED  BY <1>3 DEF ServerInv

-----------------------------------------------------------------------------
(* The network: a connection opens, closes, or is acknowledged.            *)
Linked(w, c, e, n, units, length) ==
  [w EXCEPT !.eth[c] = e, !.tx[c] = n, !.sent[c] = units, !.hdr[c] = length]

(* Only a connection whose socket is released, or a reused slot, opens.    *)
Links(w, c, e, n, units, length) ==
  /\ e \in EthStates /\ n \in 0 .. TX /\ units \in Seq(Nat) /\ length \in Nat
  /\ \/ w.sock[c] = NoSocket
     \/ "slot_reused" \in Faults
     \/ /\ units = w.sent[c] /\ length = w.hdr[c]
        /\ e = "open" => w.eth[c] = "open"

LEMMA LinkStep ==
  ASSUME NEW q \in Traffic, NEW c \in Conns, NEW w, Sound(w, q, c), NEW e, NEW n, NEW units,
         NEW length, Links(w, c, e, n, units, length)
  PROVE  LET v == Linked(w, c, e, n, units, length)
         IN  Step(w, v, q, c) /\ v.sock = w.sock
<1> DEFINE v == Linked(w, c, e, n, units, length)
<1>1. /\ v \in Worlds /\ v.sock = w.sock /\ v.page = w.page /\ v.file = w.file
      /\ v.post = w.post /\ v.posted = w.posted /\ v.eth[c] = e
      /\ v.sent[c] = units /\ v.hdr[c] = length
      /\ \A d \in Conns \ {c} : /\ v.eth[d] = w.eth[d]
                                /\ v.sent[d] = w.sent[d] /\ v.hdr[d] = w.hdr[d]
  BY DEF Linked, Links, Sound, Worlds
<1> SUFFICES Step(w, v, q, c)
  BY <1>1
<1> HIDE DEF v
<1>2. Shared(v, q)
  <2>1. \A p \in Pages : OpenFor(v, p) = OpenFor(w, p) /\ Serving(v, p) = Serving(w, p)
    BY <1>1 DEF OpenFor, Serving, Page
  <2>2. FileCount(w) => FileCount(v)
    BY <2>1 DEF FileCount
  <2> QED  BY <1>1, <2>2 DEF Sound, Shared, Position, FlashFiles, Posted
<1>3. Local(v, q, c)
  <2> SUFFICES ASSUME w.sock[c] # NoSocket PROVE Local(v, q, c)
    BY <1>1 DEF Local
  <2>1. SocketFits(v, q, c)
    BY <1>1 DEF Sound, Local, SocketFits
  <2>2. OwnPages(q) /\ "slot_reused" \notin Faults => BodyFits(v, c)
    BY <1>1 DEF Sound, Local, BodyFits, Links
  <2>3. OnePoster(q) => PostFits(v, c)
    BY <1>1 DEF Sound, Local, PostFits
  <2> QED  BY <2>1, <2>2, <2>3 DEF Local
<1>4. Kept(w, v, q, c)
  BY <1>1 DEF Kept
<1> QED  BY <1>1, <1>2, <1>3, <1>4 DEF Step, Sound

(* socket_manager_find_socket(): a zeroed socket_t, if there is one.       *)
LEMMA FindSound ==
  ASSUME NEW q \in Traffic, NEW c \in Conns, NEW w, Whole(w, q),
         w.sock[c] # NoSocket => w.sock[c].state \in Resting
  PROVE  LET v == socket_manager_find_socket(w, c)
         IN  /\ Whole(v, q) /\ \A d \in Conns \ {c} : v.sock[d] = w.sock[d]
             /\ v.sock[c] # NoSocket => v.sock[c].state \in Resting \cup {"IDLE"}
<1> DEFINE v == SocketOf(w, c, NewSocket)
<1>1. CASE ~(w.sock[c] = NoSocket /\ Cardinality(InUse(w)) < MAX_SOCKET)
  BY <1>1 DEF socket_manager_find_socket
<1>2. CASE w.sock[c] = NoSocket /\ Cardinality(InUse(w)) < MAX_SOCKET
  <2>1. w \in Worlds /\ NULL \in NamesOf(q, c) /\ NULL \in Names /\ NULL \notin Pages
    BY HttpAssumption DEF Whole, NamesOf, Names
  <2>2. /\ NewSocket \in Sockets /\ NewSocket.page = NULL /\ NewSocket.state = "IDLE"
        /\ NewSocket.target = NULL /\ NewSocket.name = NULL /\ NewSocket.conn = "UNKNOWN"
        /\ NewSocket.req = "UNKNOWN"
    <3>1. 0 \in 0 .. MAX_ALIVE_TIME + 1
      BY HttpAssumption
    <3> QED  BY <2>1, <3>1 DEF NewSocket, Sockets, States, Options
  <2>3. NewSocket # NoSocket
    BY <2>2, NotNoSocket
  <2>4. /\ v \in Worlds /\ v.sock[c] = NewSocket /\ \A d \in Conns \ {c} : v.sock[d] = w.sock[d]
        /\ v.page = w.page /\ v.file = w.file /\ v.eth = w.eth /\ v.tx = w.tx
        /\ v.post = w.post /\ v.posted = w.posted /\ v.sent = w.sent /\ v.hdr = w.hdr
    BY <2>1, <2>2, SocketSet
  <2>5. socket_manager_find_socket(w, c) = v
    BY <1>2 DEF socket_manager_find_socket, SocketOf
  <2> HIDE DEF v
  <2>6. Shared(v, q)
    <3>1. \A p \in Pages : OpenFor(v, p) = OpenFor(w, p)
      BY <2>4 DEF OpenFor
    <3>2. \A p \in Pages : Serving(v, p) = Serving(w, p)
      BY <1>2, <2>1, <2>2, <2>4 DEF Serving, Page
    <3>3. FileCount(w) => FileCount(v)
      BY <3>1, <3>2 DEF FileCount
    <3> QED  BY <2>4, <3>3 DEF Whole, Shared, Position, FlashFiles, Posted
  <2>7. Local(v, q, c)
    <3>1. SocketFits(v, q, c) /\ PostFits(v, c)
      BY <2>1, <2>2, <2>4 DEF SocketFits, PostFits
    <3> QED  BY <2>2, <2>4, <3>1, LocalPageless
  <2>8. \A d \in Conns \ {c} : Local(v, q, d)
    <3> SUFFICES ASSUME NEW d \in Conns \ {c} PROVE Local(v, q, d)
      OBVIOUS
    <3>1. Local(w, q, d) /\ v.sock[d] = w.sock[d]
      BY <2>4 DEF Whole
    <3> QED  BY <2>4, <3>1 DEF Local, SocketFits, BodyFits, PostFits
  <2>9. Cardinality(InUse(v)) <= MAX_SOCKET
    <3>1. InUse(v) = InUse(w) \cup {c} /\ c \notin InUse(w)
      BY <1>2, <2>3, <2>4 DEF InUse
    <3>2. Cardinality(InUse(v)) = Cardinality(InUse(w)) + 1
      BY <3>1, SocketCount, FS_AddElement
    <3> QED  BY <1>2, <3>2, SocketCount, HttpAssumption
  <2>10. Whole(v, q)
    BY <2>4, <2>6, <2>7, <2>8, <2>9 DEF Whole
  <2> QED  BY <2>2, <2>4, <2>5, <2>10
<1> QED  BY <1>1, <1>2

-----------------------------------------------------------------------------
(* Each action of the specification.                                       *)
LEMMA WorldFields ==
  /\ World.sock = sock /\ World.page = page /\ World.file = file /\ World.eth = eth
  /\ World.tx = tx /\ World.post = post /\ World.posted = posted /\ World.sent = sent
  /\ World.hdr = hdr
BY DEF World

(* A link that changes without its handler being called.                   *)
LEMMA LinkInv ==
  ASSUME ServerInv, NEW c \in Conns, NEW e, NEW n, NEW units, NEW length,
         Links(World, c, e, n, units, length), rest' = rest, peers' = peers,
         Becomes(Linked(World, c, e, n, units, length))
  PROVE  ServerInv'
<1> DEFINE v == Linked(World, c, e, n, units, length)
<1>1. Step(World, v, peers, c) /\ v.sock = World.sock
  BY LinkStep DEF ServerInv, Whole, Sound
<1> HIDE DEF v
<1>2. v \in Worlds
  BY <1>1 DEF Step, Sound
<1>3. World' = v
  BY <1>2, BecomesWorld DEF v
<1>4. Settled(World, v, peers, c)
  BY <1>1 DEF Settled, ServerInv, Rested
<1>5. InUse(v) = InUse(World)
  BY <1>1 DEF InUse
<1> QED  BY <1>3, <1>4, <1>5, StepInv DEF ServerInv

LEMMA ConnectInv ==
  ASSUME ServerInv, NEW c \in Conns, Connect(c), UNCHANGED <<rest, peers>>
  PROVE  ServerInv'
<1> DEFINE none == <<>>
           e == "open"
           length == 0
           n == tx[c]
<1>1. World \in Worlds
  BY DEF ServerInv, Whole
<1>2. n \in 0 .. TX /\ none \in Seq(Nat) /\ [tx EXCEPT ![c] = n] = tx
  BY <1>1, WorldFields DEF Worlds
<1>3. Links(World, c, e, n, none, length)
  BY <1>2, WorldFields DEF Links, Connect, EthStates
<1>4. Becomes(Linked(World, c, e, n, none, length))
  BY <1>2 DEF Becomes, Linked, World, Connect
<1> HIDE DEF none, e, length, n
<1> QED  BY <1>3, <1>4, LinkInv

LEMMA ResetInv ==
  ASSUME ServerInv, NEW c \in Conns, Reset(c), UNCHANGED <<rest, peers>>
  PROVE  ServerInv'
<1> DEFINE units == sent[c]
           e == "closed"
           length == hdr[c]
           n == 0
<1>1. World \in Worlds
  BY DEF ServerInv, Whole
<1>2. /\ n \in 0 .. TX /\ units \in Seq(Nat) /\ length \in Nat
      /\ [sent EXCEPT ![c] = units] = sent /\ [hdr EXCEPT ![c] = length] = hdr
  BY <1>1, WorldFields, HttpAssumption DEF Worlds
<1>3. Links(World, c, e, n, units, length)
  BY <1>2, WorldFields DEF Links, EthStates
<1>4. Becomes(Linked(World, c, e, n, units, length))
  BY <1>2 DEF Becomes, Linked, World, Reset
<1> HIDE DEF units, e, length, n
<1> QED  BY <1>3, <1>4, LinkInv

(* A packet: the link changes, a socket is found, the handler runs.        *)
LEMMA PacketInv ==
  ASSUME ServerInv, NEW c \in Conns, NEW g \in peers[c] \cup {NoData}, NEW acks \in BOOLEAN,
         NEW e, e \in EthStates, e = "open" => eth[c] = "open",
         Packet(c, g, acks, e), rest = {}, UNCHANGED <<rest, peers>>
  PROVE  ServerInv'
<1> DEFINE n == IF acks THEN 0 ELSE tx[c]
           units == sent[c]
           length == hdr[c]
           v == Linked(World, c, e, n, units, length)
           w == socket_manager_find_socket(v, c)
<1>1. World \in Worlds /\ peers \in Traffic /\ Whole(World, peers) /\ Rested(World)
  BY DEF ServerInv, Whole
<1>2. /\ n \in 0 .. TX /\ units \in Seq(Nat) /\ length \in Nat
      /\ [sent EXCEPT ![c] = units] = sent /\ [hdr EXCEPT ![c] = length] = hdr
  <2>1. tx[c] \in 0 .. TX /\ TX \in Nat
    BY <1>1, WorldFields, HttpAssumption DEF Worlds
  <2> QED  BY <1>1, <2>1, WorldFields DEF Worlds
<1>3. Links(World, c, e, n, units, length)
  BY <1>2, WorldFields DEF Links
<1>4. [World EXCEPT !.eth[c] = e, !.tx[c] = IF acks THEN 0 ELSE @] = v
  <2>1. [World EXCEPT !.eth[c] = e, !.tx[c] = IF acks THEN 0 ELSE @]
          = [World EXCEPT !.eth[c] = e, !.tx[c] = n]
    BY <1>1, WorldFields DEF Worlds
  <2>2. v = [World EXCEPT !.eth[c] = e, !.tx[c] = n, !.sent = [sent EXCEPT ![c] = units],
                          !.hdr = [hdr EXCEPT ![c] = length]]
    <3> HIDE DEF n, units, length
    <3> QED  BY WorldFields DEF Linked, World
  <2>3. [World EXCEPT !.eth[c] = e, !.tx[c] = n]
          = [World EXCEPT !.eth[c] = e, !.tx[c] = n, !.sent = sent, !.hdr = hdr]
    <3> HIDE DEF n
    <3> QED  BY <1>1, WorldFields DEF Worlds
  <2> QED  BY <1>2, <2>1, <2>2, <2>3
<1> HIDE DEF n, units, length
<1>5. Step(World, v, peers, c) /\ v.sock = World.sock
  BY <1>1, <1>3, LinkStep DEF Whole, Sound
<1> HIDE DEF v
<1>6. Whole(v, peers) /\ \A d \in Conns : v.sock[d] # NoSocket => v.sock[d].state \in Resting
  BY <1>1, <1>5, StepWhole DEF Rested
<1>7. /\ Whole(w, peers) /\ \A d \in Conns \ {c} : w.sock[d] = v.sock[d]
      /\ w.sock[c] # NoSocket => w.sock[c].state \in Resting \cup {"IDLE"}
  BY <1>1, <1>6, FindSound
<1>8. IF w.sock[c] = NoSocket THEN Becomes(w)
      ELSE \E o \in Outcomes : Becomes(http_handle_client(w, c, g, o))
  BY <1>4 DEF Packet
<1> HIDE DEF w
<1>9. SUFFICES ASSUME NEW x, World' = x, Whole(x, peers), Rested(x)
               PROVE  ServerInv'
  <2>1. CASE w.sock[c] = NoSocket
    <3>1. World' = w
      BY <1>7, <1>8, <2>1, BecomesWorld DEF Whole
    <3>2. Rested(w)
      BY <1>6, <1>7, <2>1 DEF Rested
    <3> QED  BY <1>7, <1>9, <3>1, <3>2
  <2>2. CASE w.sock[c] # NoSocket
    <3>1. PICK o \in Outcomes : Becomes(http_handle_client(w, c, g, o))
      BY <1>8, <2>2
    <3>2. o \in OutcomeType
      BY DEF Outcomes, OutcomeType, May
    <3> DEFINE x == http_handle_client(w, c, g, o)
    <3>3. Settled(w, x, peers, c)
      BY <1>1, <1>7, <2>2, <3>2, HandleSettled DEF Whole, Sound
    <3> HIDE DEF x
    <3>4. Whole(x, peers) /\ \A d \in Conns \ {c} : x.sock[d] = w.sock[d]
      BY <1>1, <1>7, <3>3, StepWhole DEF Settled
    <3>5. World' = x
      BY <3>1, <3>4, BecomesWorld DEF Whole, x
    <3>6. Rested(x)
      BY <1>6, <1>7, <3>3, <3>4 DEF Rested, Settled
    <3> QED  BY <1>9, <3>4, <3>5, <3>6
  <2> QED  BY <2>1, <2>2
<1> QED  BY <1>1, <1>9 DEF ServerInv

LEMMA MainLoopInv ==
  ASSUME ServerInv, rest = {}, MainLoop, UNCHANGED <<rest, peers>>
  PROVE  ServerInv'
<1>1. PICK c \in Conns : Connect(c) \/ Reset(c) \/ Data(c) \/ Ack(c) \/ Fin(c)
  BY DEF MainLoop
<1>2. eth[c] \in EthStates
  BY WorldFields DEF ServerInv, Whole, Worlds
<1>3. CASE Connect(c)
  BY <1>3, ConnectInv
<1>4. CASE Reset(c)
  BY <1>4, ResetInv
<1>5. CASE Data(c)
  <2>1. PICK g \in peers[c], acks \in BOOLEAN : eth[c] = "open" /\ Packet(c, g, acks, "open")
    BY <1>5 DEF Data
  <2> DEFINE e == "open"
  <2>2. e \in EthStates /\ (e = "open" => eth[c] = "open") /\ Packet(c, g, acks, e)
    BY <2>1 DEF EthStates
  <2> HIDE DEF e
  <2> QED  BY <2>2, PacketInv
<1>6. CASE Ack(c)
  <2> DEFINE e == eth[c]
             g == NoData
             acks == TRUE
  <2>1. /\ e \in EthStates /\ Packet(c, g, acks, e) /\ g \in peers[c] \cup {NoData}
        /\ acks \in BOOLEAN
        /\ e = "open" => eth[c] = "open"
    BY <1>2, <1>6 DEF Ack
  <2> HIDE DEF e, g, acks
  <2> QED  BY <2>1, PacketInv
<1>7. CASE Fin(c)
  <2>1. PICK acks \in BOOLEAN : Packet(c, NoData, acks, "closing")
    BY <1>7 DEF Fin
  <2> DEFINE e == "closing"
             g == NoData
  <2>2. /\ e \in EthStates /\ Packet(c, g, acks, e) /\ g \in peers[c] \cup {NoData}
        /\ e = "open" => eth[c] = "open"
    BY <2>1 DEF EthStates
  <2> HIDE DEF e, g
  <2> QED  BY <2>2, PacketInv
<1> QED  BY <1>1, <1>3, <1>4, <1>5, <1>6, <1>7

(* The timer changes nothing of a socket but its age.                      *)
LEMMA TimerInv ==
  ASSUME ServerInv, alive_time_update, UNCHANGED <<rest, peers>>
  PROVE  ServerInv'
<1> DEFINE w == World
           v == World'
           aged(c) == [sock[c] EXCEPT !.alive = MinOf(@ + 1, MAX_ALIVE_TIME + 1)]
<1>1. w \in Worlds /\ Shared(w, peers) /\ Rested(w) /\ \A c \in Conns : Local(w, peers, c)
  BY DEF ServerInv, Whole
<1>2. \A c \in Conns : sock[c] # NoSocket =>
        /\ aged(c) \in Sockets /\ aged(c).page = sock[c].page /\ aged(c).state = sock[c].state
        /\ aged(c).target = sock[c].target /\ aged(c).name = sock[c].name
        /\ aged(c).conn = sock[c].conn /\ aged(c).req = sock[c].req
  <2> SUFFICES ASSUME NEW c \in Conns, sock[c] # NoSocket
               PROVE  /\ aged(c) \in Sockets /\ aged(c).page = sock[c].page
                      /\ aged(c).state = sock[c].state
                      /\ aged(c).target = sock[c].target /\ aged(c).name = sock[c].name
                      /\ aged(c).conn = sock[c].conn /\ aged(c).req = sock[c].req
    OBVIOUS
  <2> DEFINE n == MinOf(sock[c].alive + 1, MAX_ALIVE_TIME + 1)
  <2>1. sock[c] \in Sockets
    BY <1>1, SocketType, WorldFields
  <2>2. n \in 0 .. MAX_ALIVE_TIME + 1
    <3>1. sock[c].alive \in 0 .. MAX_ALIVE_TIME + 1 /\ MAX_ALIVE_TIME \in Nat
      BY <2>1, HttpAssumption DEF Sockets
    <3> QED  BY <3>1 DEF MinOf
  <2>3. aged(c) = [sock[c] EXCEPT !.alive = n]
    OBVIOUS
  <2> HIDE DEF n
  <2> QED  BY <2>1, <2>2, <2>3 DEF Sockets
<1>3. /\ v.sock = [c \in Conns |-> IF sock[c] = NoSocket THEN NoSocket ELSE aged(c)]
      /\ v.page = w.page /\ v.file = w.file /\ v.eth = w.eth /\ v.tx = w.tx /\ v.post = w.post
      /\ v.posted = w.posted /\ v.sent = w.sent /\ v.hdr = w.hdr
      /\ v = [w EXCEPT !.sock = v.sock]
  BY DEF World, alive_time_update
<1> HIDE DEF aged
<1>4. \A c \in Conns :
        \/ w.sock[c] = NoSocket /\ v.sock[c] = NoSocket
        \/ /\ w.sock[c] # NoSocket /\ v.sock[c] # NoSocket
           /\ v.sock[c] \in Sockets /\ v.sock[c].page = w.sock[c].page
           /\ v.sock[c].state = w.sock[c].state
           /\ v.sock[c].target = w.sock[c].target /\ v.sock[c].name = w.sock[c].name
           /\ v.sock[c].conn = w.sock[c].conn /\ v.sock[c].req = w.sock[c].req
  BY <1>2, <1>3, WorldFields, NotNoSocket
<1>5. v \in Worlds
  <2>1. v.sock \in [Conns -> Sockets \cup {NoSocket}]
    <3>1. \A c \in Conns : v.sock[c] \in Sockets \cup {NoSocket}
      BY <1>4
    <3> QED  BY <1>3, <3>1
  <2> HIDE DEF w, v
  <2> QED  BY <1>1, <1>3, <2>1 DEF Worlds
<1> HIDE DEF w, v
<1>6. Shared(v, peers)
  <2>1. \A c \in Conns : Page(v, c) = Page(w, c)
    BY <1>4 DEF Page
  <2>2. \A p \in Pages : OpenFor(v, p) = OpenFor(w, p) /\ Serving(v, p) = Serving(w, p)
    BY <1>3, <2>1 DEF OpenFor, Serving
  <2>3. FileCount(w) => FileCount(v)
    BY <2>2 DEF FileCount
  <2> QED  BY <1>1, <1>3, <2>3 DEF Shared, Position, FlashFiles, Posted
<1>7. \A c \in Conns : Local(v, peers, c)
  <2> SUFFICES ASSUME NEW c \in Conns PROVE Local(v, peers, c)
    OBVIOUS
  <2>1. Local(w, peers, c)
    BY <1>1
  <2> QED  BY <1>3, <1>4, <2>1 DEF Local, SocketFits, BodyFits, PostFits
<1>8. InUse(v) = InUse(w) /\ Rested(v)
  BY <1>1, <1>4 DEF InUse, Rested
<1>9. Cardinality(InUse(v)) <= MAX_SOCKET /\ rest \subseteq InUse(v)
  BY <1>8 DEF ServerInv, Whole, w
<1>10. Whole(v, peers)
  BY <1>5, <1>6, <1>7, <1>9 DEF Whole
<1> QED  BY <1>8, <1>9, <1>10 DEF ServerInv, v

(* The system beat starts on the sockets in use, and visits one of them.   *)
LEMMA BeatInv ==
  ASSUME ServerInv, socket_manager_cleanup, UNCHANGED peers
  PROVE  ServerInv'
<1>1. Whole(World, peers) /\ Rested(World) /\ peers \in Traffic /\ rest \subseteq InUse(World)
  BY DEF ServerInv
<1>2. ASSUME UNCHANGED worldVars, rest' \subseteq InUse(World)
      PROVE  ServerInv'
  <2>1. World' = World
    BY <1>2 DEF World, worldVars
  <2>2. Whole(World', peers') /\ Rested(World') /\ InUse(World') = InUse(World)
    BY <1>1, <2>1
  <2> QED  BY <1>1, <1>2, <2>2 DEF ServerInv
<1>3. CASE BeatStarts
  BY <1>2, <1>3 DEF BeatStarts
<1>4. CASE BeatVisits
  <2>1. PICK c \in rest :
          /\ rest' = rest \ {c}
          /\ IF c \in Expired
               THEN \E ok \in May("disconnect_fails") : Becomes(close_server_socket(World, c, ok))
               ELSE UNCHANGED worldVars
    BY <1>4 DEF BeatVisits
  <2>2. CASE c \in Expired
    <3>1. PICK ok \in May("disconnect_fails") : Becomes(close_server_socket(World, c, ok))
      BY <2>1, <2>2
    <3>2. ok \in BOOLEAN /\ c \in Conns /\ World.sock[c] # NoSocket
      BY <1>1, <2>1 DEF May, InUse
    <3> DEFINE v == close_server_socket(World, c, ok)
    <3>3. Settled(World, v, peers, c)
      BY <1>1, <3>2, CloseSettled DEF Whole, Sound, Rested
    <3> HIDE DEF v
    <3>4. World' = v
      BY <3>1, <3>3, BecomesWorld DEF Settled, Step, Sound, v
    <3>5. InUse(World) \subseteq InUse(v) \cup {c}
      BY <1>1, <3>2, <3>3, StepWhole DEF Settled
    <3> QED  BY <1>1, <2>1, <3>2, <3>3, <3>4, <3>5, StepInv
  <2>3. CASE c \notin Expired
    BY <1>1, <1>2, <2>1, <2>3
  <2> QED  BY <2>2, <2>3
<1> QED  BY <1>3, <1>4 DEF socket_manager_cleanup

-----------------------------------------------------------------------------
(* The theorems.                                                           *)
LEMMA InitInv ==
  ASSUME Init
  PROVE  ServerInv
<1> DEFINE w == World
<1>1. /\ w.sock = [c \in Conns |-> NoSocket] /\ w.page = [p \in Pages |-> NewPage(p)]
      /\ w.file = [h \in Handles |-> NoFile] /\ w.eth = [c \in Conns |-> "closed"]
      /\ w.tx = [c \in Conns |-> 0] /\ w.post = <<>> /\ w.posted = NotPosted
      /\ w.sent = [c \in Conns |-> <<>>] /\ w.hdr = [c \in Conns |-> 0]
      /\ rest = {} /\ peers \in Traffic
  BY WorldFields DEF Init
<1>2. \A p \in Pages : NewPage(p) \in PageStates /\ NewPage(p).cur < NewPage(p).len /\ p # NULL
  BY HttpAssumption DEF NewPage, PageStates
<1>3. NoFile \in Files /\ NoFile.page = NULL
  BY DEF NoFile, Files
<1>4. w \in Worlds
  <2>1. w.page \in [Pages -> PageStates] /\ w.file \in [Handles -> Files]
    BY <1>1, <1>2, <1>3
  <2>2. w.sock \in [Conns -> Sockets \cup {NoSocket}] /\ w.eth \in [Conns -> EthStates]
    BY <1>1 DEF EthStates
  <2>3. w.tx \in [Conns -> 0 .. TX] /\ w.sent \in [Conns -> Seq(Nat)] /\ w.hdr \in [Conns -> Nat]
    <3>1. 0 \in 0 .. TX
      BY HttpAssumption
    <3> QED  BY <1>1, <3>1
  <2>4. w.post \in Seq(Units) /\ w.posted \in Postings
    BY <1>1 DEF NotPosted, Postings
  <2> QED  BY <2>1, <2>2, <2>3, <2>4 DEF World, Worlds
<1>5. Shared(w, peers)
  <2>1. Position(w) /\ FlashFiles(w) /\ Posted(w)
    BY <1>1, <1>2, <1>3 DEF Position, FlashFiles, Posted
  <2>2. \A p \in Pages : OpenFor(w, p) = {}
    BY <1>1, <1>2, <1>3 DEF OpenFor
  <2>3. FileCount(w)
    BY <2>2, CountEmpty DEF FileCount
  <2> QED  BY <2>1, <2>3 DEF Shared
<1>6. (\A c \in Conns : Local(w, peers, c)) /\ Rested(w) /\ InUse(w) = {}
  BY <1>1 DEF Local, Rested, InUse
<1>7. Cardinality(InUse(w)) <= MAX_SOCKET
  BY <1>6, HttpAssumption, FS_EmptySet
<1> HIDE DEF w
<1> QED  BY <1>1, <1>4, <1>5, <1>6, <1>7 DEF ServerInv, Whole, w

LEMMA NextInv ==
  ASSUME ServerInv, [Next]_vars
  PROVE  ServerInv'
<1>1. CASE rest = {} /\ MainLoop /\ UNCHANGED <<rest, peers>>
  BY <1>1, MainLoopInv
<1>2. CASE alive_time_update /\ UNCHANGED <<rest, peers>>
  BY <1>2, TimerInv
<1>3. CASE socket_manager_cleanup /\ UNCHANGED peers
  BY <1>3, BeatInv
<1>4. CASE UNCHANGED vars
  <2>1. World' = World /\ rest' = rest /\ peers' = peers
    BY <1>4 DEF vars, worldVars, World
  <2>2. InUse(World') = InUse(World)
    BY <2>1
  <2> QED  BY <2>1, <2>2 DEF ServerInv
<1> QED  BY <1>1, <1>2, <1>3, <1>4 DEF Next

(* The invariant holds in every reachable state.                           *)
THEOREM ServerInvariant == Spec => []ServerInv
<1>1. Init => ServerInv
  BY InitInv
<1>2. ServerInv /\ [Next]_vars => ServerInv'
  BY NextInv
<1> QED  BY <1>1, <1>2, PTL DEF Spec

(* Sockets, pages and buffers keep their types, no more sockets are in use *)
(* than the pool has, and between two calls of the handler a socket is in  *)
(* one of the states in which it can wait.                                 *)
THEOREM ServerTypeCorrect == Spec => []TypeOK
<1>1. ServerInv => TypeOK
  <2> SUFFICES ASSUME ServerInv PROVE TypeOK
    OBVIOUS
  <2>1. World \in Worlds
    BY DEF ServerInv, Whole
  <2>2. \A c \in InUse(World) :
          /\ DOMAIN sock[c] = DOMAIN NewSocket
          /\ sock[c].state \in {"GET_REQUEST", "PROCESS_REQUEST", "SERVE_BODY",
                               "WAIT_TILL_DONE", "DISCONNECT"}
          /\ sock[c].req \in {"UNKNOWN", "GET", "POST", "PUT"} /\ sock[c].conn \in Options
          /\ sock[c].resp \in {"UNKNOWN", "200", "404"}
          /\ sock[c].page \in Pages \cup {NULL}
          /\ sock[c].alive \in 0 .. MAX_ALIVE_TIME + 1
    <3> SUFFICES ASSUME NEW c \in Conns, sock[c] # NoSocket
                 PROVE  /\ DOMAIN sock[c] = DOMAIN NewSocket
                        /\ sock[c].state \in {"GET_REQUEST", "PROCESS_REQUEST", "SERVE_BODY",
                                             "WAIT_TILL_DONE", "DISCONNECT"}
                        /\ sock[c].req \in {"UNKNOWN", "GET", "POST", "PUT"}
                        /\ sock[c].conn \in Options
                        /\ sock[c].resp \in {"UNKNOWN", "200", "404"}
                        /\ sock[c].page \in Pages \cup {NULL}
                        /\ sock[c].alive \in 0 .. MAX_ALIVE_TIME + 1
      BY WorldFields DEF InUse
    <3>1. sock[c] \in Sockets
      BY <2>1, SocketType, WorldFields
    <3>2. sock[c].state \in Resting
      BY WorldFields DEF ServerInv, Rested
    <3> QED  BY <3>1, <3>2 DEF Sockets, NewSocket, Resting
  <2>3. Cardinality(InUse(World)) <= MAX_SOCKET /\ rest \subseteq InUse(World) /\ peers \in Traffic
    BY DEF ServerInv, Whole
  <2>4. /\ \A p \in Pages : page[p].handle \in Handles \cup {-1}
        /\ \A h \in Handles : file[h].page \in Pages \cup {NULL}
    <3>1. page \in [Pages -> PageStates] /\ file \in [Handles -> Files]
      BY <2>1, WorldFields DEF Worlds
    <3> QED  BY <3>1 DEF PageStates, Files
  <2>5. eth \in [Conns -> {"open", "closing", "closed"}] /\ tx \in [Conns -> 0 .. TX]
    BY <2>1, WorldFields DEF Worlds, EthStates
  <2>6. Range(post) \subseteq Conns \cup {Junk}
    <3>1. post \in Seq(Units)
      BY <2>1, WorldFields DEF Worlds
    <3> QED  BY <3>1 DEF Range, Units
  <2> QED  BY <2>2, <2>3, <2>4, <2>5, <2>6 DEF TypeOK
<1> QED  BY <1>1, ServerInvariant, PTL

(* The position in a page in memory stays before its end: end_ptr -        *)
(* current_ptr, which is unsigned, never wraps, whoever shares the page.   *)
THEOREM PositionAlways == Spec => []PositionInPage
<1>1. ServerInv => PositionInPage
  BY WorldFields DEF ServerInv, Whole, Shared, Position, PositionInPage
<1> QED  BY <1>1, ServerInvariant, PTL

(* No file handle is lost, as long as nobody keeps a connection alive on   *)
(* which a file is fetched: the file of a page is closed by the end of its *)
(* transfer or by close_server_socket(), of whichever socket.              *)
THEOREM FilesClosedAlways ==
  ASSUME FilesNotKept
  PROVE  Spec => []FilesClosed
<1>1. ServerInv => FilesClosed
  <2> SUFFICES ASSUME ServerInv, NEW h \in Handles, file[h].page # NULL
               PROVE  \E c \in InUse(World) : sock[c].page = file[h].page
    BY DEF FilesClosed
  <2> DEFINE p == file[h].page
  <2>1. p \in Pages
    <3>1. file \in [Handles -> Files]
      BY WorldFields DEF ServerInv, Whole, Worlds
    <3> QED  BY <3>1 DEF Files
  <2>2. Cardinality(OpenFor(World, p)) <= Cardinality(Serving(World, p))
    BY <2>1 DEF ServerInv, Whole, Shared, FileCount
  <2>3. h \in OpenFor(World, p)
    BY WorldFields DEF OpenFor
  <2>4. Cardinality(OpenFor(World, p)) # 0
    BY <2>3, CountType, FS_EmptySet
  <2>5. Serving(World, p) # {}
    <3> SUFFICES ASSUME Serving(World, p) = {} PROVE FALSE
      OBVIOUS
    <3>1. Cardinality(Serving(World, p)) = 0
      BY FS_EmptySet
    <3> QED  BY <2>2, <2>4, <3>1, CountType
  <2>6. PICK c \in Conns : Page(World, c) = p
    BY <2>5 DEF Serving
  <2>7. sock[c] # NoSocket /\ sock[c].page = p
    BY <2>1, <2>6, WorldFields, HttpAssumption DEF Page
  <2> QED  BY <2>7, WorldFields DEF InUse
<1> QED  BY <1>1, ServerInvariant, PTL

(* Clients of pages of their own get their bodies whole and in order,      *)
(* whatever the other clients do, unless a connection takes the slot of one*)
(* whose socket is not released yet.                                       *)
THEOREM OwnBodies ==
  ASSUME "slot_reused" \notin Faults
  PROVE  Spec => []OwnBodyIntact
<1>1. ServerInv => OwnBodyIntact
  <2> SUFFICES ASSUME ServerInv, OwnPages(peers), NEW c \in Conns, Complete(c),
                      Kind[sock[c].page] # "flash"
               PROVE  WholeBody(c)
    BY DEF OwnBodyIntact, BodyIntact
  <2>1. BodyFits(World, c) /\ sock[c] # NoSocket
    BY WorldFields DEF ServerInv, Whole, Local, Complete, InUse
  <2>2. sent[c] = Upto(hdr[c])
    BY <2>1, WorldFields DEF BodyFits, Complete
  <2> QED  BY <2>2 DEF WholeBody, Upto
<1> QED  BY <1>1, ServerInvariant, PTL

(* While one client posts, the callback gets its body, whole: no other     *)
(* connection touches the buffer and the counter that all of them share.   *)
THEOREM PostsIntact == Spec => []PostIntact
<1>1. ServerInv => PostIntact
  BY WorldFields DEF ServerInv, Whole, Shared, Posted, PostIntact
<1> QED  BY <1>1, ServerInvariant, PTL

=============================================================================
