----------------------------- MODULE HttpClient -----------------------------
(***************************************************************************)
(* The web client (network/protocols/http_client/http_client.c): a task    *)
(* asks for a file, packets of its connection drive http_client_handle(),  *)
(* the body is captured in a swap file on the card, and closing the socket *)
(* turns the swap file into the downloaded file and calls back.            *)
(*                                                                         *)
(* Everything runs in the main thread; only the alive times are counted by *)
(* the timer interrupt.  The TCP stack, the FAT32 library, DNS and the     *)
(* server are external.  Bodies are counted in units; servers do not use   *)
(* chunked encoding, and no line of a body reads as a Content-Length.      *)
(*                                                                         *)
(* Every call of the card and of the stack may fail, as far as Faults says *)
(* so.  "end_cut" is a header whose last two line ends come in two         *)
(* segments, "copy_fails" a read or a write of the copy, whose result the  *)
(* code does not look at, "close_fails" a FAT32_Close(), after which it    *)
(* goes on and releases the socket.                                        *)
(***************************************************************************)
EXTENDS Integers, Sequences, FiniteSets, FiniteSetsExt, SequencesExt

CONSTANTS
  Conns,             (* slots of the TCP stack's socket table              *)
  MAX_SOCKET,        (* size of the socket_t pool                          *)
  Handles,           (* FAT32 file handles                                 *)
  Responses,         (* what servers answer: units of body, and whether a  *)
                     (* Content-Length announces them                      *)
  MAX_ALIVE_TIME,
  Faults,            (* which external failures happen                     *)
  NULL

ASSUME ClientAssumption ==
  /\ MAX_SOCKET \in Nat \ {0} /\ MAX_ALIVE_TIME \in Nat
  /\ Handles \subseteq Nat /\ IsFiniteSet(Handles) /\ 0 \in Handles
  /\ NULL \notin Conns /\ NULL \notin {"swap", "file"}
  /\ \A r \in Responses : r.size \in Nat /\ r.announced \in BOOLEAN
  /\ Faults \subseteq {"dns_fails", "no_room", "connect_fails", "connects_late", "disconnect_fails",
                       "card_fails", "open_fails", "write_fails", "no_memory",
                       "close_fails", "copy_fails", "end_cut"}

VARIABLES
  client,    (* client_request                                             *)
  sockets,   (* the pool of socket_t's, the newest first                   *)
  eth,       (* state of each TCP connection: 3 is "open"                  *)
  server,    (* the peer of each connection: its answer, how far it is     *)
  files,     (* which file each FAT32 handle has open                      *)
  swap,      (* SWAP_FILE on the card: the units in it, NULL if absent     *)
  reported,  (* history: the last file the callback was called for         *)
  rest       (* sockets the system beat has still to look at               *)

vars == <<client, sockets, eth, server, files, swap, reported, rest>>

NoRequest == [eth |-> NULL, send |-> FALSE, captured |-> 0, handle |-> 0]
NewSocket(e) == [eth |-> e, state |-> "IDLE", clen |-> 0, full |-> FALSE, alive |-> 0]
(* `skipped' is history: units of the body that were read as a header.     *)
NoServer == [asked |-> FALSE, head |-> "unsent", skipped |-> 0, sent |-> 0, size |-> 0,
             announced |-> FALSE]
NotReported == [data |-> <<>>, size |-> 0, state |-> "IDLE", cut |-> FALSE]

World == [client |-> client, sockets |-> sockets, eth |-> eth, server |-> server,
          files |-> files, swap |-> swap, reported |-> reported]
Becomes(w) ==
  /\ client' = w.client /\ sockets' = w.sockets /\ eth' = w.eth /\ server' = w.server
  /\ files' = w.files /\ swap' = w.swap /\ reported' = w.reported

May(fault) == IF fault \in Faults THEN BOOLEAN ELSE {TRUE}
Stucks == IF "close_fails" \in Faults THEN SUBSET {"first", "swap", "file"} ELSE {{}}
Copies == IF "copy_fails" \in Faults THEN {"whole", "missing", "stale"} ELSE {"whole"}
Outcomes == [disconnects : May("disconnect_fails"), makes : May("card_fails"),
             opens : May("open_fails"), writes : May("write_fails"), memory : May("no_memory"),
             stuck : Stucks, copies : Copies]

(* The second close in a call matters only if the first has failed.        *)
TwoOutcomes ==
  {o \in [1 .. 2 -> Outcomes] : o[1].disconnects /\ o[1].memory => o[2] = o[1]}

-----------------------------------------------------------------------------
(* The pool and the card, by their contracts.                              *)

Found(w, e) == SelectInSeq(w.sockets, LAMBDA s : s.eth = e)

socket_manager_find_socket(w, e) ==
  IF Found(w, e) = 0 /\ Len(w.sockets) < MAX_SOCKET
    THEN [w EXCEPT !.sockets = <<NewSocket(e)>> \o @]
    ELSE w

Free(w) == {h \in Handles : w.files[h] = NULL}
OpenFor(w, name) == {h \in Handles : w.files[h] = name}
CloseAll(w, hs) == [w EXCEPT !.files = [h \in Handles |-> IF h \in hs THEN NULL ELSE @[h]]]

(* FAT32_WriteSwap(): fails on a handle that is not open for the swap file.*)
Writes(w, o) == o.writes /\ w.files[w.client.handle] = "swap"

-----------------------------------------------------------------------------
(* Faulty variant: a request that is over is not forgotten.                *)
ReleaseKeepingRequest(w, k) == [w EXCEPT !.sockets = RemoveAt(@, k)]

(* socket_manager_close() and the memset() of client_request.  The peer of *)
(* a closed connection is of no use any more.                              *)
Release(w, k) ==
  [w EXCEPT !.sockets = RemoveAt(@, k), !.client = NoRequest,
            !.server = [c \in Conns |-> IF c = w.sockets[k].eth THEN NoServer ELSE @[c]]]

(* The copy is made sector by sector and no result is looked at: a write   *)
(* that fails leaves a hole, a read that fails writes what is in the       *)
(* buffer (0 is no unit of any body).                                      *)
Copied(units, copies) ==
  CASE copies = "missing" -> Tail(units)
    [] copies = "stale"   -> [units EXCEPT ![1] = 0]
    [] OTHER              -> units

(* The two files of a save as they are opened, those in `stay' not closed  *)
(* again.                                                                  *)
Stay(w, stay) ==
  LET h == Min(Free(w))
      g == Min(Free(w) \ {h})
  IN  [w EXCEPT !.files = [x \in Handles |->
         CASE x = h /\ "swap" \in stay -> "swap"
           [] x = g /\ "file" \in stay -> "file"
           [] OTHER -> @[x]]]

(* Of the two files only one could be opened, and it may not close.        *)
StayOne(w, o) ==
  LET Open(use) == [w EXCEPT !.files[Min(Free(w))] = use]
  IN  CASE Free(w) # {} /\ o.stuck = {"swap"} -> Open("swap")
        [] Free(w) # {} /\ o.stuck = {"file"} /\ ~o.opens -> Open("file")
        [] OTHER -> w

(* What was captured is copied from the swap file to the file the socket   *)
(* names, and reported, whatever the reason the download has ended for and *)
(* whatever has failed.  What becomes of the swap file itself does not     *)
(* matter: the next download makes it anew.                                *)
SaveFile(w, k, o) ==
  LET captured == SubSeq(w.swap, 1, w.client.captured)
      peer == w.server[w.sockets[k].eth]
  IN  IF o.opens /\ Cardinality(Free(w)) >= 2
        THEN [Release(Stay(w, o.stuck), k) EXCEPT
                !.swap = NULL,
                !.reported = [data |-> Copied(captured, o.copies), size |-> peer.size,
                              state |-> w.sockets[k].state, cut |-> peer.head = "cut"]]
        ELSE [Release(StayOne(w, o), k) EXCEPT !.swap = NULL]

(* Without memory for a sector the function returns with both files open.  *)
LeaveOpen(w) == [Stay(w, {"swap", "file"}) EXCEPT !.client.handle = Min(Free(w))]

(* Faulty variant: a swap file in which nothing was captured stays open.   *)
CloseSwapWithData(w, o) ==
  IF w.client.captured = 0 THEN w ELSE CloseAll(w, OpenFor(w, "swap"))

(* FAT32_GetFileHandle() finds one open handle of the file, if any.  When  *)
(* it cannot be closed, what was captured is given up.                     *)
CloseSwap(w, o) ==
  CASE OpenFor(w, "swap") = {} -> w
    [] OpenFor(w, "swap") # {} /\ "first" \in o.stuck -> [w EXCEPT !.client.captured = 0]
    [] OTHER -> CloseAll(w, {Min(OpenFor(w, "swap"))})

close_client_socket(w, k, o) ==
  LET e == w.sockets[k].eth
      gone == CloseSwap([w EXCEPT !.eth = [c \in Conns |-> IF c = e THEN "closed" ELSE @[c]]], o)
      saving == gone.client.captured > 0 /\ gone.swap # NULL
  IN  CASE ~o.disconnects -> w
        [] o.disconnects /\ ~saving -> Release(gone, k)
        [] o.disconnects /\ saving /\ ~o.memory /\ o.opens /\ Cardinality(Free(gone)) >= 2 ->
             LeaveOpen(gone)
        [] OTHER -> SaveFile(gone, k, o)

-----------------------------------------------------------------------------
(* A segment, with what get_response() would make of it: "part" of a       *)
(* header, a "bad" line, a line "long" enough to fill the line buffer, or  *)
(* an "end", two line ends with nothing between them; how many of its      *)
(* units of body come before that end; and its units of body.              *)
NoData == [reads |-> "none", skip |-> 0, units |-> <<>>]
Behind(g) == [NoData EXCEPT !.units = SubSeq(g.units, g.skip + 1, Len(g.units))]

(* Step 1.                                                                 *)
send_request(w, k) ==
  [w EXCEPT !.sockets[k].state = "GET_RESPONSE", !.server[w.sockets[k].eth].asked = TRUE]

(* Step 2.  Nothing is read any more once the line buffer is full.  The    *)
(* line ends are counted anew in each segment: an end that comes in two is *)
(* not seen, and lines of the body are read as lines of the header until   *)
(* there is an end between them.                                           *)
get_response(w, k, g, o) ==
  LET peer == w.server[w.sockets[k].eth]
  IN  CASE w.eth[w.sockets[k].eth] # "open" /\ g = NoData -> close_client_socket(w, k, o)
        [] g.reads = "long" -> [w EXCEPT !.sockets[k].full = TRUE]
        [] g.reads = "bad" /\ ~w.sockets[k].full -> [w EXCEPT !.sockets[k].state = "DISCONNECT"]
        [] g.reads = "end" /\ ~w.sockets[k].full ->
             [w EXCEPT !.sockets[k].state = "OPEN_FILE",
                       !.sockets[k].clen = IF peer.announced THEN peer.size ELSE 0,
                       !.server[w.sockets[k].eth].skipped = peer.sent - Len(Behind(g).units)]
        [] OTHER -> w

(* The swap file is made anew and opened.                                  *)
MakeSwap(w, h) == [w EXCEPT !.swap = <<>>, !.files[h] = "swap", !.client.handle = h]

(* Faulty variants: the count goes down, an error of the card is ignored.  *)
CaptureDown(w, units) ==
  [w EXCEPT !.swap = @ \o units, !.client.captured = @ - Len(units)]
StoreUnchecked(w, k, units, o) ==
  IF Writes(w, o) THEN [w EXCEPT !.swap = @ \o units, !.client.captured = @ + Len(units)] ELSE w

Capture(w, units) ==
  [w EXCEPT !.swap = @ \o units, !.client.captured = @ + Len(units)]

Store(w, k, units, o) ==
  IF Writes(w, o) THEN Capture(w, units) ELSE [w EXCEPT !.sockets[k].state = "DISCONNECT"]

(* Step 4.  The rest of the segment goes to the swap file; whatever fails, *)
(* the socket waits in DISCONNECT for its next packet.                     *)
open_file(w, k, g, o) ==
  LET Goto(v, state) == [v EXCEPT !.sockets[k].state = state]
  IN  CASE ~o.makes -> Goto(w, "DISCONNECT")
        [] o.makes /\ (~o.opens \/ Free(w) = {}) ->
             Goto([w EXCEPT !.swap = <<>>, !.client.handle = -1], "DISCONNECT")
        [] OTHER -> Store(Goto(MakeSwap(w, Min(Free(w))), "GET_DATA"), k, g.units, o)

(* Faulty variant: the download ends one unit early.                       *)
CompleteTooEarly(captured, clen) == clen > 0 /\ captured + 1 >= clen

Complete(captured, clen) == clen > 0 /\ captured >= clen

(* Step 5.  A packet of a connection that is closing is not read.          *)
get_data(w, k, g, o) ==
  LET next == Store(w, k, g.units, o)
      ended == next.sockets[k].state = "GET_DATA"
                 /\ Complete(next.client.captured, w.sockets[k].clen)
  IN  CASE w.eth[w.sockets[k].eth] # "open" -> [w EXCEPT !.sockets[k].state = "DISCONNECT"]
        [] OTHER -> IF ended THEN [next EXCEPT !.sockets[k].state = "DOWNLOAD_COMPLETE"] ELSE next

(* The end of a download falls through into a second close, which finds    *)
(* nothing left to do if the first one has released the socket.            *)
CloseTwice(w, k, o) ==
  LET once == close_client_socket(w, k, o[1])
  IN  IF Len(once.sockets) < Len(w.sockets) THEN once ELSE close_client_socket(once, k, o[2])

http_client_handle(w, k, g, o) ==
  LET v == [w EXCEPT !.sockets[k].alive = 0]
      state == v.sockets[k].state
      heard == get_response(v, k, g, o[1])
      data  == get_data(v, k, g, o[1])
      opens == Len(heard.sockets) = Len(v.sockets) /\ heard.sockets[k].state = "OPEN_FILE"
  IN  CASE state = "SEND_REQUEST" -> send_request(v, k)
        [] state = "GET_RESPONSE" -> IF opens THEN open_file(heard, k, Behind(g), o[1])
                                               ELSE heard
        [] state = "OPEN_FILE" -> open_file(v, k, g, o[1])
        [] state = "GET_DATA" -> IF data.sockets[k].state = "DOWNLOAD_COMPLETE"
                                   THEN CloseTwice(data, k, o) ELSE data
        [] state = "DOWNLOAD_COMPLETE" -> CloseTwice(v, k, o)
        [] OTHER -> close_client_socket(v, k, o[1])

(* A failed request closes its socket, which has no connection yet: what   *)
(* disconnecting a null pointer returns is anybody's guess.                *)
GiveUp(w, o) == [close_client_socket(w, Found(w, NULL), o) EXCEPT !.client.eth = NULL]

-----------------------------------------------------------------------------
Init ==
  /\ client = NoRequest
  /\ sockets = <<>>
  /\ eth = [c \in Conns |-> "closed"]
  /\ server = [c \in Conns |-> NoServer]
  /\ files = [h \in Handles |-> NULL]
  /\ swap = NULL
  /\ reported = NotReported
  /\ rest = 0

(* task_get_tide_data(): http_client_request_file() while no download runs.*)
RequestStart == [World EXCEPT !.client = NoRequest]
WithSocket(w) ==
  LET v == socket_manager_find_socket(w, NULL)
  IN  [v EXCEPT !.sockets[Found(v, NULL)].state = "SEND_REQUEST", !.client.send = TRUE]
Dials(w, c, r) ==
  [w EXCEPT !.eth[c] = "syn",
            !.server[c] = [NoServer EXCEPT !.size = r.size, !.announced = r.announced]]

RequestRefused ==
  /\ client.eth = NULL
  /\ \/ FALSE \in May("dns_fails")
     \/ Found(World, NULL) = 0 /\ (Len(sockets) = MAX_SOCKET \/ FALSE \in May("no_room"))
  /\ Becomes(RequestStart)

HasRoom == Found(World, NULL) # 0 \/ Len(sockets) < MAX_SOCKET

RequestConnects(c, r) ==
  /\ client.eth = NULL /\ HasRoom /\ eth[c] = "closed"
  /\ LET w == WithSocket(RequestStart)
     IN  Becomes([Dials(w, c, r) EXCEPT !.sockets[Found(w, NULL)].eth = c, !.client.eth = c])

(* The last attempt may have opened a connection all the same: the test of *)
(* `tries' takes it for a failure.                                         *)
Late(w) == IF "connects_late" \in Faults
             THEN {Dials(w, c, r) : c \in {d \in Conns : eth[d] = "closed"}, r \in Responses}
             ELSE {}

RequestFails ==
  /\ client.eth = NULL /\ HasRoom /\ FALSE \in May("connect_fails")
  /\ \E w \in {WithSocket(RequestStart)} \cup Late(WithSocket(RequestStart)),
        o \in Outcomes, d \in BOOLEAN :
       Becomes(GiveUp(w, [o EXCEPT !.disconnects = d]))

http_client_request_file ==
  \/ RequestRefused
  \/ RequestFails
  \/ \E c \in Conns, r \in Responses : RequestConnects(c, r)

(* network_read_packet() polls this one: an empty segment is sent, which   *)
(* the server acknowledges.                                                *)
http_client_request_pending ==
  /\ client.eth # NULL /\ client.send /\ eth[client.eth] = "open"
  /\ client' = [client EXCEPT !.send = FALSE]
  /\ UNCHANGED <<sockets, eth, server, files, swap, reported>>

(* External: the server accepts the connection.                            *)
Established(c) ==
  /\ eth[c] = "syn"
  /\ eth' = [eth EXCEPT ![c] = "open"]
  /\ UNCHANGED <<client, sockets, server, files, swap, reported>>

(* External: the server resets or refuses the connection.                  *)
Reset(c) ==
  /\ eth[c] # "closed"
  /\ eth' = [eth EXCEPT ![c] = "closed"]
  /\ UNCHANGED <<client, sockets, server, files, swap, reported>>

(* A packet: the stack calls the handler with the socket_t it finds or the *)
(* one it makes.                                                           *)
Packet(c, g, head, state) ==
  LET w == socket_manager_find_socket(
             [World EXCEPT !.eth[c] = state, !.server[c].head = head,
                           !.server[c].sent = @ + Len(g.units)], c)
  IN  IF Found(w, c) = 0 THEN Becomes(w)
      ELSE \E o \in TwoOutcomes : Becomes(http_client_handle(w, Found(w, c), g, o))

Units(c, n) == [k \in 1 .. n |-> server[c].sent + k]
Left(c) == server[c].size - server[c].sent

Lines(reads) == [reads |-> reads, skip |-> 0, units |-> <<>>]
Plain(c, n) == [reads |-> "none", skip |-> 0, units |-> Units(c, n)]
End(c, n) == [reads |-> "end", skip |-> 0, units |-> Units(c, n)]

(* Units of body as get_response() reads them when it still looks for the  *)
(* end of the header.                                                      *)
Misread(c, n) ==
  {[Plain(c, n) EXCEPT !.reads = reads] :
     reads \in IF n = 0 THEN {"part"} ELSE {"part", "bad", "long"}}
  \cup {[End(c, n) EXCEPT !.skip = j] : j \in 1 .. n}

Poll(c) == eth[c] = "open" /\ Packet(c, NoData, server[c].head, "open")
Fin(c)  == eth[c] = "open" /\ Packet(c, NoData, server[c].head, "closing")

Header(c) ==
  /\ eth[c] = "open" /\ server[c].asked /\ server[c].head = "unsent"
  /\ \/ \E reads \in {"part", "bad", "long"} : Packet(c, Lines(reads), "unsent", "open")
     \/ \E n \in 0 .. Left(c) : Packet(c, End(c, n), "sent", "open")
     \/ /\ "end_cut" \in Faults
        /\ \E n \in 0 .. Left(c) : \E g \in Misread(c, n) : Packet(c, g, "cut", "open")

Body(c) ==
  /\ eth[c] = "open" /\ server[c].head # "unsent"
  /\ \E n \in 1 .. Left(c) :
       \E g \in IF server[c].head = "cut" THEN Misread(c, n) ELSE {Plain(c, n)} :
         Packet(c, g, server[c].head, "open")

(* The timer interrupt.  The counter is cut where it stops mattering.      *)
alive_time_update ==
  /\ sockets # <<>>
  /\ sockets' = [k \in 1 .. Len(sockets) |->
       [sockets[k] EXCEPT !.alive = IF @ > MAX_ALIVE_TIME THEN @ ELSE @ + 1]]
  /\ UNCHANGED <<client, eth, server, files, swap, reported>>

(* Faulty variant: only closed connections are released.                   *)
ExpiredClosed(w, s) == s.eth # NULL /\ w.eth[s.eth] = "closed"

Expired(w, s) == s.eth # NULL /\ (w.eth[s.eth] = "closed" \/ s.alive > MAX_ALIVE_TIME)

(* task_system_beat(): from the newest socket to the oldest, the closed    *)
(* and idle ones are released.  A socket without a connection is left      *)
(* alone: no port is found behind its null pointer.                        *)
BeatStarts ==
  /\ rest = 0 /\ sockets # <<>>
  /\ rest' = Len(sockets)
  /\ UNCHANGED <<client, sockets, eth, server, files, swap, reported>>

BeatVisits ==
  LET k == Len(sockets) - rest + 1
  IN  /\ rest > 0 /\ rest' = rest - 1
      /\ IF Expired(World, sockets[k])
           THEN \E o \in Outcomes : Becomes(close_client_socket(World, k, o))
           ELSE UNCHANGED <<client, sockets, eth, server, files, swap, reported>>

socket_manager_cleanup == BeatStarts \/ BeatVisits

(* What the main thread does when it is not in the beat.                   *)
MainLoop ==
  \/ http_client_request_file
  \/ http_client_request_pending
  \/ \E c \in Conns : Established(c) \/ Reset(c) \/ Poll(c) \/ Fin(c) \/ Header(c) \/ Body(c)

Next ==
  \/ rest = 0 /\ MainLoop /\ UNCHANGED rest
  \/ alive_time_update /\ UNCHANGED rest
  \/ socket_manager_cleanup

Spec == Init /\ [][Next]_vars

(* The timer ticks and the system beat runs every ten seconds.  Servers    *)
(* and tasks owe nothing.                                                  *)
FairSpec == Spec /\ WF_vars(alive_time_update /\ UNCHANGED rest) /\ WF_vars(socket_manager_cleanup)

-----------------------------------------------------------------------------
States == {"IDLE", "SEND_REQUEST", "GET_RESPONSE", "OPEN_FILE", "GET_DATA",
           "DOWNLOAD_COMPLETE", "DISCONNECT"}

TypeOK ==
  /\ client.eth \in Conns \cup {NULL} /\ client.send \in BOOLEAN
  /\ client.captured \in Nat /\ client.handle \in Handles \cup {-1}
  /\ Len(sockets) <= MAX_SOCKET /\ rest \in 0 .. Len(sockets)
  /\ \A k \in 1 .. Len(sockets) :
       /\ sockets[k].eth \in Conns \cup {NULL} /\ sockets[k].state \in States
       /\ sockets[k].alive \in 0 .. MAX_ALIVE_TIME + 1
  /\ eth \in [Conns -> {"closed", "syn", "open", "closing"}]
  /\ files \in [Handles -> {NULL, "swap", "file"}]

(* While client_request names a connection every other download is refused *)
(* ("Attempted concurrent download").  There is always a socket in the     *)
(* pool whose close will end that: the client never locks itself up.       *)
RequestHasSocket == client.eth # NULL => Found(World, client.eth) # 0

(* http_client.c:344 "To keep filesystem integrity we need to do a good    *)
(* job of making sure we don't leave files open": a file is open only for  *)
(* a socket whose close will close it, unless a FAT32_Close() fails.       *)
FilesClosed ==
  (\E h \in Handles : files[h] # NULL) =>
    \E k \in 1 .. Len(sockets) :
      sockets[k].state \in {"GET_DATA", "DOWNLOAD_COMPLETE", "DISCONNECT"}

(* What is reported is what the server of that download has sent: nothing  *)
(* of an earlier download, nothing twice, no gap, as long as no read or    *)
(* write of the copy fails.  It begins with the first unit of the body,    *)
(* unless the end of the header came in two segments.                      *)
ReportedInOrder ==
  LET data == reported.data
  IN  /\ \A n \in 2 .. Len(data) : data[n] = data[n - 1] + 1
      /\ data # <<>> /\ ~reported.cut => data[1] = 1

(* A download that has seen its end is reported whole, as long as no read  *)
(* or write of the copy fails.                                             *)
CompleteIsWhole ==
  reported.state = "DOWNLOAD_COMPLETE" => Len(reported.data) = reported.size

(* A download is reported at most once, and never while it goes on.        *)
ReportEndsRequest == [][reported' # reported => client.eth # NULL /\ client'.eth = NULL]_vars

(* A download whose server falls silent ends, so that another one may      *)
(* start.                                                                  *)
Silent(c) == \E k \in 1 .. Len(sockets) : sockets[k].eth = c /\ sockets[k].alive > 0
SilentEnds == \A c \in Conns :
  (client.eth = c /\ Silent(c)) ~> (client.eth # c \/ ~Silent(c))

=============================================================================
