----------------------------- MODULE HttpServer -----------------------------
(***************************************************************************)
(* The web server (network/protocols/http_server/http_server.c) with what  *)
(* it keeps in the page catalog (page_manager), in the pool of socket_t's  *)
(* (socket_manager) and in the line parser's per-socket results.           *)
(*                                                                         *)
(* A packet for a connection is one call of http_handle_client(), which    *)
(* runs to completion in the main thread: its states fall through into     *)
(* each other, so the handler is the composition of one operator for each  *)
(* C function, on the record `w' of everything the server keeps.           *)
(*                                                                         *)
(* Lengths are in units small enough to count: one unit of body, one unit  *)
(* for a whole response header or error text, one for request headers.     *)
(* The TCP stack and the FAT32 library are external: each of their calls   *)
(* returns any outcome the callers can see.                                *)
(***************************************************************************)
EXTENDS Integers, Sequences, FiniteSets, FiniteSetsExt, SequencesExt

CONSTANTS
  Conns,             (* slots of the TCP stack's socket table              *)
  MAX_SOCKET,        (* size of the socket_t pool                          *)
  Pages,             (* names in the page catalog                          *)
  Kind,              (* storage_type of each page                          *)
  Size,              (* initial size of each page                          *)
  DynSizes,          (* sizes a dynamic page can take when it is refreshed *)
  Handles,           (* FAT32 file handles                                 *)
  LARGE_BUFFER_SIZE,
  MAX_POST_SIZE,
  MAX_ALIVE_TIME,
  TX,                (* capacity of a connection's transmit buffer         *)
  Traffic,           (* what the peers may send: for each connection a set *)
                     (* of segments                                        *)
  Faults,            (* which external failures happen                     *)
  NULL

Methods == {"GET", "POST", "PUT", "NONE", "BAD"}
Options == {"UNKNOWN", "KEEP_ALIVE", "CLOSE"}

(* One TCP segment: a request line ("NONE": no such line, "BAD": a line    *)
(* the parser refuses), a Connection: line, a Content-Length: line, whether*)
(* the empty line follows the last header in it, and units of body.        *)
IsSegment(g) ==
  /\ g.method \in Methods /\ g.conn \in Options /\ g.end \in BOOLEAN
  /\ g.clen \in Nat /\ g.data \in Nat

ASSUME HttpAssumption ==
  /\ MAX_SOCKET \in Nat \ {0} /\ LARGE_BUFFER_SIZE \in Nat \ {0}
  /\ TX \in Nat \ {0} /\ MAX_ALIVE_TIME \in Nat /\ MAX_POST_SIZE \in Nat
  /\ Kind \in [Pages -> {"static", "dynamic", "flash"}]
  /\ Size \in [Pages -> Nat \ {0}] /\ DynSizes \subseteq Nat \ {0}
  /\ Handles \subseteq Nat /\ IsFiniteSet(Handles) /\ IsFiniteSet(Conns)
  /\ NULL \notin Pages \cup Conns
  /\ \A q \in Traffic : \A c \in Conns : \A g \in q[c] : IsSegment(g)
  /\ Faults \subseteq {"open_fails", "disconnect_fails", "slot_reused"}

VARIABLES
  sock,    (* socket_t of each connection, or NoSocket                     *)
  page,    (* the mutable part of each page_t                              *)
  file,    (* open files of the FAT32 library                              *)
  eth,     (* state of each TCP connection: 3 is "open", 0 is "closed"     *)
  tx,      (* units in each transmit buffer, not acknowledged yet          *)
  post,    (* post_response[]: whose unit each one is; its length is       *)
           (* post_capture                                                 *)
  posted,  (* history: the last call of the POST callback                  *)
  sent,    (* history: body units written since the last header            *)
  hdr,     (* history: Content-Length of the last header                   *)
  rest,    (* connections whose sockets the system beat has still to visit *)
  peers    (* what each peer may send in this behaviour                    *)

worldVars == <<sock, page, file, eth, tx, post, posted, sent, hdr>>
vars == <<worldVars, rest, peers>>

NoSocket == [state |-> "none"]
NoData == [method |-> "NONE", target |-> NULL, conn |-> "UNKNOWN", clen |-> 0,
           end |-> FALSE, data |-> 0]
NotPosted == [conn |-> NULL, want |-> 0, data |-> <<>>]
Junk == "junk"         \* what getBytes() returns beyond the end of a segment

World == [sock |-> sock, page |-> page, file |-> file, eth |-> eth, tx |-> tx,
          post |-> post, posted |-> posted, sent |-> sent, hdr |-> hdr]
Becomes(w) ==
  /\ sock' = w.sock /\ page' = w.page /\ file' = w.file /\ eth' = w.eth
  /\ tx' = w.tx /\ post' = w.post /\ posted' = w.posted
  /\ sent' = w.sent /\ hdr' = w.hdr

MinOf(a, b) == IF a < b THEN a ELSE b
Copies(x, n) == [k \in 1 .. n |-> x]
Bytes(g) == g.data + (IF g.method = "NONE" /\ ~g.end THEN 0 ELSE 1)

(* The history of a body is cut one unit after it has gone wrong.          *)
Record(w, c, units) ==
  LET all == w.sent[c] \o units
  IN  SubSeq(all, 1, MinOf(Len(all), w.hdr[c] + 1))

-----------------------------------------------------------------------------
(* External: the FAT32 library.                                            *)

FreeHandles(w) == {h \in Handles : w.file[h].page = NULL}
OpenFor(w, p) == {h \in Handles : w.file[h].page = p}

CloseFile(files, h) ==
  [k \in Handles |-> IF k = h THEN [page |-> NULL, off |-> 0] ELSE files[k]]

(* One FAT32_Read of a whole buffer: where it starts, and where the next   *)
(* one will; at the end of the file the buffer keeps what it held.         *)
ReadBuffer(r) ==
  IF r.off >= r.size THEN r
  ELSE [r EXCEPT !.base = r.off, !.off = MinOf(r.off + LARGE_BUFFER_SIZE, r.size)]

-----------------------------------------------------------------------------
(* socket_manager, by its contract: a zeroed socket_t for a new connection.*)

InUse(w) == {c \in Conns : w.sock[c] # NoSocket}

NewSocket ==
  [state |-> "IDLE", req |-> "UNKNOWN", conn |-> "UNKNOWN", resp |-> "UNKNOWN",
   target |-> NULL, name |-> NULL, clen |-> 0, page |-> NULL, base |-> 0, alive |-> 0]

socket_manager_find_socket(w, c) ==
  IF w.sock[c] = NoSocket /\ Cardinality(InUse(w)) < MAX_SOCKET
    THEN [w EXCEPT !.sock[c] = NewSocket]
    ELSE w

-----------------------------------------------------------------------------
(* Faulty variant: the file of an interrupted transfer stays open.         *)
CloseFlashKeepingFile(w, p) == [w EXCEPT !.page[p].fpos = LARGE_BUFFER_SIZE - 1]

(* What a page keeps of a transfer is put back when its socket closes.     *)
CloseFlash(w, p) ==
  LET rewound == [w EXCEPT !.page[p].fpos = LARGE_BUFFER_SIZE - 1]
  IN  IF OpenFor(w, p) = {} THEN rewound
      ELSE LET h == Min(OpenFor(w, p))
           IN  [rewound EXCEPT !.page[p].handle = h, !.file = CloseFile(@, h)]

close_server_socket(w, c, disconnects) ==
  LET p == w.sock[c].page
      gone == [w EXCEPT !.sock[c] = NoSocket, !.eth[c] = "closed", !.tx[c] = 0]
  IN  CASE ~disconnects -> w
        [] disconnects /\ p = NULL -> gone
        [] disconnects /\ p # NULL /\ Kind[p] = "flash" -> CloseFlash(gone, p)
        [] OTHER -> [gone EXCEPT !.page[p].cur = 0]

(* The parser's findings in a segment's header lines, kept in the socket.  *)
lineparse_client_request(s, g) ==
  LET unknown == s.req = "UNKNOWN"
  IN  [s EXCEPT !.req = IF unknown THEN g.method ELSE @,
                !.target = IF unknown THEN g.target ELSE @,
                !.conn = IF g.conn = "UNKNOWN" THEN @ ELSE g.conn,
                !.clen = IF g.clen = 0 THEN @ ELSE g.clen]

Refuses(s, g) == g.method = "BAD" \/ (s.req = "UNKNOWN" /\ g.method = "NONE")

(* The file name in the saved request line; without one it is not touched. *)
lineparse_process_client(s) == IF s.target = NULL THEN s.name ELSE s.target

page_manager_find_page(name) == IF name \in Pages THEN name ELSE NULL

header_generate(w, p) == IF p = NULL THEN 0 ELSE w.page[p].len

(* Step 1.  A request is complete when the segment that holds its last     *)
(* header line holds the empty line too.                                   *)
get_client_request(w, c, g, o) ==
  LET s == w.sock[c]
      parsed == lineparse_client_request(s, g)
      Goto(state) == [w EXCEPT !.sock[c] = [parsed EXCEPT !.state = state]]
  IN  CASE w.eth[c] # "open" \/ Bytes(g) = 0 ->
             close_server_socket(w, c, o.disconnects)
        [] w.eth[c] = "open" /\ Bytes(g) > 0 /\ Refuses(s, g) ->
             [w EXCEPT !.sock[c].state = "DISCONNECT"]
        [] OTHER ->
             CASE ~g.end \/ parsed.req = "PUT" -> Goto("GET_REQUEST")
               [] g.end /\ parsed.req = "GET" -> Goto("PROCESS_REQUEST")
               [] g.end /\ parsed.req = "POST" /\ parsed.clen > MAX_POST_SIZE ->
                    Goto("DISCONNECT")
               [] OTHER ->
                    [Goto("PROCESS_REQUEST") EXCEPT
                       !.post = Copies(c, g.data),
                       !.sock[c].name = lineparse_process_client(parsed)]

(* Faulty variant: the last byte of a POST is not waited for.              *)
CapturedTooEarly(data, clen) == Len(data) + 1 >= clen

Captured(data, clen) == Len(data) >= clen

(* Step 2a.  A POST that is complete in its first segment reads that       *)
(* segment's bytes a second time (first = TRUE).                           *)
process_request(w, c, g, first) ==
  LET s == w.sock[c]
      more == Copies(IF first THEN Junk ELSE c, Bytes(g))
      captured == w.post \o more
  IN  CASE s.req = "GET" /\ s.target = NULL -> [w EXCEPT !.sock[c].state = "DISCONNECT"]
        [] s.req = "GET" /\ s.target # NULL ->
             [w EXCEPT !.sock[c].state = "FIND_FILE", !.sock[c].name = lineparse_process_client(s)]
        [] s.req = "POST" /\ ~Captured(captured, s.clen) -> [w EXCEPT !.post = captured]
        [] OTHER ->
             [w EXCEPT !.post = captured,
                       !.posted = [conn |-> c, want |-> s.clen, data |-> captured],
                       !.sock[c].state = "FIND_FILE"]

(* Faulty variant: the position is left where the last transfer was.       *)
RefreshInPlace(w, p, size) == [w EXCEPT !.page[p].len = size]

(* A dynamic page has a new size after page_update(), and is read again    *)
(* from its start.                                                         *)
Refresh(w, p, size) == [w EXCEPT !.page[p].cur = 0, !.page[p].len = size]

(* Step 4.  The transfer's position is kept in the page, not in the socket.*)
find_requested_file(w, c, o) ==
  LET p == page_manager_find_page(w.sock[c].name)
      Found(v, q, r) == [v EXCEPT !.sock[c].page = q, !.sock[c].resp = r,
                                  !.sock[c].state = "SERVE_HEADERS"]
  IN  CASE p = NULL -> Found(w, NULL, "404")
        [] p # NULL /\ Kind[p] = "static" ->
             Found([w EXCEPT !.page[p].cur = 0], p, "200")
        [] p # NULL /\ Kind[p] = "dynamic" ->
             Found(Refresh(w, p, o.size), p, "200")
        [] OTHER ->
             IF ~o.opens \/ FreeHandles(w) = {}
               THEN Found([w EXCEPT !.page[p].handle = -1], NULL, "200")
               ELSE LET h == Min(FreeHandles(w))
                        r == ReadBuffer([size |-> w.page[p].len, off |-> 0,
                                         base |-> w.sock[c].base])
                    IN  Found([w EXCEPT !.file[h] = [page |-> p, off |-> r.off],
                                        !.sock[c].base = r.base,
                                        !.page[p].handle = h, !.page[p].bpos = 0], p, "200")

(* Step 3.  header_generate() and one putStringTCP().                      *)
serve_header(w, c) ==
  LET p == w.sock[c].page
  IN  [w EXCEPT !.tx[c] = MinOf(@ + 1, TX),
                !.sock[c].state = "SERVE_BODY",
                !.sent[c] = <<>>,
                !.hdr[c] = header_generate(w, p)]

(* uint16_t remaining_bytes = end_ptr - current_ptr.                       *)
remaining_bytes(w, p) == (w.page[p].len - w.page[p].cur) % 65536

(* Faulty variants: the room already taken in the buffer is forgotten, the *)
(* byte that did not fit is skipped, the end of the page is missed.        *)
FitsEmptyBuffer(w, c, p) == MinOf(remaining_bytes(w, p), TX)
SkippingPosition(w, c, p) ==
  LET n == MinOf(remaining_bytes(w, p), TX - w.tx[c])
  IN  IF w.page[p].cur + n = w.page[p].len THEN 0 ELSE w.page[p].cur + n + 1
NeverServed(w, c, p) == FALSE

(* Step 5, a page in memory: as many units as the transmit buffer takes.   *)
Fits(w, c, p) == MinOf(remaining_bytes(w, p), TX - w.tx[c])

Served(w, c, p) == w.page[p].cur + Fits(w, c, p) = w.page[p].len

NextPosition(w, c, p) == IF Served(w, c, p) THEN 0 ELSE w.page[p].cur + Fits(w, c, p)

serve_memory(w, c, p) ==
  LET n == Fits(w, c, p)
  IN  [w EXCEPT !.page[p].cur = NextPosition(w, c, p),
                !.tx[c] = @ + n,
                !.sent[c] = Record(w, c, [k \in 1 .. n |-> w.page[p].cur + k]),
                !.sock[c].state = IF Served(w, c, p) THEN "WAIT_TILL_DONE" ELSE @]

(* Step 5, a file: one byte at a time from the socket's buffer, which is   *)
(* filled again behind its last byte.                                      *)
PutByte(r) ==
  LET unit == IF r.base + r.bpos < r.size THEN r.base + r.bpos + 1 ELSE 0
      put == [r EXCEPT !.out = Append(@, unit)]
      moved == IF r.bpos = LARGE_BUFFER_SIZE - 1
                 THEN [ReadBuffer(put) EXCEPT !.bpos = 0]
                 ELSE [put EXCEPT !.bpos = @ + 1, !.fpos = @ + 1]
  IN  IF moved.fpos >= moved.size THEN [moved EXCEPT !.fpos = 0, !.done = TRUE]
      ELSE moved

Put(r) == IF r.done THEN r ELSE PutByte(r)

(* The loop as a function of the room in the transmit buffer.              *)
PutBytes(r) ==
  LET after[n \in 0 .. TX] == IF n = 0 THEN r ELSE Put(after[n - 1])
  IN  after

serve_flash(w, c, p) ==
  LET h == w.page[p].handle
      readable == h \in Handles /\ w.file[h].page = p
      start == [bpos |-> w.page[p].bpos, fpos |-> w.page[p].fpos, size |-> w.page[p].len,
                off |-> IF readable THEN w.file[h].off ELSE w.page[p].len,
                base |-> w.sock[c].base, out |-> <<>>, done |-> FALSE]
      end == PutBytes(start)[TX - w.tx[c]]
  IN  [w EXCEPT !.page[p].bpos = end.bpos, !.page[p].fpos = end.fpos,
                !.tx[c] = @ + Len(end.out),
                !.sent[c] = Record(w, c, end.out),
                !.sock[c].base = end.base,
                !.file = IF end.done THEN CloseFile(@, h)
                         ELSE IF readable THEN [@ EXCEPT ![h].off = end.off] ELSE @,
                !.sock[c].state = IF end.done THEN "WAIT_TILL_DONE" ELSE @]

serve_body(w, c) ==
  LET p == w.sock[c].page
  IN  CASE p = NULL \/ w.eth[c] # "open" ->
             [w EXCEPT !.tx[c] = MinOf(@ + 1, TX), !.sock[c].state = "WAIT_TILL_DONE"]
        [] p # NULL /\ w.eth[c] = "open" /\ Kind[p] = "flash" -> serve_flash(w, c, p)
        [] OTHER -> serve_memory(w, c, p)

-----------------------------------------------------------------------------
(* http_handle_client(): each case falls through into the next one.        *)

Finish(w, c, g, o) ==
  LET s == w.sock[c]
  IN  CASE w.tx[c] # 0 \/ s.conn = "UNKNOWN" -> w
        [] w.tx[c] = 0 /\ s.conn = "KEEP_ALIVE" /\ (Bytes(g) # 0 \/ w.eth[c] # "open") ->
             [w EXCEPT !.sock[c].state = "GET_REQUEST", !.sock[c].page = NULL,
                       !.sock[c].target = NULL]
        [] OTHER -> close_server_socket([w EXCEPT !.sock[c].state = "DISCONNECT"], c, o.disconnects)

Serve(w, c, g, o) ==
  LET v == serve_body(w, c)
  IN  IF v.sock[c].state = "WAIT_TILL_DONE" THEN Finish(v, c, g, o) ELSE v

Process(w, c, g, o, first) ==
  LET v == process_request(w, c, g, first)
  IN  CASE v.sock[c].state = "FIND_FILE" ->
             Serve(serve_header(find_requested_file(v, c, o), c), c, g, o)
        [] v.sock[c].state = "DISCONNECT" -> close_server_socket(v, c, o.disconnects)
        [] OTHER -> v

Request(w, c, g, o) ==
  LET v == get_client_request([w EXCEPT !.sock[c].state = "GET_REQUEST"], c, g, o)
      s == v.sock[c]
  IN  CASE s.state = "DISCONNECT" -> close_server_socket(v, c, o.disconnects)
        [] s.state = "PROCESS_REQUEST" /\ (s.req = "GET" \/ Captured(v.post, s.clen)) ->
             Process(v, c, g, o, TRUE)
        [] OTHER -> v

http_handle_client(w, c, g, o) ==
  LET v == [w EXCEPT !.sock[c].alive = 0]
      state == v.sock[c].state
  IN  CASE state \in {"IDLE", "GET_REQUEST"} -> Request(v, c, g, o)
        [] state = "PROCESS_REQUEST" -> Process(v, c, g, o, FALSE)
        [] state = "SERVE_BODY" -> Serve(v, c, g, o)
        [] state = "WAIT_TILL_DONE" -> Finish(v, c, g, o)
        [] state = "DISCONNECT" -> close_server_socket(v, c, o.disconnects)

-----------------------------------------------------------------------------
NewPage(p) == [cur |-> 0, len |-> Size[p], bpos |-> 0, fpos |-> 0, handle |-> -1]
NoFile == [page |-> NULL, off |-> 0]

Init ==
  /\ sock = [c \in Conns |-> NoSocket]
  /\ page = [p \in Pages |-> NewPage(p)]
  /\ file = [h \in Handles |-> NoFile]
  /\ eth = [c \in Conns |-> "closed"]
  /\ tx = [c \in Conns |-> 0]
  /\ post = <<>>
  /\ posted = NotPosted
  /\ sent = [c \in Conns |-> <<>>]
  /\ hdr = [c \in Conns |-> 0]
  /\ rest = {}
  /\ peers \in Traffic

May(fault) == IF fault \in Faults THEN BOOLEAN ELSE {TRUE}
Outcomes == [disconnects : May("disconnect_fails"), opens : May("open_fails"), size : DynSizes]

(* External: a peer connects.  The slot may be one whose last connection   *)
(* was reset and whose socket_t no cleanup has released yet.               *)
Connect(c) ==
  /\ eth[c] = "closed"
  /\ sock[c] = NoSocket \/ "slot_reused" \in Faults
  /\ eth' = [eth EXCEPT ![c] = "open"]
  /\ sent' = [sent EXCEPT ![c] = <<>>]
  /\ hdr' = [hdr EXCEPT ![c] = 0]
  /\ UNCHANGED <<sock, page, file, tx, post, posted>>

(* External: a peer resets its connection.                                 *)
Reset(c) ==
  /\ eth[c] # "closed"
  /\ eth' = [eth EXCEPT ![c] = "closed"]
  /\ tx' = [tx EXCEPT ![c] = 0]
  /\ UNCHANGED <<sock, page, file, post, posted, sent, hdr>>

(* A packet of connection c: it may carry data, acknowledge what was sent, *)
(* or start closing; then the stack calls the handler.                     *)
Packet(c, g, acks, state) ==
  LET w == socket_manager_find_socket(
             [World EXCEPT !.eth[c] = state, !.tx[c] = IF acks THEN 0 ELSE @], c)
  IN  IF w.sock[c] = NoSocket THEN Becomes(w)
      ELSE \E o \in Outcomes : Becomes(http_handle_client(w, c, g, o))

Data(c) == eth[c] = "open" /\ \E g \in peers[c], acks \in BOOLEAN : Packet(c, g, acks, "open")
Ack(c)  == eth[c] # "closed" /\ tx[c] > 0 /\ Packet(c, NoData, TRUE, eth[c])
Fin(c)  == eth[c] = "open" /\ \E acks \in BOOLEAN : Packet(c, NoData, acks, "closing")

(* The timer interrupt: socket_manager_alive_time_update().  The counter   *)
(* is cut where it stops making a difference.                              *)
alive_time_update ==
  /\ InUse(World) # {}
  /\ sock' = [c \in Conns |->
                IF sock[c] = NoSocket THEN NoSocket
                ELSE [sock[c] EXCEPT !.alive = MinOf(@ + 1, MAX_ALIVE_TIME + 1)]]
  /\ UNCHANGED <<page, file, eth, tx, post, posted, sent, hdr>>

(* task_system_beat(): every socket that is closed or idle is released.    *)
(* The timer may tick between two of its visits.                           *)
(* Faulty variant: only closed connections are released.                   *)
ExpiredClosed == {c \in InUse(World) : eth[c] = "closed"}
Expired == {c \in InUse(World) : eth[c] = "closed" \/ sock[c].alive > MAX_ALIVE_TIME}

BeatStarts ==
  /\ rest = {} /\ InUse(World) # {}
  /\ rest' = InUse(World)
  /\ UNCHANGED worldVars

BeatVisits == \E c \in rest :
  /\ rest' = rest \ {c}
  /\ IF c \in Expired
       THEN \E ok \in May("disconnect_fails") : Becomes(close_server_socket(World, c, ok))
       ELSE UNCHANGED worldVars

socket_manager_cleanup == BeatStarts \/ BeatVisits

(* The stack is polled by the main loop, when it is not in the beat.       *)
MainLoop == \E c \in Conns : Connect(c) \/ Reset(c) \/ Data(c) \/ Ack(c) \/ Fin(c)

Next ==
  \/ rest = {} /\ MainLoop /\ UNCHANGED <<rest, peers>>
  \/ alive_time_update /\ UNCHANGED <<rest, peers>>
  \/ socket_manager_cleanup /\ UNCHANGED peers

Spec == Init /\ [][Next]_vars

(* The timer ticks, the system beat runs every second, and a peer's stack  *)
(* acknowledges what it received: between two beats the main loop polls    *)
(* the network again and again.  Peers owe nothing else.                   *)
FairSpec ==
  /\ Spec
  /\ WF_vars(alive_time_update /\ UNCHANGED <<rest, peers>>)
  /\ WF_vars(socket_manager_cleanup /\ UNCHANGED peers)
  /\ \A c \in Conns : SF_vars(rest = {} /\ Ack(c) /\ UNCHANGED <<rest, peers>>)

-----------------------------------------------------------------------------
TypeOK ==
  /\ \A c \in InUse(World) :
       /\ DOMAIN sock[c] = DOMAIN NewSocket
       /\ sock[c].state \in {"GET_REQUEST", "PROCESS_REQUEST", "SERVE_BODY",
                            "WAIT_TILL_DONE", "DISCONNECT"}
       /\ sock[c].req \in {"UNKNOWN", "GET", "POST", "PUT"} /\ sock[c].conn \in Options
       /\ sock[c].resp \in {"UNKNOWN", "200", "404"}
       /\ sock[c].page \in Pages \cup {NULL}
       /\ sock[c].alive \in 0 .. MAX_ALIVE_TIME + 1
  /\ Cardinality(InUse(World)) <= MAX_SOCKET
  /\ \A p \in Pages : page[p].handle \in Handles \cup {-1}
  /\ \A h \in Handles : file[h].page \in Pages \cup {NULL}
  /\ eth \in [Conns -> {"open", "closing", "closed"}]
  /\ tx \in [Conns -> 0 .. TX]
  /\ Range(post) \subseteq Conns \cup {Junk}
  /\ rest \subseteq InUse(World) /\ peers \in Traffic

(* A response whose body was written to the end, on a connection that is   *)
(* still open.                                                             *)
Complete(c) ==
  /\ c \in InUse(World) /\ eth[c] = "open"
  /\ sock[c].state = "WAIT_TILL_DONE" /\ sock[c].page # NULL

WholeBody(c) == sent[c] = [k \in 1 .. hdr[c] |-> k]

(* A page in memory is delivered whole and in order, as long as its header *)
(* announced, whatever the sizes of the pieces the transmit buffer took.   *)
BodyIntact == \A c \in Conns :
  Complete(c) /\ Kind[sock[c].page] # "flash" => WholeBody(c)

(* Two clients of one page disturb each other, so it is clients of pages of*)
(* their own to whom the server owes their bodies.                         *)
OwnPages(q) == \A c, d \in Conns : c # d =>
  \A g \in q[c], k \in q[d] : g.target \in Pages => k.target # g.target
OwnBodyIntact == OwnPages(peers) => BodyIntact

(* The same for a file on the card.                                        *)
FlashBodyIntact == \A c \in Conns :
  Complete(c) /\ Kind[sock[c].page] = "flash" => WholeBody(c)

(* The position shared by the transfers of a page never passes its end,    *)
(* even when a refresh makes the page shorter in the middle of a transfer: *)
(* end_ptr - current_ptr is unsigned and would wrap.                       *)
PositionInPage == \A p \in Pages : Kind[p] # "flash" => page[p].cur < page[p].len

(* Every open file belongs to a page some socket is serving: handles are   *)
(* few, and one that is lost is lost until the next restart.               *)
FilesClosed == \A h \in Handles :
  file[h].page # NULL => \E c \in InUse(World) : sock[c].page = file[h].page

(* The POST callback gets the body its own client sent, whole, although    *)
(* post_response[] and post_capture are shared by all sockets: as long as  *)
(* one client posts, whatever the others do.                               *)
Posts(q, c) == \E g \in q[c] : g.method = "POST"
OnePoster(q) == \A c, d \in Conns : Posts(q, c) /\ Posts(q, d) => c = d
PostIntact ==
  OnePoster(peers) /\ posted # NotPosted =>
    Len(posted.data) >= posted.want /\
    SubSeq(posted.data, 1, posted.want) = Copies(posted.conn, posted.want)

(* A persistent connection (socket_manager.h:174) whose response was       *)
(* acknowledged serves the next complete GET request.  http_server.c:565   *)
(* takes its packet in SM_HTTP_WAIT_TILL_DONE for a sign to go on, and     *)
(* does not read it.                                                       *)
PersistentServes ==
  [][\A c \in InUse(World) :
       /\ sock[c].state = "WAIT_TILL_DONE" /\ sock[c].conn = "KEEP_ALIVE" /\ eth[c] = "open"
       /\ \E g \in peers[c] : g.method = "GET" /\ g.end /\ Packet(c, g, TRUE, "open")
       => sock'[c].state \in {"SERVE_BODY", "WAIT_TILL_DONE"}]_vars

(* A socket that hears nothing from its peer is released, closed or not.   *)
IdleReleased == \A c \in Conns :
  (sock[c] # NoSocket /\ sock[c].alive > 0) ~> (sock[c] = NoSocket \/ sock[c].alive = 0)

(* A body that is being served reaches its end, or its connection does.    *)
BodyEnds == \A c \in Conns :
  (sock[c].state = "SERVE_BODY") ~> (sock[c].state # "SERVE_BODY")

=============================================================================
