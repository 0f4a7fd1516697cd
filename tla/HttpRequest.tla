----------------------------- MODULE HttpRequest -----------------------------
(***************************************************************************)
(* How a request is read: get_client_request() of the web server and the   *)
(* part of lineparse_client_request() that tells lines apart.  A client's  *)
(* request is a stream of pieces; the network cuts it into segments where  *)
(* it likes, and every segment is one call of the reader.                  *)
(*                                                                         *)
(* A piece is a run of characters that make no line end, or one '\n'.  A   *)
(* '\r' has no effect and is left out.                                     *)
(***************************************************************************)
EXTENDS Integers, Sequences

CONSTANTS
  Pieces,             (* runs of characters a client may send              *)
  Chars,              (* how many characters each of them has              *)
  MaxPieces,          (* bound: pieces and line ends in one request        *)
  LARGE_BUFFER_SIZE   (* capacity of the line buffer                       *)

(* What a line that starts with the piece means to the parser: a request   *)
(* line, a header it refuses, or a header it takes or ignores.             *)
CONSTANTS RequestLines, Refused

NL == "\n"

ASSUME RequestAssumption ==
  /\ NL \notin Pieces
  /\ Chars \in [Pieces -> Nat \ {0}]
  /\ MaxPieces \in Nat
  /\ LARGE_BUFFER_SIZE \in Nat \ {0}
  /\ RequestLines \subseteq Pieces
  /\ Refused \subseteq Pieces \ RequestLines

VARIABLES
  stream,   (* the client's whole request                                  *)
  read,     (* how much of it has been delivered                           *)
  socket    (* what the reader keeps in the socket_t between calls         *)

requestVars == <<stream, read, socket>>

(* The first piece of the line being read stands for its text.             *)
NoLine == "none"
Fresh == [state |-> "GET_REQUEST", request_type |-> "UNKNOWN",
          buffer_position |-> 0, line |-> NoLine]

-----------------------------------------------------------------------------
(* Faulty variant: headers are not judged.                                 *)
AcceptsAnyHeader(s) == s.request_type # "UNKNOWN" \/ s.line \in RequestLines

(* lineparse_client_request(): the first line must be a request line, and  *)
(* no later line may be one the parser refuses.                            *)
Accepts(s) ==
  IF s.request_type = "UNKNOWN" THEN s.line \in RequestLines ELSE s.line \notin Refused

MinOf(a, b) == IF a < b THEN a ELSE b

(* Faulty variant: a run is appended whether or not the buffer holds it.   *)
TextUnbounded(r, piece) ==
  [r EXCEPT !.termination = 0,
            !.s.buffer_position = @ + Chars[piece],
            !.s.line = IF r.s.buffer_position = 0 THEN piece ELSE @]

(* A run of characters: the loop stops when the buffer is full.            *)
TextRun(r, piece) ==
  [r EXCEPT !.termination = 0,
            !.s.buffer_position = MinOf(@ + Chars[piece], LARGE_BUFFER_SIZE),
            !.s.line = IF r.s.buffer_position = 0 THEN piece ELSE @]

(* A line end: lines of ten characters or less are not parsed; the second  *)
(* line end in a row ends the request.                                     *)
LineEnd(r) ==
  LET parsed == r.s.buffer_position > 10
      s == IF parsed /\ r.s.request_type = "UNKNOWN"
             THEN [r.s EXCEPT !.request_type = "GET"] ELSE r.s
      t == r.termination + 1
  IN  CASE parsed /\ ~Accepts(r.s) -> [r EXCEPT !.s.state = "DISCONNECT"]
        [] (parsed => Accepts(r.s)) /\ t = 2 ->
             [r EXCEPT !.s = [s EXCEPT !.state = IF s.request_type = "GET" THEN "PROCESS_REQUEST"
                                                 ELSE "DISCONNECT"]]
        [] OTHER -> [r EXCEPT !.s = [s EXCEPT !.buffer_position = 0, !.line = NoLine],
                              !.termination = t]

(* Faulty variant: the reader goes on when the buffer is just full.        *)
GoingOnFull(r) == r.s.state = "GET_REQUEST" /\ r.s.buffer_position <= LARGE_BUFFER_SIZE
Going(r) == r.s.state = "GET_REQUEST" /\ r.s.buffer_position < LARGE_BUFFER_SIZE

NextPiece(r, piece) ==
  IF ~Going(r) THEN r ELSE IF piece = NL THEN LineEnd(r) ELSE TextRun(r, piece)

(* One call: the reader after each piece of the segment; `termination' is  *)
(* a local variable and starts at zero.                                    *)
Reading(s, segment) ==
  LET r[k \in 0 .. Len(segment)] ==
        IF k = 0 THEN [s |-> s, termination |-> 0] ELSE NextPiece(r[k - 1], segment[k])
  IN  r

get_client_request(s, segment) ==
  LET end == Reading(s, segment)[Len(segment)].s
  IN  IF end.state = "GET_REQUEST" /\ end.buffer_position = LARGE_BUFFER_SIZE
        THEN [end EXCEPT !.state = "DISCONNECT"]
        ELSE end

-----------------------------------------------------------------------------
Streams == UNION {[1 .. n -> Pieces \cup {NL}] : n \in 1 .. MaxPieces}

RequestInit ==
  /\ stream \in Streams
  /\ read = 0
  /\ socket = Fresh

Segment(n) ==
  /\ socket.state = "GET_REQUEST"
  /\ read + n <= Len(stream)
  /\ socket' = get_client_request(socket, SubSeq(stream, read + 1, read + n))
  /\ read' = read + n
  /\ UNCHANGED stream

RequestNext == \E n \in 1 .. MaxPieces : Segment(n)

RequestSpec == RequestInit /\ [][RequestNext]_requestVars

-----------------------------------------------------------------------------
RequestTypeOK ==
  /\ stream \in Seq(Pieces \cup {NL})
  /\ read \in 0 .. Len(stream)
  /\ socket \in [state : {"GET_REQUEST", "PROCESS_REQUEST", "DISCONNECT"},
                 request_type : {"UNKNOWN", "GET"},
                 buffer_position : 0 .. LARGE_BUFFER_SIZE, line : Pieces \cup {NoLine}]

(* The stream as a list of lines, however it was cut into segments: the    *)
(* line that a line end at k would end is what stands before k, from the   *)
(* line end before that on.                                                *)
LineStart(w, k) ==
  CHOOSE j \in 1 .. k : /\ j = 1 \/ w[j - 1] = NL
                        /\ \A i \in j .. k - 1 : w[i] # NL

(* Characters of the first n pieces.                                       *)
CharsUpTo(w) ==
  LET f[n \in 0 .. Len(w)] ==
        IF n = 0 THEN 0 ELSE f[n - 1] + IF w[n] = NL THEN 0 ELSE Chars[w[n]]
  IN  f
LineLength(w, k) == CharsUpTo(w)[k - 1] - CharsUpTo(w)[LineStart(w, k) - 1]

LinesBefore(w, n) == {k \in 1 .. n : w[k] = NL}
Parsed(w, n) == {k \in LinesBefore(w, n) : LineLength(w, k) > 10}

(* A well formed request: every line fits the buffer, the first that is    *)
(* parsed is a request line and no other one is refused.                   *)
GoodLines(w, n) ==
  /\ \A k \in LinesBefore(w, n) : LineLength(w, k) < LARGE_BUFFER_SIZE
  /\ \A k \in Parsed(w, n) :
       IF \E j \in Parsed(w, n) : j < k THEN w[LineStart(w, k)] \notin Refused
                                        ELSE w[LineStart(w, k)] \in RequestLines

(* However the stream is cut into segments, only a well formed request     *)
(* that was read to an empty line is served: no line is lost, joined with  *)
(* the next one or judged by a part of it.                                 *)
ServesOnlyRequests ==
  socket.state = "PROCESS_REQUEST" =>
    \E n \in 2 .. read : /\ stream[n] = NL /\ stream[n - 1] = NL
                         /\ Parsed(stream, n) # {} /\ GoodLines(stream, n)

(* A socket still reading has not read past a line it should refuse: one   *)
(* that is too long or bad cannot slip through in two parts.               *)
RefusedInTime ==
  socket.state = "GET_REQUEST" => GoodLines(stream, read)

(* http_server.c:85 "If termination happens ( \n\n )", socket_manager.h    *)
(* "Gets the full request from client": a request read to its empty line   *)
(* is processed.                                                           *)
ProcessesFullRequest ==
  /\ read = Len(stream)
  /\ get_client_request(Fresh, stream).state = "PROCESS_REQUEST"
  => socket.state = "PROCESS_REQUEST"

=============================================================================
