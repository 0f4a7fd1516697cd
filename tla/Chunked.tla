------------------------------- MODULE Chunked -------------------------------
(***************************************************************************)
(* A download whose server answers in chunks: the part of get_response(),  *)
(* open_file() and get_data() in network/protocols/http_client that        *)
(* HttpClient leaves out.  The network cuts the answer into segments where *)
(* it likes; the card and the connection do not fail here (they do in      *)
(* HttpClient).                                                            *)
(***************************************************************************)
EXTENDS ChunkSize

CONSTANTS
  Chunks,    (* sizes of the chunks of the body, each of one digit         *)
  CUT,       (* TRUE: segments end anywhere; FALSE: each ends where the    *)
             (* header or a chunk does, as servers write them              *)
  WRAP       (* unsigned integers are modulo this                          *)

ASSUME ChunkedAssumption ==
  Chunks \in Seq(1 .. 15) /\ CUT \in BOOLEAN /\ WRAP \in Nat \ {0}

(* HEAD stands for the header and the line end behind it, JUNK for what    *)
(* the controller's memory holds behind a packet.                          *)
HEAD == 18
JUNK == 19
DATA == 20

VARIABLES
  sent,               (* how much of the answer has arrived                *)
  state,              (* socket_state                                      *)
  chunked_position,   (* client_request.chunked_position: bytes of the     *)
                      (* current chunk that are still to come              *)
  captured            (* the swap file                                     *)

chunkedVars == <<sent, state, chunked_position, captured>>

(* Byte k of the body; the bytes in the first chunks; the text of a chunk, *)
(* and the answer up to its end.                                           *)
BodyByte(k) == DATA + k

BytesUpTo ==
  LET f[k \in 0 .. Len(Chunks)] == IF k = 0 THEN 0 ELSE f[k - 1] + Chunks[k] IN f

ChunkBody(from, n) == [k \in 1 .. n |-> BodyByte(from + k)]
Body == ChunkBody(0, BytesUpTo[Len(Chunks)])

ChunkText(k) ==
  <<Chunks[k], CR, LF>> \o ChunkBody(BytesUpTo[k - 1], Chunks[k]) \o <<CR, LF>>

AnswerUpTo ==
  LET f[k \in 0 .. Len(Chunks)] == IF k = 0 THEN <<HEAD>> ELSE f[k - 1] \o ChunkText(k) IN f

HttpAnswer == AnswerUpTo[Len(Chunks)] \o <<0, CR, LF, CR, LF>>

Ends ==
  {n \in 1 .. Len(HttpAnswer) :
     CUT \/ n = Len(HttpAnswer) \/ \E k \in 0 .. Len(Chunks) : n = Len(AnswerUpTo[k])}

(* getByte() and getBytes() go on behind the end of the packet.            *)
ReadBytes(packet, n) == [k \in 1 .. n |-> IF k <= Len(packet) THEN packet[k] ELSE JUNK]
Rest(packet, n) == SubSeq(packet, n + 1, Len(packet))

-----------------------------------------------------------------------------
(* Faulty variant: what is written a second time is written behind it.     *)
WrittenTwice(file, buffer) == file \o buffer \o buffer

Written(file, buffer) == file \o buffer

(* Steps 2 and 4 in one call: the size of the first chunk is read, and the *)
(* remaining length goes to the swap file, whatever chunks it holds.       *)
get_response(packet) ==
  LET c == lineparse_get_chunked_size(ReadBytes(packet, 7), 0)
      remaining == (Len(packet) - c.removed) % WRAP
  IN  /\ captured' = Written(<<>>, ReadBytes(Rest(packet, c.taken), remaining))
      /\ chunked_position' = (c.new_size - remaining) % WRAP
      /\ state' = "GET_DATA"

(* One pass of the loop: at the end of a chunk the next line is its size.  *)
Pass(r) ==
  LET c == lineparse_get_chunked_size(ReadBytes(r.packet, 7), 0)
  IN  IF r.position = 0
        THEN [r EXCEPT !.len = (@ - 1 - c.removed) % WRAP, !.packet = Rest(@, c.taken),
                       !.position = c.new_size, !.download_flag = @ \/ c.new_size = 0]
        ELSE [r EXCEPT !.len = @ - 1, !.packet = Rest(@, 1),
                       !.position = @ - 1, !.buffer = @ \o ReadBytes(r.packet, 1)]

NextPass(r) == IF r.len = 0 THEN r ELSE Pass(r)

(* Step 5.  An answer in chunks announces no length.  The loop ends when   *)
(* len is zero; each pass takes at least one from it.                      *)
Passes(packet) ==
  LET r[k \in 0 .. Len(packet)] ==
        IF k = 0 THEN [len |-> Len(packet), packet |-> packet, position |-> chunked_position,
                       buffer |-> <<>>, download_flag |-> FALSE]
        ELSE NextPass(r[k - 1])
  IN  r

get_data(packet) ==
  LET end == Passes(packet)[Len(packet)]
  IN  /\ captured' = Written(captured, end.buffer)
      /\ chunked_position' = end.position
      /\ state' = IF end.download_flag THEN "DOWNLOAD_COMPLETE" ELSE "GET_DATA"

-----------------------------------------------------------------------------
ChunkInit == sent = 0 /\ state = "GET_RESPONSE" /\ chunked_position = 0 /\ captured = <<>>

ChunkSegment(n) ==
  /\ sent + n \in Ends
  /\ sent' = sent + n
  /\ LET packet == SubSeq(HttpAnswer, sent + 1, sent + n)
     IN  \/ state = "GET_RESPONSE" /\ get_response(Tail(packet))
         \/ state = "GET_DATA" /\ get_data(packet)

ChunkNext == \E n \in 1 .. Len(HttpAnswer) : ChunkSegment(n)

ChunkSpec == ChunkInit /\ [][ChunkNext]_chunkedVars

-----------------------------------------------------------------------------
(* However the answer is cut and its sizes are misread: no byte of the     *)
(* body is captured twice or before an earlier one.                        *)
InOrder ==
  \A i, j \in 1 .. Len(captured) :
    i < j /\ captured[i] > DATA /\ captured[j] > DATA => captured[i] < captured[j]

(* line_parser.c:456 "Chunked encoding keeps the length of the response in *)
(* following hex chars followed by a CR and LF"; http_client.c:323         *)
(* "Download complete": a download that is complete has captured the bytes *)
(* of all chunks, in order, and nothing else.                              *)
ChunksJoined == state = "DOWNLOAD_COMPLETE" => captured = Body

=============================================================================
