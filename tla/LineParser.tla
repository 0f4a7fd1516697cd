------------------------------ MODULE LineParser ------------------------------
(***************************************************************************)
(* The part of network/parser/line_parser.c that HttpServer and HttpClient *)
(* take for granted: how file names are cut to eight and three characters, *)
(* and what the lines of a server's response set in the socket.            *)
(*                                                                         *)
(* Text is a sequence of characters, of which those named below are told   *)
(* apart from all others.                                                  *)
(***************************************************************************)
EXTENDS ChunkSize

CONSTANTS
  Letters,      (* characters that mean nothing to the parser              *)
  Bases, Exts,  (* file names by their parts, without the dot              *)
  Dirs,         (* what a request has before the name                      *)
  Headers,      (* other lines of a response                               *)
  Stale         (* what the line buffer holds behind the end of a line:    *)
                (* the tail of an earlier, longer one                      *)

DOT == "."
QUOTE == "q"
SLASH == "/"
END == "0"     \* '\0'

Characters == Letters \cup {DOT, QUOTE, SLASH, END}

ASSUME LineParserAssumption ==
  /\ Letters \cap {DOT, QUOTE, SLASH, END} = {}
  /\ Bases \subseteq Seq(Letters) /\ Exts \subseteq Seq(Letters)
  /\ \A d \in Dirs : d \in Seq(Characters) /\ Len(d) > 0 /\ Last(d) = SLASH
  /\ \A h \in Headers : h.kind \in {"status", "length", "connection", "encoding", "bad", "other"}
  /\ \A h \in Headers : h.kind = "length" => h.value \in Nat
  /\ Stale \in Seq(Characters)

VARIABLES
  fields,      (* the fields of socket_t the parser sets                   *)
  parsed_line  (* what was parsed last                                     *)

lineVars == <<fields, parsed_line>>

LineInit ==
  /\ fields = [response |-> "UNKNOWN", file_name |-> <<>>, content_length |-> 0,
               connect |-> "UNKNOWN", encoding |-> "UNKNOWN"]
  /\ parsed_line = [kind |-> "none"]

From(s, k) == SubSeq(s, k, Len(s))

-----------------------------------------------------------------------------
(* The name in Content-Disposition, from behind its first quote on.        *)

(* Faulty variant: the rest of a long base is taken for the extension.     *)
DotNext(t, base) == Len(base) + 1

(* Where the copy of the base has stopped, or the dot behind that.         *)
DotOrEnd(t, base) ==
  LET p == Len(base) + 1
  IN  IF t[p] \in {DOT, END} THEN p ELSE p + 1 + Len(Upto(From(t, p + 1), {DOT}))

(* Neither the quote nor the end of the line stops the copy of the base.   *)
DispositionName(t) ==
  LET base == Take(Upto(t, {DOT}), 8)
      p == DotOrEnd(t, base)
  IN  base \o <<t[p]>> \o Take(Upto(From(t, p + 1), {QUOTE, END}), 3)

(* get_file_name(): the base is what follows the last slash, the extension *)
(* follows the first dot of the line, wherever that is.                    *)
LastSlash(t) == SelectLastInSeq(t, LAMBDA x : x = SLASH)

get_file_name(t) ==
  Take(Upto(From(t, LastSlash(t) + 1), {DOT, END}), 8)
    \o Take(Upto(From(t, SelectInSeq(t, LAMBDA x : x = DOT)), {END}), 4)

-----------------------------------------------------------------------------
IsOk(s, l) == s.response = "UNKNOWN" /\ l.value = "200_OK"

(* lineparse_server_response(): nothing is made of another status; a line  *)
(* without its quote or its value ("bad") is refused, and sets nothing.     *)
lineparse_server_response(s, l) ==
  CASE l.kind = "status" -> IF IsOk(s, l) THEN [s EXCEPT !.response = "200_OK"] ELSE s
    [] l.kind = "disposition" -> [s EXCEPT !.file_name = DispositionName(l.text)]
    [] l.kind = "length" -> [s EXCEPT !.content_length = l.value]
    [] l.kind = "connection" -> IF l.value \in {"CLOSE", "KEEP_ALIVE"}
                                  THEN [s EXCEPT !.connect = l.value] ELSE s
    [] l.kind = "encoding" -> IF l.value = "CHUNKED" THEN [s EXCEPT !.encoding = l.value] ELSE s
    [] OTHER -> s

-----------------------------------------------------------------------------
Name(b, e) == b \o <<DOT>> \o e

ServerLine ==
  \E l \in Headers \cup
         {[kind |-> "disposition", base |-> b, ext |-> e,
           text |-> Name(b, e) \o q \o <<END>> \o Stale] :
            b \in Bases, e \in Exts, q \in {<<QUOTE>>, <<>>}} :
    parsed_line' = l /\ fields' = lineparse_server_response(fields, l)

RequestLine ==
  \E d \in Dirs, b \in Bases, e \in Exts :
    LET text == d \o Name(b, e) \o <<END>>
    IN  /\ parsed_line' = [kind |-> "request", base |-> b, ext |-> e, text |-> text]
        /\ fields' = [fields EXCEPT !.file_name = get_file_name(text)]

LineNext == ServerLine \/ RequestLine

LineSpec == LineInit /\ [][LineNext]_lineVars

-----------------------------------------------------------------------------
LineTypeOK ==
  /\ fields.response \in {"UNKNOWN", "200_OK"}
  /\ fields.connect \in {"UNKNOWN", "CLOSE", "KEEP_ALIVE"}
  /\ fields.encoding \in {"UNKNOWN", "CHUNKED"} /\ fields.content_length \in Nat

(* A file has one name on the card, whether a server's response or a       *)
(* client's request names it, and the name fits into file_name[13]:  eight *)
(* characters, the dot and three more.  (A request's extension stops at    *)
(* the end of its name, so that "x.html" and "x.htm" are one file.)        *)
NameCut ==
  parsed_line.kind \in {"disposition", "request"} =>
    fields.file_name = Take(parsed_line.base, 8) \o <<DOT>> \o Take(parsed_line.ext, 3)

=============================================================================
