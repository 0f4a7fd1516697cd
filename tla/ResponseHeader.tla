---------------------------- MODULE ResponseHeader ----------------------------
(***************************************************************************)
(* network/head_generator/head_generator.c with utils/alt_string.c: the    *)
(* header of a response, put together piece by piece in the buffer that    *)
(* has held the request.  HttpServer takes its length for granted.         *)
(*                                                                         *)
(* The text is a sequence of pieces, the strings the code concatenates;    *)
(* only extensions are spelled out, as the code compares their characters. *)
(***************************************************************************)
EXTENDS Integers, Sequences, FiniteSets, SequencesExt, TLC

CONSTANTS
  Extensions,         (* what page names have behind their first dot       *)
  Sizes,              (* sizes of pages                                    *)
  LARGE_BUFFER_SIZE   (* network_conf.h                                    *)

HeaderAssumption == Sizes \subseteq Nat /\ LARGE_BUFFER_SIZE \in Nat

VARIABLES
  buffer,                (* get_post_buffer, as pieces                     *)
  update_GMT_timestamp,  (* whether the callback is set                    *)
  last                   (* history: what the header was generated for     *)

headVars == <<buffer, update_GMT_timestamp, last>>

NoPage == [ext |-> <<>>, size |-> -1]
Pages == [ext : Extensions, size : Sizes]
Responses == {"RESPONSE_200_OK", "RESPONSE_404_NOT_FOUND"}  \* the server sets no other

CRLF == "\r\n"
LF == "\n"
DATE == "Tue, 15 Nov 1994 08:12:31 GMT"
Breaks == {CRLF, LF}

-----------------------------------------------------------------------------
http_file_extensions ==
  << <<"t", "x", "t">>, <<"h", "t", "m">>, <<"h", "t", "m", "l">>, <<"c", "g", "i">>,
     <<"x", "m", "l">>, <<"c", "s", "s">>, <<"g", "i", "f">>, <<"p", "n", "g">>,
     <<"j", "p", "g">>, <<"j", "s">>, <<"w", "a", "v">> >>

(* Faulty variant: the row of "html" was left out of the other table.      *)
TypesWithoutHtml ==
  <<"text/plain", "text/html", "text/html", "text/xml", "text/css",
    "image/gif", "image/png", "image/jpeg", "application/x-javascript", "audio/x-wave", "">>

http_content_types ==
  <<"text/plain", "text/html", "text/html", "text/html", "text/xml", "text/css",
    "image/gif", "image/png", "image/jpeg", "application/x-javascript", "audio/x-wave">>

http_response(type) ==
  CASE type = "RESPONSE_200_OK" -> "200 OK"
    [] type = "RESPONSE_404_NOT_FOUND" -> "404 Not Found"

(* strncmp_const() of three characters, a '\0' at the end among them.      *)
Three(text) == LET t == Append(text, "0") IN SubSeq(t, 1, IF Len(t) < 3 THEN Len(t) ELSE 3)
strncmp_const(s, t) == IF Three(s) = Three(t) THEN 0 ELSE 1

(* The first row that compares equal; without one nothing is appended, not *)
(* even the end of the line.                                               *)
header_get_page_info(page) ==
  LET row == SelectInSeq(http_file_extensions, LAMBDA e : strncmp_const(page.ext, e) = 0)
  IN  <<"Content-Length: ", ToString(page.size), CRLF, "Content-Type: ">>
        \o IF row = 0 THEN <<>> ELSE <<http_content_types[row], CRLF>>

header_generate(type, page) ==
  /\ buffer' =
       <<"HTTP/1.1 ", http_response(type), CRLF, "Server: ", "Alphaloewe/1.1", CRLF>>
         \o (IF update_GMT_timestamp THEN <<"Date: ", DATE, CRLF>> ELSE <<>>)
         \o (IF page = NoPage THEN <<>> ELSE header_get_page_info(page))
         \o <<"Connection: ", "keep-alive", LF, LF>>
  /\ last' = [type |-> type, page |-> page, date |-> update_GMT_timestamp]
  /\ UNCHANGED update_GMT_timestamp

header_set_GMT_callback ==
  /\ update_GMT_timestamp' = TRUE
  /\ UNCHANGED <<buffer, last>>

(* A page that is not in the catalog is answered without one.              *)
Init ==
  /\ buffer = <<>> /\ update_GMT_timestamp = FALSE
  /\ last = [type |-> "none", page |-> NoPage, date |-> FALSE]

Next ==
  \/ header_set_GMT_callback
  \/ \E p \in Pages : header_generate("RESPONSE_200_OK", p)
  \/ header_generate("RESPONSE_404_NOT_FOUND", NoPage)

Spec == Init /\ [][Next]_headVars

-----------------------------------------------------------------------------
(* The header as a browser reads it: the pieces of each line, up to its    *)
(* end.                                                                    *)
LineStarts == {1} \cup {k + 1 : k \in {j \in 1 .. Len(buffer) - 1 : buffer[j] \in Breaks}}
LineFrom(k) ==
  LET rest == SubSeq(buffer, k, Len(buffer))
  IN  SubSeq(rest, 1, SelectInSeq(rest, LAMBDA t : t \in Breaks) - 1)
Values(name) == {Tail(LineFrom(k)) : k \in {j \in LineStarts : buffer[j] = name}}

Width == FoldLeft(LAMBDA n, t : n + Len(t), 0, buffer)

(* The media types of the extensions the pages have.                       *)
MediaType(ext) ==
  CASE ext \in {<<"h", "t", "m">>, <<"h", "t", "m", "l">>, <<"c", "g", "i">>} -> "text/html"
    [] ext = <<"j", "s">> -> "application/x-javascript"
    [] ext = <<"c", "s", "s">> -> "text/css"
    [] ext = <<"t", "x", "t">> -> "text/plain"
    [] ext = <<"p", "n", "g">> -> "image/png"
    [] ext = <<"j", "p", "g">> -> "image/jpeg"
    [] OTHER -> "unknown"

(* A browser finds in the header what it needs to read the page and no     *)
(* more: the header ends with its last line and not before, the longest    *)
(* one fits the buffer with the two bytes strcpy_const() ends it with, the *)
(* date is there once the clock is known, and a page comes with its length *)
(* and the type of its extension, each in a line of its own (unless the    *)
(* extension is unknown), while a refusal comes with neither.              *)
HeaderWhole ==
  last.type # "none" =>
    /\ LineFrom(1) = <<"HTTP/1.1 ", http_response(last.type)>>
    /\ {k \in LineStarts : LineFrom(k) = <<>>} = {Len(buffer)}
    /\ Width + 2 <= LARGE_BUFFER_SIZE
    /\ Values("Date: ") = IF last.date THEN {<<DATE>>} ELSE {}
    /\ IF last.page = NoPage
         THEN Values("Content-Length: ") = {} /\ Values("Content-Type: ") = {}
         ELSE /\ Values("Content-Length: ") = {<<ToString(last.page.size)>>}
              /\ MediaType(last.page.ext) # "unknown" =>
                   /\ Values("Content-Type: ") = {<<MediaType(last.page.ext)>>}
                   /\ Values("Connection: ") = {<<"keep-alive">>}

=============================================================================
