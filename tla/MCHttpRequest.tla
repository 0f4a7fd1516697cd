---------------------------- MODULE MCHttpRequest ----------------------------
(***************************************************************************)
(* An instance of HttpRequest for TLC: two request lines fit the buffer,   *)
(* three do not; one header is short enough not to be parsed at all.       *)
(***************************************************************************)
EXTENDS HttpRequest, TLC

Lines == {"GET", "Host", "Connection: ?", "Accept"}
LineChars == "GET" :> 11 @@ "Host" :> 5 @@ "Connection: ?" :> 12 @@ "Accept" :> 11

=============================================================================
