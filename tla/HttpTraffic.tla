----------------------------- MODULE HttpTraffic -----------------------------
(***************************************************************************)
(* A catalog of one page of each kind and what the peers of the web server *)
(* send, for the instances of HttpServer.                                  *)
(***************************************************************************)
EXTENDS Integers, TLC

Catalog == {"index.htm", "set.js", "error.txt"}
KindOf == [p \in Catalog |->
             CASE p = "index.htm" -> "static" [] p = "set.js" -> "dynamic" [] OTHER -> "flash"]
FileSizes(n) == [p \in Catalog |-> IF KindOf[p] = "flash" THEN n ELSE 3]
File1 == FileSizes(1)
File3 == FileSizes(3)

Nothing == [method |-> "NONE", target |-> "none", conn |-> "UNKNOWN", clen |-> 0,
            end |-> FALSE, data |-> 0]
Get(p, conn) == [Nothing EXCEPT !.method = "GET", !.target = p, !.conn = conn, !.end = TRUE]
PostHeader(p, n, data) ==
  [Nothing EXCEPT !.method = "POST", !.target = p, !.conn = "CLOSE", !.clen = n,
                  !.end = TRUE, !.data = data]
Body(n) == [Nothing EXCEPT !.data = n]

AnyConn(p) == {Get(p, conn) : conn \in {"UNKNOWN", "KEEP_ALIVE", "CLOSE"}}
Forms(p) == {PostHeader(p, 2, d) : d \in 0 .. 2} \cup {Body(1)}

(* A request line alone, the rest of a request, a line that is refused, a  *)
(* method that is not supported, a body that is announced too long.        *)
Odd(p) == {[Get(p, "UNKNOWN") EXCEPT !.end = FALSE],
           [Nothing EXCEPT !.conn = "CLOSE", !.end = TRUE],
           [Nothing EXCEPT !.method = "BAD"],
           [Nothing EXCEPT !.method = "PUT", !.end = TRUE],
           PostHeader(p, 9, 0)}

(* Two clients on pages of their own, two on the same pages, one alone.    *)
OwnOnes == "c1" :> AnyConn("index.htm") \cup Forms("index.htm") \cup Odd("absent.htm")
           @@ "c2" :> {Get("set.js", "CLOSE"), Get("set.js", "KEEP_ALIVE")}
Sharing == [c \in {"c1", "c2"} |-> {Get("set.js", "CLOSE"), Get("error.txt", "CLOSE")}]

Visitors == {OwnOnes, Sharing}
SamePage == {[c \in {"c1", "c2"} |-> {Get("index.htm", "CLOSE")}]}
OneClient == {"c1" :> AnyConn("index.htm") \cup Forms("set.js") \cup Odd("absent.htm")}
OneFile == {"c1" :> {Get("error.txt", "CLOSE")}}
OnePage == {"c1" :> AnyConn("index.htm")}

=============================================================================
