---------------------------- MODULE MCHttpServer ----------------------------
(***************************************************************************)
(* HttpServer with the pages and the traffic of HttpTraffic, for TLC.      *)
(***************************************************************************)
EXTENDS HttpServer, HttpTraffic

=============================================================================
