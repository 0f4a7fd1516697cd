---------------------------- MODULE MCHttpClient ----------------------------
(***************************************************************************)
(* Instances of HttpClient for TLC: what the servers answer.               *)
(***************************************************************************)
EXTENDS HttpClient

Answers == {[size |-> 3, announced |-> TRUE], [size |-> 1, announced |-> FALSE]}

=============================================================================
