------------------------------ MODULE MCChunked ------------------------------
(***************************************************************************)
(* An instance of Chunked for TLC: a body in two chunks.                   *)
(***************************************************************************)
EXTENDS Chunked

TwoChunks == <<2, 1>>

=============================================================================
