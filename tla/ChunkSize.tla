------------------------------- MODULE ChunkSize -------------------------------
(***************************************************************************)
(* lineparse_get_chunked_size() of network/parser/line_parser.c: the size  *)
(* line of a chunk is taken from the receive buffer, character by          *)
(* character.                                                              *)
(***************************************************************************)
EXTENDS Integers, Sequences, SequencesExt

(* The characters 0 .. 15 are hexadecimal digits; others are above them.   *)
CR == 16
LF == 17

Take(s, n) == SubSeq(s, 1, IF Len(s) < n THEN Len(s) ELSE n)

(* The characters before the first one in stop.                            *)
Upto(s, stop) ==
  LET k == SelectInSeq(s, LAMBDA x : x \in stop) IN IF k = 0 THEN s ELSE SubSeq(s, 1, k - 1)

(* xtoi(), which stops at what is no digit.                                *)
xtoi(text) ==
  LET k == SelectInSeq(text, LAMBDA x : x \notin 0 .. 15)
  IN  FoldLeft(LAMBDA n, d : 16 * n + d, 0, IF k = 0 THEN text ELSE SubSeq(text, 1, k - 1))

(* The '\n' is read and not counted.  Without a line end in seven          *)
(* characters the size is left as it was, and none of the characters that  *)
(* were read counts as removed.                                            *)
lineparse_get_chunked_size(bytes, old) ==
  LET lf == SelectInSeq(Take(bytes, 7), LAMBDA x : x = LF)
  IN  IF lf = 0 THEN [new_size |-> old, removed |-> 0, taken |-> 7]
      ELSE [new_size |-> xtoi(Upto(bytes, {CR, LF})), removed |-> lf - 1, taken |-> lf]

=============================================================================
