-------------------------------- MODULE Printf --------------------------------
(***************************************************************************)
(* utils/lwprintf.c: tfp_printf() for one conversion of its format.  An    *)
(* int has 16 bits, a char (the field width) 8.  Characters are strings of *)
(* length one; the argument of %u, %d, %x and %X is an unsigned 16-bit     *)
(* word, that of %s a sequence of characters.                              *)
(***************************************************************************)
EXTENDS Integers, Sequences

CONSTANTS
  Words,       (* arguments that are numbers                               *)
  Strings,     (* arguments that are text                                  *)
  Widths       (* field widths, as the format spells them                  *)

Word == 0 .. 65535

ASSUME PrintfAssumption ==
  Words \subseteq Word /\ Widths \subseteq Nat /\ \A t \in Strings : t \in Seq(STRING)

VARIABLES call, output

printfVars == <<call, output>>

Signed(n) == IF n > 32767 THEN n - 65536 ELSE n

Lower == <<"0", "1", "2", "3", "4", "5", "6", "7", "8", "9", "a", "b", "c", "d", "e", "f">>
Upper == <<"0", "1", "2", "3", "4", "5", "6", "7", "8", "9", "A", "B", "C", "D", "E", "F">>

-----------------------------------------------------------------------------
(* outDgt(): zs remembers that a digit is out, so that zeros follow it.    *)
outDgt(s, dgt, digits) == [s EXCEPT !.bf = Append(@, digits[dgt + 1]), !.zs = TRUE]

(* Faulty variant: zeros are left out everywhere.                          *)
divOutNoZero(s, div, digits) ==
  LET t == [s EXCEPT !.num = @ % div]
  IN  IF s.num \div div > 0 THEN outDgt(t, s.num \div div, digits) ELSE t

(* divOut(): the loop of subtractions is a division.                       *)
divOut(s, div, digits) ==
  LET t == [s EXCEPT !.num = @ % div]
  IN  IF s.zs \/ s.num \div div > 0 THEN outDgt(t, s.num \div div, digits) ELSE t

(* The calls of divOut(), and the last digit.                             *)
Tens(s) ==
  LET t == divOut(divOut(divOut(divOut(s, 10000, Lower), 1000, Lower), 100, Lower), 10, Lower)
  IN  outDgt(t, t.num, Lower).bf

Sixteens(s, digits) ==
  LET t == divOut(divOut(divOut(s, 4096, digits), 256, digits), 16, digits)
  IN  outDgt(t, t.num, digits).bf

(* -( int )num of the smallest int is itself.                              *)
Start(ch, num) ==
  IF ch = "d" /\ Signed(num) < 0
    THEN [num |-> (-num) % 65536, bf |-> <<"-">>, zs |-> FALSE]
    ELSE [num |-> num, bf |-> <<>>, zs |-> FALSE]

Converted(ch, arg) ==
  CASE ch \in {"u", "d"} -> Tens(Start(ch, arg))
    [] ch = "x" -> Sixteens(Start(ch, arg), Lower)
    [] ch = "X" -> Sixteens(Start(ch, arg), Upper)
    [] ch \in {"c", "s"} -> arg
    [] ch = "%" -> <<"%">>
    [] OTHER -> <<>>

Pad(w, text) == IF w > Len(text) THEN w - Len(text) ELSE 0

(* The width is collected in a char; a leading zero chooses the padding.   *)
tfp_printf(c) ==
  LET text == Converted(c.ch, c.arg)
  IN  [k \in 1 .. Pad(c.width % 256, text) |-> IF c.lz THEN "0" ELSE " "] \o text

-----------------------------------------------------------------------------
Calls ==
  LET Format(chars, args) == [ch : chars, arg : args, lz : BOOLEAN, width : Widths]
  IN  Format({"u", "d", "x", "X"}, Words) \cup Format({"s"}, Strings)
        \cup Format({"c"}, {<<"c">>}) \cup Format({"%", "?"}, {<<>>})

PrintInit == call = [ch |-> "?", arg |-> <<>>, lz |-> FALSE, width |-> 0] /\ output = <<>>

PrintNext == \E c \in Calls : call' = c /\ output' = tfp_printf(c)

PrintSpec == PrintInit /\ [][PrintNext]_printfVars

-----------------------------------------------------------------------------
(* Reading a number back, as scanf() would.                                *)
Digit(x) == (CHOOSE k \in 1 .. 16 : Lower[k] = x \/ Upper[k] = x) - 1

Read(text, base) ==
  LET f[k \in 0 .. Len(text)] == IF k = 0 THEN 0 ELSE base * f[k - 1] + Digit(text[k])
  IN  f[Len(text)]

(* A number is written in digits of its base, with no zero before them.    *)
IsNumeral(text, base) ==
  /\ \A k \in 1 .. Len(text) : \E d \in 1 .. base : text[k] \in {Lower[d], Upper[d]}
  /\ Len(text) > 1 => text[1] # "0"

Negative(c) == c.ch = "d" /\ Signed(c.arg) < 0
Magnitude(c) == IF Negative(c) THEN -Signed(c.arg) ELSE c.arg
Sign(c) == IF Negative(c) THEN <<"-">> ELSE <<>>
NumeralBase(c) == IF c.ch \in {"x", "X"} THEN 16 ELSE 10

(* What is printed is the argument: a number reads back as it was, from    *)
(* the smallest int to the largest word, without a digit more than the     *)
(* number has, and the field is as wide as was asked for (up to 255), or   *)
(* as the text.  A minus stands before the digits, and behind the padding  *)
(* (also behind zeros, where C wants it in front).                         *)
PrintsArgument ==
  /\ call.ch = "s" => \E k \in 1 .. Len(output) + 1 : SubSeq(output, k, Len(output)) = call.arg
  /\ call.ch \in {"u", "d", "x", "X"} =>
    \E n \in 1 .. 5 :
      LET own == Len(Sign(call)) + n
          numeral == SubSeq(output, Len(output) - n + 1, Len(output))
      IN  /\ Len(output) >= own
          /\ IsNumeral(numeral, NumeralBase(call))
          /\ Read(numeral, NumeralBase(call)) = Magnitude(call)
          /\ SubSeq(output, Len(output) - own + 1, Len(output) - n) = Sign(call)
          /\ call.width < 256 => Len(output) = IF call.width > own THEN call.width ELSE own
          /\ \A k \in 1 .. Len(output) - own : output[k] = IF call.lz THEN "0" ELSE " "

=============================================================================
