---------------------------- MODULE CmdLanguage -----------------------------
(***************************************************************************)
(* The command language of the UART command line as a set of strings, and  *)
(* what it is for the parser to accept it.                                 *)
(***************************************************************************)
EXTENDS CmdParse

VARIABLE input  \* any line

Blank(s) == \A i \in 1 .. Len(s) : s[i] = SP
Numeral(s) == s # << >> /\ \A i \in 1 .. Len(s) : s[i] \in Digit

(* The number a numeral stands for, of any size: every digit times the     *)
(* weight of its place.                                                    *)
Value(s) ==
  LET weight[n \in 0 .. Len(s)] == IF n = 0 THEN 1 ELSE 10 * weight[n - 1]
      sum[n \in 0 .. Len(s)] ==
        IF n = 0 THEN 0 ELSE sum[n - 1] + (s[n] - 48) * weight[Len(s) - n]
  IN  sum[Len(s)]

(* The ways to read a line as: blanks, a keyword, blanks, an argument. *)
Reading(k) ==
  {r \in [lead : 0 .. Len(input), arg : 1 .. Len(input) + 1] :
     LET kwEnd == r.lead + Len(Keyword[k])
     IN  /\ kwEnd < r.arg
         /\ Blank(SubSeq(input, 1, r.lead))
         /\ SubSeq(input, r.lead + 1, kwEnd) = Keyword[k]
         /\ Blank(SubSeq(input, kwEnd + 1, r.arg - 1))
         /\ kwEnd < Len(input) => input[kwEnd + 1] = SP}

(* handle_line() accepts exactly the lines of the language: "start",       *)
(* "stop" and "status" with anything behind a blank, "rate" with a numeral *)
(* that reaches the end of the line, and then reports its value whenever   *)
(* an int32_t can hold it (uart_cmd.c:53-120).                             *)
AcceptsTheLanguage ==
  LET got == HandleLine(input)
      numeral == {Numeral(SubSeq(input, r.arg, Len(input))) : r \in Reading("rate")}
  IN  /\ got.id = "START"  <=> Reading("start") # {}
      /\ got.id = "STOP"   <=> Reading("stop") # {}
      /\ got.id = "STATUS" <=> Reading("status") # {}
      /\ got.id = "RATE"   <=> TRUE \in numeral
      /\ \A r \in Reading("rate") :
           LET s == SubSeq(input, r.arg, Len(input))
           IN  Numeral(s) /\ Value(s) < WordMod \div 2 => got.arg = Value(s)
=============================================================================
