----------------------------- MODULE MCCmdParse -----------------------------
(***************************************************************************)
(* Every line up to MaxLen characters, typed one character at a time,      *)
(* against the command language.  Keywords are shortened to "r", "s", "st" *)
(* and "tt", see MCUartCmd.                                                *)
(***************************************************************************)
EXTENDS CmdLanguage

CONSTANTS Char, MaxLen, RateMax

MCKeyword ==
  [rate |-> <<114>>, start |-> <<115>>, stop |-> <<115, 116>>,
   status |-> <<116, 116>>]

Init == input = << >>
Next == /\ Len(input) < MaxLen
        /\ \E c \in Char : input' = Append(input, c)
Spec == Init /\ [][Next]_input
-----------------------------------------------------------------------------
(* parse_uint() is "deliberately strict so a typo produces a clear usage   *)
(* message instead of a silently wrong number": a rate the caller accepts  *)
(* is the number that was typed.  The accumulator wraps instead.           *)
AcceptedRateIsTheTypedOne ==
  LET got == HandleLine(input)
  IN  got.id = "RATE" /\ got.arg \in 1 .. RateMax =>
        \E r \in Reading("rate") :
          Value(SubSeq(input, r.arg, Len(input))) = got.arg
=============================================================================
