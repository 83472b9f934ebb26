------------------------------ MODULE CmdParse ------------------------------
(***************************************************************************)
(* The grammar of the UART command line: word_is(), parse_uint() and       *)
(* handle_line() of Src/uart_cmd.c as operators on a line.                 *)
(*                                                                         *)
(* A line is the sequence of the character codes between the start of      *)
(* line[] and its NUL: the end of the string is the end of the sequence.   *)
(* The spelling of the keywords is a parameter: what matters is which of   *)
(* them are prefixes of one another, and the models keep the overlaps of   *)
(* "start", "stop" and "status" with shorter words.                        *)
(***************************************************************************)
EXTENDS Word, Sequences

CONSTANT Keyword   \* spelling of "rate", "start", "stop" and "status"

SP == 32                       \* ' '
Digit == 48 .. 57              \* '0' .. '9'

(* The keywords are words, and four different ones. *)
ASSUME KeywordAssumption ==
  /\ DOMAIN Keyword = {"rate", "start", "stop", "status"}
  /\ \A k \in DOMAIN Keyword :
       /\ Keyword[k] \in Seq(Nat \ {SP}) /\ Keyword[k] # << >>
       /\ \A j \in DOMAIN Keyword : Keyword[j] = Keyword[k] => j = k

(* What handle_line() leaves the caller: nothing, or a command with its    *)
(* argument.  out->arg is written for "rate" only; the caller never reads  *)
(* it for the others.                                                      *)
NoCommand == [id |-> "NONE", arg |-> 0]
Command(id) == [id |-> id, arg |-> 0]

-----------------------------------------------------------------------------
(* The loop that steps p over blanks: the first position from i on that    *)
(* does not hold one, Len(s)+1 being the terminating NUL.                  *)
SkipBlanks(s, i) ==
  CHOOSE k \in i .. Len(s) + 1 :
    /\ k <= Len(s) => s[k] # SP
    /\ \A j \in i .. k - 1 : s[j] = SP

(* The loop that measures the keyword: it ends at a blank or at the NUL. *)
WordEnd(s, i) ==
  CHOOSE k \in i .. Len(s) + 1 :
    /\ k <= Len(s) => s[k] = SP
    /\ \A j \in i .. k - 1 : s[j] # SP

(* uint32_t v = 0; while (digit) v = v * 10 + digit; the value modulo 2^w  *)
Accumulated(s) ==
  LET v[n \in 0 .. Len(s)] ==
        IF n = 0 THEN 0 ELSE (v[n - 1] * 10 + (s[n] - 48)) % WordMod
  IN  v[Len(s)]

(* mutant: what follows the digits is not looked at *)
IsUintPrefix(s) == s # << >> /\ s[1] \in Digit

(* parse_uint() succeeds on one digit or more, and nothing else. *)
IsUint(s) == s # << >> /\ \A i \in 1 .. Len(s) : s[i] \in Digit

HandleLine(ln) ==
  LET kw  == SkipBlanks(ln, 1)
      e   == WordEnd(ln, kw)
      arg == SubSeq(ln, SkipBlanks(ln, e), Len(ln))
      WordIs(k) == SubSeq(ln, kw, e - 1) = Keyword[k]
  IN  CASE kw > Len(ln)                     -> NoCommand   \* blank line
        [] WordIs("rate") /\ IsUint(arg)    ->
             [id |-> "RATE", arg |-> AsSigned(Accumulated(arg))]
        [] WordIs("start")                  -> Command("START")
        [] WordIs("stop")                   -> Command("STOP")
        [] WordIs("status")                 -> Command("STATUS")
        [] OTHER                            -> NoCommand   \* usage, help, unknown
=============================================================================
