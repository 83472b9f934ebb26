------------------------------- MODULE UartCmd ------------------------------
(***************************************************************************)
(* Src/uart_cmd.c: the ring buffer that the USART2 receive interrupt fills *)
(* and uart_cmd_poll() drains, and the line editor of uart_cmd_poll().     *)
(*                                                                         *)
(* Two actors share the ring.  The interrupt preempts the main loop        *)
(* between any two of its accesses to the volatile variables and runs to   *)
(* its end before the main loop goes on, so USART2_IRQHandler() is one     *)
(* action and every such access of uart_cmd_poll() is an action of its     *)
(* own.  Echo and messages only cost time, which is the time in which the  *)
(* interrupt can run again.                                                *)
(***************************************************************************)
EXTENDS CmdParse, FiniteSets

CONSTANTS
  RXBUF_SIZE,   \* slots of the ring; one of them always stays empty
  LINE_MAX,     \* size of line[], its NUL included
  Byte,         \* the bytes the terminal sends
  MaxTyped,     \* bound: bytes the terminal sends without a line end
  MaxLost       \* bound: bytes refused in one behaviour

ASSUME UartCmdAssumption ==
  /\ RXBUF_SIZE \in Nat /\ RXBUF_SIZE >= 2
  /\ LINE_MAX \in Nat /\ LINE_MAX >= 2
  /\ Byte \subseteq 0 .. 255
  /\ MaxTyped \in Nat /\ MaxLost \in Nat

VARIABLES
  rx_buf,       \* the ring
  rx_head,      \* next slot to fill, written by the interrupt only
  rx_tail,      \* next slot to drain, written by uart_cmd_poll() only
  rx_dropped,   \* refused bytes not yet reported; written by both
  line,         \* line[0 .. line_len-1]
  pc,           \* where the main loop is; "main" is outside uart_cmd_poll()
  byte,         \* the local of uart_cmd_poll()
  cmd,          \* its result: NoCommand for 0, else *out
  \* History, read by no guard but the two bounds:
  typed,        \* bytes sent since the terminal last sent a line end
  segment,      \* bytes drained since a line end was last drained
  last,         \* the byte drained last
  lost,         \* bytes really refused
  reported      \* sum of the counts printed to the user

rxVars   == << rx_buf, rx_head, typed, lost >>
lineVars == << line, cmd, segment >>
vars == << rx_buf, rx_head, rx_tail, rx_dropped, line, pc, byte, cmd,
           typed, segment, last, lost, reported >>

LineEnd == {13, 10}            \* '\r', '\n'
Rubout  == {127, 8}            \* DEL, '\b'
Printable == 32 .. 126

Succ(i) == (i + 1) % RXBUF_SIZE        \* (i + 1) & (RXBUF_SIZE - 1)

FullNoWrap == rx_head + 1 = rx_tail                     \* mutant
Full == Succ(rx_head) = rx_tail        \* one slot always stays empty

(* The bytes waiting in the ring, oldest first: how many slots lie between *)
(* two indices, the i-th slot from a tail on, and what the slots hold.     *)
Distance(h, t) == (h - t) % RXBUF_SIZE
Slot(t, i) == (t + i - 1) % RXBUF_SIZE
Contents(buf, h, t) == [i \in 1 .. Distance(h, t) |-> buf[Slot(t, i)]]
Queue == Contents(rx_buf, rx_head, rx_tail)

Init ==
  /\ rx_buf = [i \in 0 .. RXBUF_SIZE - 1 |-> 0]
  /\ rx_head = 0 /\ rx_tail = 0 /\ rx_dropped = 0
  /\ line = << >>
  /\ pc = "main" /\ byte = 0 /\ cmd = NoCommand
  /\ typed = 0 /\ segment = << >> /\ last = << >> /\ lost = 0 /\ reported = 0

-----------------------------------------------------------------------------
(* USART2_IRQHandler() with byte b in the data register. *)
Types(b) ==
  /\ typed' = IF b \in LineEnd THEN 0 ELSE typed + 1
  /\ typed' <= MaxTyped

Store(b) ==
  /\ Types(b)
  /\ ~Full
  /\ rx_buf' = [rx_buf EXCEPT ![rx_head] = b]
  /\ rx_head' = Succ(rx_head)
  /\ UNCHANGED << rx_tail, rx_dropped, line, pc, byte, cmd,
                  segment, last, lost, reported >>

Drop(b) ==
  /\ Types(b)
  /\ Full
  /\ lost < MaxLost
  /\ rx_dropped' = rx_dropped + 1
  /\ lost' = lost + 1
  /\ UNCHANGED << rx_buf, rx_head, rx_tail, line, pc, byte, cmd,
                  segment, last, reported >>

USART2_IRQHandler == \E b \in Byte : Store(b) \/ Drop(b)

-----------------------------------------------------------------------------
(* uart_cmd_poll() *)

(* mutant: an empty ring ends the poll before the losses are reported *)
EnterIdle ==
  /\ pc = "main"
  /\ pc' = IF rx_tail = rx_head THEN "main"
           ELSE IF rx_dropped # 0 THEN "report" ELSE "test"
  /\ cmd' = NoCommand
  /\ UNCHANGED << rxVars, rx_tail, rx_dropped, line, byte,
                  segment, last, reported >>

(* if (rx_dropped) *)
Enter ==
  /\ pc = "main"
  /\ pc' = IF rx_dropped # 0 THEN "report" ELSE "test"
  /\ cmd' = NoCommand
  /\ UNCHANGED << rxVars, rx_tail, rx_dropped, line, byte,
                  segment, last, reported >>

(* rx_dropped is read again for the message; printing it takes far longer  *)
(* than the next byte needs to arrive.                                     *)
Report ==
  /\ pc = "report"
  /\ reported' = reported + rx_dropped
  /\ pc' = "clear"
  /\ UNCHANGED << rxVars, rx_tail, rx_dropped, lineVars, byte, last >>

(* mutant: the counter is not reset *)
ClearForgotten ==
  /\ pc = "clear"
  /\ pc' = "test"
  /\ UNCHANGED << rxVars, rx_tail, rx_dropped, lineVars, byte, last, reported >>

Clear ==
  /\ pc = "clear"
  /\ rx_dropped' = 0
  /\ pc' = "test"
  /\ UNCHANGED << rxVars, rx_tail, lineVars, byte, last, reported >>

(* while (rx_tail != rx_head); the empty ring ends the poll with 0 *)
Test ==
  /\ pc = "test"
  /\ pc' = IF rx_tail # rx_head THEN "fetch" ELSE "main"
  /\ UNCHANGED << rxVars, rx_tail, rx_dropped, lineVars, byte,
                  last, reported >>

Fetch ==
  /\ pc = "fetch"
  /\ byte' = rx_buf[rx_tail]
  /\ pc' = "advance"
  /\ UNCHANGED << rxVars, rx_tail, rx_dropped, lineVars, last, reported >>

(* mutant: the byte that "continue" skips is not consumed *)
AdvanceKept ==
  /\ pc = "advance"
  /\ rx_tail' = IF byte \in LineEnd /\ line = << >> THEN rx_tail
                ELSE Succ(rx_tail)
  /\ last' = << byte >>
  /\ pc' = "edit"
  /\ UNCHANGED << rxVars, rx_dropped, lineVars, byte, reported >>

Advance ==
  /\ pc = "advance"
  /\ rx_tail' = Succ(rx_tail)
  /\ last' = << byte >>
  /\ pc' = "edit"
  /\ UNCHANGED << rxVars, rx_dropped, lineVars, byte, reported >>

(* mutant: the poll returns a command before it resets line_len *)
EndLineReturnsFirst ==
  /\ pc = "edit" /\ byte \in LineEnd
  /\ cmd' = IF line = << >> THEN NoCommand ELSE HandleLine(line)
  /\ pc' = IF cmd' = NoCommand THEN "test" ELSE "main"
  /\ line' = IF cmd' = NoCommand THEN << >> ELSE line
  /\ segment' = << >>
  /\ UNCHANGED << rxVars, rx_tail, rx_dropped, byte, last, reported >>

(* A line end: an empty line is swallowed, any other one is handed to      *)
(* handle_line(); a recognised command ends the poll with 1, whatever      *)
(* still waits in the ring.                                                *)
EndLine ==
  /\ pc = "edit" /\ byte \in LineEnd
  /\ cmd' = IF line = << >> THEN NoCommand ELSE HandleLine(line)
  /\ pc' = IF cmd' = NoCommand THEN "test" ELSE "main"
  /\ line' = << >>
  /\ segment' = << >>
  /\ UNCHANGED << rxVars, rx_tail, rx_dropped, byte, last, reported >>

(* mutant: no room is left for the NUL *)
EditNoRoom(ln, b) ==
  IF b \in Rubout THEN IF ln = << >> THEN ln ELSE SubSeq(ln, 1, Len(ln) - 1)
  ELSE IF b \notin Printable THEN ln
  ELSE IF Len(ln) < LINE_MAX THEN Append(ln, b)
  ELSE << >>

(* What any other byte does to the line. *)
Edit(ln, b) ==
  IF b \in Rubout THEN IF ln = << >> THEN ln ELSE SubSeq(ln, 1, Len(ln) - 1)
  ELSE IF b \notin Printable THEN ln
  ELSE IF Len(ln) < LINE_MAX - 1 THEN Append(ln, b)
  ELSE << >>                                 \* line too long, discarded

EditLine ==
  /\ pc = "edit" /\ byte \notin LineEnd
  /\ line' = Edit(line, byte)
  /\ segment' = Append(segment, byte)
  /\ pc' = "test"
  /\ UNCHANGED << rxVars, rx_tail, rx_dropped, byte, cmd, last, reported >>

Poll == \/ Enter \/ Report \/ Clear \/ Test \/ Fetch \/ Advance
        \/ EndLine \/ EditLine

Next == USART2_IRQHandler \/ Poll

Spec == Init /\ [][Next]_vars

(* The main loop calls uart_cmd_poll() on every tick and never blocks in   *)
(* it, so its steps are fair; the terminal owes nothing.                   *)
FairSpec == Spec /\ WF_vars(Poll)
-----------------------------------------------------------------------------
(* Type invariant. *)
TypeOK ==
  /\ rx_buf \in [0 .. RXBUF_SIZE - 1 -> 0 .. 255]
  /\ rx_head \in 0 .. RXBUF_SIZE - 1
  /\ rx_tail \in 0 .. RXBUF_SIZE - 1
  /\ rx_dropped \in 0 .. MaxLost
  /\ line \in Seq(Printable) /\ Len(line) < LINE_MAX
  /\ pc \in {"main", "report", "clear", "test", "fetch", "advance", "edit"}
  /\ byte \in 0 .. 255
  /\ typed \in 0 .. MaxTyped
  /\ segment \in Seq(0 .. 255)
  /\ lost \in 0 .. MaxLost
  /\ reported \in Nat

(* The ring with its unlocked indices behaves as an atomic bounded queue:  *)
(* the poll gets every stored byte once, in order and unchanged, however   *)
(* the interrupt falls between its accesses, and a byte is refused only    *)
(* when RXBUF_SIZE - 1 bytes wait (uart_cmd.c:18-27).                      *)
Fifo == INSTANCE ByteFifo WITH queue <- Queue, Capacity <- RXBUF_SIZE - 1
ImplementsFifo == Fifo!Spec

(* The user is never told of more losses than there were: a count printed  *)
(* is not printed again (uart_cmd.c:123-127).                              *)
NeverOverReports ==
  reported + (IF pc = "clear" THEN 0 ELSE rx_dropped) <= lost

(* Every loss is in the counter or has been reported.  This is what the    *)
(* declaration of rx_dropped, "bytes lost because the ring was full", and  *)
(* the message say; the unprotected reset after the message breaks it.     *)
LossesAccounted ==
  pc # "clear" => reported + rx_dropped = lost

(* Which of the bytes drained since the last line end are still on the     *)
(* line, independently of the editor: a printable byte is gone once the    *)
(* rubouts that follow it outnumber the printable bytes that follow it.    *)
Survivors(s) ==
  {i \in 1 .. Len(s) :
     /\ s[i] \in Printable
     /\ \A j \in i + 1 .. Len(s) :
          Cardinality({k \in i + 1 .. j : s[k] \in Rubout})
            <= Cardinality({k \in i + 1 .. j : s[k] \in Printable})}

Overlong(s) ==
  \E n \in 1 .. Len(s) : Cardinality(Survivors(SubSeq(s, 1, n))) >= LINE_MAX

(* The line is what the user sees after his rubouts, nothing of the line   *)
(* before it being left over, as long as it never outgrew line[]           *)
(* (uart_cmd.c:129-160).                                                   *)
LineIsTheEditedInput ==
  LET kept == Survivors(segment)
  IN  ~Overlong(segment) =>
        /\ Len(line) = Cardinality(kept)
        /\ \A i \in kept :
             line[Cardinality({j \in kept : j <= i})] = segment[i]

(* The poll goes on until the ring is empty or a command is complete, and  *)
(* the main loop calls it again: no stored byte waits for ever.            *)
BytesAreDrained ==
  \A i \in 0 .. RXBUF_SIZE - 1 :
    (rx_tail = i /\ rx_head # i) ~> rx_tail # i

(* A loss that was counted is reported sooner or later, provided that the *)
(* terminal pauses often enough for the polls to end: the inner loop has   *)
(* no other exit than an empty ring or a command.                          *)
PollsEnd == []<>(pc = "main")
LossesAreReported == PollsEnd => (rx_dropped # 0 ~> rx_dropped = 0)
=============================================================================
