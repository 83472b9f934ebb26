------------------------------ MODULE ByteFifo ------------------------------
(***************************************************************************)
(* What the receive side of the command line promises: a bounded queue of  *)
(* bytes that loses the newest byte when it is full, counts each loss, and *)
(* hands over the others once each and in the order they arrived.          *)
(***************************************************************************)
EXTENDS Naturals, Sequences

CONSTANTS
  Byte,       \* the bytes a terminal can send
  Capacity    \* how many bytes wait at most

VARIABLES
  queue,      \* bytes received and not yet taken, oldest first
  last,       \* the byte taken last, <<>> before the first one
  lost        \* how many bytes were refused because the queue was full

vars == << queue, last, lost >>

Init ==
  /\ queue = << >>
  /\ last = << >>
  /\ lost = 0

Receive(b) ==
  /\ Len(queue) < Capacity
  /\ queue' = Append(queue, b)
  /\ UNCHANGED << last, lost >>

Refuse ==
  /\ Len(queue) = Capacity
  /\ lost' = lost + 1
  /\ UNCHANGED << queue, last >>

Take ==
  /\ queue # << >>
  /\ last' = << Head(queue) >>
  /\ queue' = Tail(queue)
  /\ UNCHANGED lost

Next ==
  \/ \E b \in Byte : Receive(b)
  \/ Refuse
  \/ Take

Spec == Init /\ [][Next]_vars
=============================================================================
