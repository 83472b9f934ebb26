----------------------------- MODULE MCUartCmd ------------------------------
(***************************************************************************)
(* UartCmd with short keywords: "s" for start, "st" for stop, "tt" for     *)
(* status and "r" for rate, which keeps a keyword that is a prefix of      *)
(* another one; the source spells them start, stop, status and rate.       *)
(***************************************************************************)
EXTENDS UartCmd

MCKeyword ==
  [rate |-> <<114>>, start |-> <<115>>, stop |-> <<115, 116>>,
   status |-> <<116, 116>>]
=============================================================================
