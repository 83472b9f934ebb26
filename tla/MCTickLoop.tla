----------------------------- MODULE MCTickLoop -----------------------------
(* TickLoop with a second of a few milliseconds and rates around its range. *)
EXTENDS TickLoop
MCRateArg == -1 .. RATE_HZ_MAX + 1
=============================================================================
