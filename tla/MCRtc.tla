------------------------------- MODULE MCRtc -------------------------------
(* Rtc with days of two seconds. *)
EXTENDS Rtc
=============================================================================
