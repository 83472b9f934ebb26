------------------------------ MODULE MCSdCard ------------------------------
(* SdCard on cards of a few blocks of two bytes. *)
EXTENDS SdCard
=============================================================================
