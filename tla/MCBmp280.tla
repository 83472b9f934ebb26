------------------------------ MODULE MCBmp280 ------------------------------
(* Bmp280 with a short calibration block. *)
EXTENDS Bmp280
=============================================================================
