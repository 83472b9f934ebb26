-------------------------------- MODULE Word --------------------------------
(***************************************************************************)
(* uint32_t arithmetic: unsigned numbers modulo 2^w and their              *)
(* reinterpretation as int32_t.                                            *)
(***************************************************************************)
EXTENDS Integers

CONSTANT WordMod    \* 2^w, w the width of uint32_t on the target

ASSUME WordModAssumption == WordMod \in Nat \ {0} /\ WordMod % 2 = 0

Plus(a, b) == (a + b) % WordMod
Minus(a, b) == (a - b) % WordMod

(* (int32_t)v: reinterpretation in two's complement. *)
AsSigned(v) == IF v < WordMod \div 2 THEN v ELSE v - WordMod
=============================================================================
