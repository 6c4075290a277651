----------------------------- MODULE MCLineWindow -----------------------------
(* Texts of one to four lines of up to two characters, and an int of four  *)
(* bits.                                                                   *)
EXTENDS LineWindow

MCLineTexts == UNION {[1..n -> 0..2] : n \in 1..4}
==============================================================================
