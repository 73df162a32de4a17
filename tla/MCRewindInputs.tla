--------------------------- MODULE MCRewindInputs ---------------------------
(* Instance of RewindInputs for TLC: instructions of two half-clocks and     *)
(* frames of three, so that a frame begins in the middle of an instruction   *)
(* as often as not, and raw spans of three.                                  *)
EXTENDS RewindInputs
=============================================================================
