--------------------------- MODULE MCFpgaStream ----------------------------
(* FpgaStream with a fifo of four slots, of which three are used, and half     *)
(* frames of two clocks: see README.md for the bounds.                         *)
EXTENDS FpgaStream
=============================================================================
