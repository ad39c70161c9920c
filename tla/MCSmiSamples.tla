---------------------------- MODULE MCSmiSamples -----------------------------
(* Model checking of SmiSamples: see README.md for the bounds.               *)
EXTENDS SmiSamples
=============================================================================
