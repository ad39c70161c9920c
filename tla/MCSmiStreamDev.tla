--------------------------- MODULE MCSmiStreamDev ----------------------------
(* Model checking of SmiStreamDev: see README.md for the bounds.             *)
EXTENDS SmiStreamDev, TLC

(* The callers are interchangeable. *)
CallerSymmetry == Permutations(Callers)
=============================================================================
