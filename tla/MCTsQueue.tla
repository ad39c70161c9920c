------------------------------ MODULE MCTsQueue ------------------------------
(* Model checking of TsQueue: see README.md for the bounds.                  *)
EXTENDS TsQueue
=============================================================================
