------------------------------ MODULE MCRxThread -----------------------------
(* Model checking of RxThread: see README.md for the bounds.                 *)
EXTENDS RxThread
=============================================================================
