------------------------------- MODULE MCRadio -------------------------------
(* Model checking of Radio.  Its state space is finite as it stands.         *)
EXTENDS Radio
=============================================================================
