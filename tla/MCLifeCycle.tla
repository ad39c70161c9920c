---------------------------- MODULE MCLifeCycle ----------------------------
(* LifeCycle with the four chips of a full board: five faults fail the three   *)
(* attempts to configure the FPGA and two stages more.                         *)
EXTENDS LifeCycle
=============================================================================
