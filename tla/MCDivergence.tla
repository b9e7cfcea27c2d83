---------------------------- MODULE MCDivergence ----------------------------
(* Instances of DivergenceDialog for TLC: all constants are model values.   *)
EXTENDS DivergenceDialog, TLC
=============================================================================
