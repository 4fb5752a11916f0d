---------------------- MODULE MCInterruptRegistrations ----------------------
(* InterruptRegistrations for TLC: the bluenet events are alike.           *)
EXTENDS InterruptRegistrations, TLC

Symmetry == Permutations(BluenetTypes)
=============================================================================
