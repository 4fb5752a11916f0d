---------------------------- MODULE MCMicroappIpc ----------------------------
(* Instances of MicroappIpc for TLC.                                       *)
EXTENDS MicroappIpc, TLC

(* Requests are only ever compared: any two are interchangeable.           *)
Symmetry == Permutations(Requests)
=============================================================================
