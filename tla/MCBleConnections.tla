--------------------------- MODULE MCBleConnections ---------------------------
(* Values for the constants of BleConnections.                             *)
EXTENDS BleConnections, TLC

CONSTANTS p, q, u, c1, c2

(* The two peripherals offer the same service.                             *)
MCOffered           == p :> {u} @@ q :> {u}
MCCharacteristicsOf == u :> <<c1, c2>>
MCSymmetry          == Permutations({p, q})
=============================================================================
