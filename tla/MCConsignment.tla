--------------------------- MODULE MCConsignment ---------------------------
(* Small instances of Consignment. *)
EXTENDS Consignment, TLC

CONSTANTS d1, d2, d3, u1, u2, a1, a2, f1, f2

MCGroup == (d1 :> "SOUNDBOX") @@ (d2 :> "COLLATERAL") @@ (d3 :> "COMBINED")
MCSymmetry == Permutations({u1, u2}) \cup Permutations({a1, a2}) \cup Permutations({f1, f2})
=============================================================================
