---------------------------- MODULE MCDamageCase ----------------------------
(***************************************************************************)
(* Instances of DamageCase: the original is with the courier when the      *)
(* behaviour starts.                                                       *)
(***************************************************************************)
EXTENDS DamageCase

OriginalShipped == {0}
None == {}
Both == {0, 1}
Child == {1}
Extremes == {"Open", "Cancelled"}
=============================================================================
