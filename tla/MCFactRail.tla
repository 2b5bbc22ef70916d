----------------------------- MODULE MCFactRail -----------------------------
(***************************************************************************)
(* Instances of FactRail: the fulfillment dispatch topic and the two       *)
(* processes of the group tms.                                             *)
(***************************************************************************)
EXTENDS FactRail

CONSTANTS tms, t1, t2

TwoOfTms == [m \in {t1, t2} |-> tms]
=============================================================================
