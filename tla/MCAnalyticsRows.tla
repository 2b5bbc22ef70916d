-------------------------- MODULE MCAnalyticsRows --------------------------
(***************************************************************************)
(* The life of a legacy dispatch d and of a collateral leg c: d's device   *)
(* travels in s1, the collateral of both in s2; d is activated,            *)
(* deactivated and replaced by r.                                          *)
(***************************************************************************)
EXTENDS AnalyticsRows, TLC

CONSTANTS d, c, r, s1, s2

MCGroup == [a \in {d, c, r} |-> IF a = c THEN "COLLATERAL" ELSE "LEGACY"]

Symmetry == Permutations(Ingesters)

Said(topic, at) == [topic |-> topic, at |-> at, asgn |-> None, replaced |-> None, asgns |-> {},
                    shpt |-> None, status |-> None, collateral |-> FALSE]
Of(topic, at, a) == [Said(topic, at) EXCEPT !.asgn = a]
Courier(at, s, status) == [Said("SHIPMENT", at) EXCEPT !.shpt = s, !.status = status]
Collateral(at, s, status, as) == [Courier(at, s, status) EXCEPT !.collateral = TRUE, !.asgns = as]

Apart == {
    Of("ASSIGNMENT", 1, d), Of("ASSIGNMENT", 2, c),
    [Of("PRINT_FOR", 3, d) EXCEPT !.shpt = s1],
    Courier(4, s1, "DISPATCHED_BY_VENDOR"),
    Collateral(5, s2, "DISPATCHED_BY_VENDOR", {c, d}),
    Of("ACTIVATED", 6, d),
    Courier(7, s1, "DELIVERED"),
    Of("DEACTIVATED", 8, d),
    [Of("REPLACEMENT", 9, r) EXCEPT !.replaced = d]}
=============================================================================
