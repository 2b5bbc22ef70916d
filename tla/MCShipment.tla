----------------------------- MODULE MCShipment -----------------------------
(***************************************************************************)
(* Instances of Shipment: a parcel that is delivered at the second attempt *)
(* and one that comes back, and the devices it carries.                    *)
(***************************************************************************)
EXTENDS Shipment

CONSTANTS u1, u2

SecondAttempt == [t \in Times |->
    CASE t = 1 -> "IN_TRANSIT" [] t = 2 -> "FAILED" [] t = 3 -> "DELIVERED" [] OTHER -> None]
ComesBack == [t \in Times |->
    CASE t = 2 -> "OUT_FOR_DELIVERY" [] t = 3 -> "RETURNED" [] OTHER -> None]
MCJourneys == {SecondAttempt, ComesBack}
=============================================================================
