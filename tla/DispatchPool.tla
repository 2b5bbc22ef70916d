---------------------------- MODULE DispatchPool ----------------------------
(***************************************************************************)
(* What the pending pool of one (tenant, program) promises, with no        *)
(* timers, locks, transactions or crashes: a demanded dispatch is pooled   *)
(* once, may be parked and released, may be withdrawn, and leaves in       *)
(* exactly one non-empty batch, announced in the step that forms it.       *)
(* Batching implements this specification.                                 *)
(***************************************************************************)
CONSTANT Asgns            \* dispatch ids (asgn_), one pool entry each

VARIABLES entry,          \* pool_status of each dispatch, "NONE" before it is pooled
          announced       \* the asgnIds of every batch fact emitted so far

vars == <<entry, announced>>

PoolStatus == {"NONE", "POOLED", "HELD", "BATCHED", "CANCELLED"}

TypeOK == /\ entry \in [Asgns -> PoolStatus]
          /\ announced \subseteq SUBSET Asgns

Init == /\ entry = [a \in Asgns |-> "NONE"]
        /\ announced = {}

Move(a, from, to) == /\ entry[a] \in from
                     /\ entry' = [entry EXCEPT ![a] = to]
                     /\ UNCHANGED announced

Accept(a)   == Move(a, {"NONE"}, "POOLED")
Park(a)     == Move(a, {"POOLED"}, "HELD")
Unpark(a)   == Move(a, {"HELD"}, "POOLED")
Withdraw(a) == Move(a, {"POOLED", "HELD"}, "CANCELLED")

Sweep(S) == /\ S # {}
            /\ \A a \in S : entry[a] = "POOLED"
            /\ entry' = [a \in Asgns |-> IF a \in S THEN "BATCHED" ELSE entry[a]]
            /\ announced' = announced \cup {S}

Next == \/ \E a \in Asgns : Accept(a) \/ Park(a) \/ Unpark(a) \/ Withdraw(a)
        \/ \E S \in SUBSET Asgns : Sweep(S)

Spec == Init /\ [][Next]_vars

(***************************************************************************)
(* Every batched dispatch is announced by exactly one batch fact, and a    *)
(* batch fact announces only batched dispatches.                           *)
(***************************************************************************)
AnnouncedOnce ==
    /\ \A a \in Asgns : entry[a] = "BATCHED" <=> \E S \in announced : a \in S
    /\ \A S, T \in announced : S # T => S \cap T = {}
=============================================================================
