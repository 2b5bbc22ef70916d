----------------------------- MODULE DamageCase -----------------------------
(***************************************************************************)
(* A damage case across the two contexts that keep it: services/tms owns   *)
(* the case, the demand state and the activation (flag-damage.ts,          *)
(* damage-case.ts, assignment.ts, ops.ts); services/fulfillment owns the   *)
(* pool entry, the parcel and the device (unit-lifecycle.ts, courier-      *)
(* status.ts).  Neither reads the other's tables: each decision travels as *)
(* a fact, through the outbox and the bus, at least once and, across       *)
(* topics and the retry ladder, in any order.                              *)
(*                                                                         *)
(* Dispatch 0 is an original; the replacement of dispatch d is d + 1, the  *)
(* only one it can ever have.  A transaction that reads and writes under   *)
(* row locks is one action; cancelReplacementOps, whose read is not        *)
(* locked, is two.                                                         *)
(***************************************************************************)
EXTENDS Naturals

CONSTANTS
    Depth,        \* length of the longest replacement chain
    Groups,       \* dispatch_group of the chain: its possible values
    Shipped,      \* dispatches that have left with the courier initially
    InOrder,      \* whether facts about one dispatch are consumed in the order published
    Holdable,     \* dispatches an operator holds and releases
    Toggleable,   \* dispatches an operator activates and deactivates
    Overridable,  \* dispatches whose parcel an operator overrides
    EditTo,       \* case statuses an operator sets by hand
    MaxToggles,   \* bound on the activations of one dispatch
    MaxEdits,     \* bound on updateDamageCaseStatusOps
    MaxOverrides  \* bound on overrideTerminal, per dispatch

Dispatch == 0..Depth
Replacement == 1..Depth

ASSUME ConstantsAssumption ==
    /\ Depth \in Nat \ {0}
    /\ Groups \subseteq {"SOUNDBOX", "COLLATERAL"}
    /\ Shipped \subseteq {0}
    /\ InOrder \in BOOLEAN
    /\ Holdable \subseteq Dispatch /\ Toggleable \subseteq Dispatch
    /\ Overridable \subseteq Dispatch
    /\ EditTo \subseteq {"Open", "In-Progress", "Closed", "Cancelled"}
    /\ MaxToggles \in Nat /\ MaxEdits \in Nat /\ MaxOverrides \in Nat

VARIABLES
    case,       \* assignment.case_status, "none" for an original
    demand,     \* assignment.demand_state, "none" before the row exists
    activated,  \* assignment.activated_at IS NOT NULL
    delivered,  \* assignment.delivered_at IS NOT NULL
    cancelling, \* cancel requests that have read 'Open' and not yet written
    toggles,    \* activations of each dispatch so far
    edits,      \* operator edits of a case so far
    facts,      \* facts published, in either direction
    inbox,      \* facts consumed (the inbox rows of both contexts)
    pool,       \* pending_pool_entry.pool_status, "NONE" when there is no row
    stage,      \* pending_pool_entry.dispatch_state, "none" for NULL
    group,      \* dispatch_group of the original, which its replacements inherit
    parcel,     \* shpt.status, "none" before the return sheet
    overrides,  \* terminal overrides of each parcel so far
    unit,       \* unit.status of the paired device, "none" before it is paired
    prior,      \* the last non-terminal status on that device's trail, by occurred_at
    live,       \* unit.activated_at IS NOT NULL
    late        \* history: dispatches paired after their replacement was raised

tmsVars == <<case, demand, activated, delivered, cancelling, toggles, edits>>
poolVars == <<pool, stage>>
parcelVars == <<group, parcel, overrides, late>>
unitVars == <<unit, prior, live>>
vars == <<tmsVars, facts, inbox, poolVars, parcelVars, unitVars>>

-----------------------------------------------------------------------------
CaseStatus == {"Open", "In-Progress", "Closed", "Cancelled"}
DemandState == {"pooled-for-fulfillment", "activated", "replacement-raised", "closed"}
UnitStatus == {"DISPATCHED", "DELIVERED"}   \* the rungs a paired device can be on
UnitTerminal == {"DAMAGED", "RETURNED"}

(* n numbers the facts of one kind about one dispatch.                     *)
DispatchKinds == {"QR_GENERATED", "SENT_TO_VENDOR", "DISPATCHED_BY_VENDOR"}
Kinds == {"demand", "raised", "cancelled", "activated", "deactivated", "batch", "DELIVERED"}
            \cup DispatchKinds
Fact(k, d, n) == [kind |-> k, of |-> d, n |-> n]
Facts == [kind : Kinds, of : Dispatch, n : Nat]

TypeOK ==
    /\ case \in [Dispatch -> CaseStatus \cup {"none"}]
    /\ demand \in [Dispatch -> DemandState \cup {"none"}]
    /\ activated \in [Dispatch -> BOOLEAN]
    /\ delivered \in [Dispatch -> BOOLEAN]
    /\ cancelling \subseteq Replacement
    /\ toggles \in [Dispatch -> 0..MaxToggles]
    /\ edits \in 0..MaxEdits
    /\ facts \subseteq Facts
    /\ inbox \subseteq facts
    /\ pool \in [Dispatch -> {"NONE", "POOLED", "HELD", "BATCHED", "CANCELLED"}]
    /\ stage \in [Dispatch -> DispatchKinds \cup {"none"}]
    /\ group \in Groups
    /\ parcel \in [Dispatch -> {"none", "DISPATCHED_BY_VENDOR", "DELIVERED", "RETURNED"}]
    /\ overrides \in [Dispatch -> 0..MaxOverrides]
    /\ unit \in [Dispatch -> UnitStatus \cup UnitTerminal \cup {"none"}]
    /\ prior \in [Dispatch -> UnitStatus \cup {"none"}]
    /\ live \in [Dispatch -> BOOLEAN]
    /\ late \subseteq Dispatch

(***************************************************************************)
(* The original's demand fact is out; when Shipped, everything up to its   *)
(* handover to the courier has been consumed.                              *)
(***************************************************************************)
Left(d) == d \in Shipped
Init ==
    /\ case = [d \in Dispatch |-> "none"]
    /\ demand = [d \in Dispatch |-> IF d = 0 THEN "pooled-for-fulfillment" ELSE "none"]
    /\ activated = [d \in Dispatch |-> FALSE]
    /\ delivered = [d \in Dispatch |-> FALSE]
    /\ cancelling = {}
    /\ toggles = [d \in Dispatch |-> 0]
    /\ edits = 0
    /\ facts = {Fact("demand", 0, 0)}
    /\ inbox = {Fact("demand", d, 0) : d \in Shipped}
    /\ pool = [d \in Dispatch |-> IF Left(d) THEN "BATCHED" ELSE "NONE"]
    /\ stage = [d \in Dispatch |-> IF Left(d) THEN "DISPATCHED_BY_VENDOR" ELSE "none"]
    /\ group \in Groups
    /\ parcel = [d \in Dispatch |-> IF Left(d) THEN "DISPATCHED_BY_VENDOR" ELSE "none"]
    /\ overrides = [d \in Dispatch |-> 0]
    /\ unit = [d \in Dispatch |-> IF Left(d) /\ group = "SOUNDBOX" THEN "DISPATCHED" ELSE "none"]
    /\ prior = unit
    /\ live = [d \in Dispatch |-> FALSE]
    /\ late = {}

-----------------------------------------------------------------------------
Minted(d) == demand[d] # "none"
Publish(S) == facts' = facts \cup S

(* advanceCaseStatusWithinTx: which cases a fact may move to the target.   *)
Behind_Fault(target) == {"Open", "In-Progress", "Closed", "Cancelled"} \ {target}
Behind(target) == CASE target = "In-Progress" -> {"Open"}
                    [] target = "Closed"      -> {"Open", "In-Progress"}
Advance(d, target) == IF d \in Replacement /\ case[d] \in Behind(target)
                        THEN case' = [case EXCEPT ![d] = target]
                        ELSE UNCHANGED case

-----------------------------------------------------------------------------
(* Requests of operators to tms.                                           *)

(***************************************************************************)
(* flagDamageOps: any dispatch without a replacement, whatever its own     *)
(* state, gets one.  Two facts leave: the linkage and the child's demand.  *)
(***************************************************************************)
FlagDamage(d) ==
    /\ Minted(d)
    /\ d + 1 \in Dispatch /\ ~Minted(d + 1)
    /\ case' = [case EXCEPT ![d + 1] = "Open"]
    /\ demand' = [demand EXCEPT ![d + 1] = "pooled-for-fulfillment",
                                ![d] = "replacement-raised"]
    /\ Publish({Fact("raised", d + 1, 0), Fact("demand", d + 1, 0)})
    /\ UNCHANGED <<activated, delivered, cancelling, toggles, edits, inbox,
                   poolVars, parcelVars, unitVars>>

(* The read of cancelReplacementOps, which takes no lock.                  *)
CancelRead(d) ==
    /\ case[d] = "Open"
    /\ cancelling' = cancelling \cup {d}
    /\ UNCHANGED <<case, demand, activated, delivered, toggles, edits, facts, inbox,
                   poolVars, parcelVars, unitVars>>

(* Before 22 Aug 2026: an activated parent landed on pooled.               *)
CancelWrite_Fault(d) ==
    /\ d \in cancelling
    /\ cancelling' = cancelling \ {d}
    /\ IF case[d] = "Cancelled"
         THEN UNCHANGED <<case, demand, facts>>
         ELSE /\ case' = [case EXCEPT ![d] = "Cancelled"]
              /\ demand' = [demand EXCEPT ![d] = "closed",
                     ![d - 1] = IF @ = "replacement-raised" THEN "pooled-for-fulfillment" ELSE @]
              /\ Publish({Fact("cancelled", d, 0)})
    /\ UNCHANGED <<activated, delivered, toggles, edits, inbox, poolVars, parcelVars, unitVars>>

(***************************************************************************)
(* Its write: the UPDATE refuses only a case already Cancelled, whatever   *)
(* has happened to it since the read.  The parent gets back the demand     *)
(* state its activation implies.                                           *)
(***************************************************************************)
CancelWrite(d) ==
    /\ d \in cancelling
    /\ cancelling' = cancelling \ {d}
    /\ IF case[d] = "Cancelled"
         THEN UNCHANGED <<case, demand, facts>>
         ELSE /\ case' = [case EXCEPT ![d] = "Cancelled"]
              /\ demand' = [demand EXCEPT ![d] = "closed",
                     ![d - 1] = IF @ # "replacement-raised" THEN @
                                ELSE IF activated[d - 1] THEN "activated"
                                ELSE "pooled-for-fulfillment"]
              /\ Publish({Fact("cancelled", d, 0)})
    /\ UNCHANGED <<activated, delivered, toggles, edits, inbox, poolVars, parcelVars, unitVars>>

(***************************************************************************)
(* activateAssignmentOps on a dispatch that is not active: the second half *)
(* of a delivered replacement closes its case.  The edge refuses a         *)
(* COLLATERAL leg.                                                         *)
(***************************************************************************)
Activate(d) ==
    /\ Minted(d) /\ group = "SOUNDBOX" /\ d \in Toggleable
    /\ ~activated[d] /\ toggles[d] < MaxToggles
    /\ activated' = [activated EXCEPT ![d] = TRUE]
    /\ toggles' = [toggles EXCEPT ![d] = @ + 1]
    /\ demand' = [demand EXCEPT ![d] = "activated"]
    /\ IF delivered[d] THEN Advance(d, "Closed") ELSE UNCHANGED case
    /\ Publish({Fact("activated", d, toggles[d])})
    /\ UNCHANGED <<delivered, cancelling, edits, inbox, poolVars, parcelVars, unitVars>>

(* deactivateAssignmentOps: demand_state stays as it is.                   *)
Deactivate(d) ==
    /\ activated[d]
    /\ activated' = [activated EXCEPT ![d] = FALSE]
    /\ Publish({Fact("deactivated", d, toggles[d] - 1)})
    /\ UNCHANGED <<case, demand, delivered, cancelling, toggles, edits, inbox,
                   poolVars, parcelVars, unitVars>>

(* updateDamageCaseStatusOps: any status, from any status, no fact.        *)
UpdateCase(d) ==
    /\ d \in Replacement /\ Minted(d)
    /\ edits < MaxEdits
    /\ \E s \in EditTo : case' = [case EXCEPT ![d] = s]
    /\ edits' = edits + 1
    /\ UNCHANGED <<demand, activated, delivered, cancelling, toggles, facts, inbox,
                   poolVars, parcelVars, unitVars>>

-----------------------------------------------------------------------------
(* The work of fulfillment, vendor and courier.                            *)

Hold(d) ==
    /\ d \in Holdable
    /\ \/ pool[d] = "POOLED" /\ pool' = [pool EXCEPT ![d] = "HELD"]
       \/ pool[d] = "HELD" /\ pool' = [pool EXCEPT ![d] = "POOLED"]
    /\ UNCHANGED <<tmsVars, facts, inbox, stage, parcelVars, unitVars>>

(* One dispatch's part in a batch; module Batching has the rest.           *)
FormBatch(d) ==
    /\ pool[d] = "POOLED"
    /\ pool' = [pool EXCEPT ![d] = "BATCHED"]
    /\ Publish({Fact("batch", d, 0)})
    /\ UNCHANGED <<tmsVars, inbox, stage, parcelVars, unitVars>>

SendToVendor(d) ==
    /\ stage[d] = "QR_GENERATED"
    /\ stage' = [stage EXCEPT ![d] = "SENT_TO_VENDOR"]
    /\ Publish({Fact("SENT_TO_VENDOR", d, 0)})
    /\ UNCHANGED <<tmsVars, inbox, pool, parcelVars, unitVars>>

(***************************************************************************)
(* A row of a return sheet: a batched dispatch without a device gets one,  *)
(* and its consignment is born.  The dispatch advances only from           *)
(* SENT_TO_VENDOR; the sheet may come earlier.                             *)
(***************************************************************************)
ReturnSheet(d) ==
    /\ pool[d] = "BATCHED" /\ parcel[d] = "none"
    /\ parcel' = [parcel EXCEPT ![d] = "DISPATCHED_BY_VENDOR"]
    /\ IF group = "SOUNDBOX"
         THEN /\ unit' = [unit EXCEPT ![d] = "DISPATCHED"]
              /\ prior' = [prior EXCEPT ![d] = "DISPATCHED"]
         ELSE UNCHANGED <<unit, prior>>
    /\ IF stage[d] = "SENT_TO_VENDOR"
         THEN /\ stage' = [stage EXCEPT ![d] = "DISPATCHED_BY_VENDOR"]
              /\ Publish({Fact("DISPATCHED_BY_VENDOR", d, 0)})
         ELSE UNCHANGED <<stage, facts>>
    /\ late' = IF d + 1 \in Dispatch /\ Minted(d + 1) THEN late \cup {d} ELSE late
    /\ UNCHANGED <<tmsVars, inbox, pool, group, overrides, live>>

(* The device follows the parcel, terminal branches or not.                *)
CourierReports_Fault(d) ==
    /\ parcel[d] = "DISPATCHED_BY_VENDOR"
    /\ \E s \in {"DELIVERED", "RETURNED"} :
          /\ parcel' = [parcel EXCEPT ![d] = s]
          /\ unit' = [unit EXCEPT ![d] = IF @ = "none" THEN @ ELSE s]
          /\ UNCHANGED prior
          /\ IF s = "DELIVERED" THEN Publish({Fact("DELIVERED", d, 0)}) ELSE UNCHANGED facts
    /\ UNCHANGED <<tmsVars, inbox, poolVars, group, overrides, late, live>>

(***************************************************************************)
(* advanceShipmentStatus at a status a device follows: the paired device   *)
(* goes with the parcel unless it is on a terminal branch, and the fact of *)
(* a delivery names the legs inside.  Only DELIVERED reaches tms.  The     *)
(* trail is in the order of the reported times: a courier's may lie before *)
(* that of a return sheet, which is the time the sheet was read.           *)
(***************************************************************************)
CourierReports(d) ==
    /\ parcel[d] = "DISPATCHED_BY_VENDOR"
    /\ \E s \in {"DELIVERED", "RETURNED"} :
          /\ parcel' = [parcel EXCEPT ![d] = s]
          /\ IF unit[d] \in UnitStatus
               THEN /\ unit' = [unit EXCEPT ![d] = s]
                    /\ \/ s = "DELIVERED" /\ prior' = [prior EXCEPT ![d] = s]
                       \/ UNCHANGED prior
               ELSE UNCHANGED <<unit, prior>>
          /\ IF s = "DELIVERED" THEN Publish({Fact("DELIVERED", d, 0)}) ELSE UNCHANGED facts
    /\ UNCHANGED <<tmsVars, inbox, poolVars, group, overrides, late, live>>

(***************************************************************************)
(* overrideTerminal: no guard, no device moved, and a fact that names the  *)
(* collateral legs but never the soundbox ones.                            *)
(***************************************************************************)
OverrideTerminal(d) ==
    /\ d \in Overridable
    /\ parcel[d] # "none" /\ overrides[d] < MaxOverrides
    /\ overrides' = [overrides EXCEPT ![d] = @ + 1]
    /\ \E s \in {"DELIVERED", "RETURNED"} :
          /\ parcel' = [parcel EXCEPT ![d] = s]
          /\ IF s = "DELIVERED" /\ group = "COLLATERAL"
               THEN Publish({Fact("DELIVERED", d, overrides'[d])})
               ELSE UNCHANGED facts
    /\ UNCHANGED <<tmsVars, inbox, poolVars, group, late, unitVars>>

-----------------------------------------------------------------------------
(***************************************************************************)
(* Consuming facts.  A handler's effect and its inbox row commit together, *)
(* so a fact already in the inbox does nothing when it comes again.        *)
(***************************************************************************)
Before(f, g) ==
    /\ f.of = g.of
    /\ \/ g.kind = "cancelled" /\ f.kind \in {"demand", "raised"}
       \/ /\ f.kind \in {"activated", "deactivated"} /\ g.kind \in {"activated", "deactivated"}
          /\ f.n < g.n \/ (f.n = g.n /\ f.kind = "activated" /\ g.kind = "deactivated")

Deliverable(f) == /\ f \in facts \ inbox
                  /\ InOrder => \A g \in facts \ inbox : ~Before(g, f)

Consume(f) == Deliverable(f) /\ inbox' = inbox \cup {f}

(* projectDemandFact: an entry is pooled once.                             *)
ProjectDemand(f) ==
    /\ f.kind = "demand" /\ Consume(f)
    /\ pool' = [pool EXCEPT ![f.of] = IF @ = "NONE" THEN "POOLED" ELSE @]
    /\ UNCHANGED <<tmsVars, facts, stage, parcelVars, unitVars>>

(* consumeBatchFact: the artwork is composed and tms is told.              *)
ConsumeBatch(f) ==
    /\ f.kind = "batch" /\ Consume(f)
    /\ stage' = [stage EXCEPT ![f.of] = IF @ = "none" THEN "QR_GENERATED" ELSE @]
    /\ Publish({Fact("QR_GENERATED", f.of, 0)})
    /\ UNCHANGED <<tmsVars, pool, parcelVars, unitVars>>

(* REVIEW_REPORT.md F4: the write-off aimed at the child.                  *)
ProjectReplacement_Fault(f) ==
    /\ f.kind = "raised" /\ Consume(f)
    /\ unit' = [unit EXCEPT ![f.of] = IF @ \in UnitStatus THEN "DAMAGED" ELSE @]
    /\ UNCHANGED <<tmsVars, facts, poolVars, parcelVars, prior, live>>

(* projectReplacementToUnits: the parent's device is written off.          *)
ProjectReplacement(f) ==
    /\ f.kind = "raised" /\ Consume(f)
    /\ unit' = [unit EXCEPT ![f.of - 1] = IF @ \in UnitStatus THEN "DAMAGED" ELSE @]
    /\ UNCHANGED <<tmsVars, facts, poolVars, parcelVars, prior, live>>

(* Withdrawing what is POOLED only.                                        *)
ProjectCancelled_Fault(f) ==
    /\ f.kind = "cancelled" /\ Consume(f)
    /\ unit' = [unit EXCEPT ![f.of - 1] = IF @ = "DAMAGED" THEN prior[f.of - 1] ELSE @]
    /\ pool' = [pool EXCEPT ![f.of] = IF @ = "POOLED" THEN "CANCELLED" ELSE @]
    /\ UNCHANGED <<tmsVars, facts, stage, parcelVars, prior, live>>

(***************************************************************************)
(* projectReplacementCancelledToUnits: the parent's device goes back to    *)
(* the last status on its trail and the child's entry leaves the pool,     *)
(* unless it is already in a batch or not there yet.                       *)
(***************************************************************************)
ProjectCancelled(f) ==
    /\ f.kind = "cancelled" /\ Consume(f)
    /\ unit' = [unit EXCEPT ![f.of - 1] = IF @ = "DAMAGED" THEN prior[f.of - 1] ELSE @]
    /\ pool' = [pool EXCEPT ![f.of] = IF @ \in {"POOLED", "HELD"} THEN "CANCELLED" ELSE @]
    /\ UNCHANGED <<tmsVars, facts, stage, parcelVars, prior, live>>

(* projectActivationToUnits: not a device that is written off or not yet   *)
(* paired.                                                                 *)
ProjectActivation(f) ==
    /\ f.kind = "activated" /\ Consume(f)
    /\ live' = [live EXCEPT ![f.of] = @ \/ unit[f.of] \in UnitStatus]
    /\ UNCHANGED <<tmsVars, facts, poolVars, parcelVars, unit, prior>>

(* The terminal guard of the activation copied to its inverse.             *)
ProjectDeactivation_Fault(f) ==
    /\ f.kind = "deactivated" /\ Consume(f)
    /\ live' = [live EXCEPT ![f.of] = @ /\ unit[f.of] \in UnitTerminal]
    /\ UNCHANGED <<tmsVars, facts, poolVars, parcelVars, unit, prior>>

(* projectDeactivationToUnits, with no terminal guard.                     *)
ProjectDeactivation(f) ==
    /\ f.kind = "deactivated" /\ Consume(f)
    /\ live' = [live EXCEPT ![f.of] = FALSE]
    /\ UNCHANGED <<tmsVars, facts, poolVars, parcelVars, unit, prior>>

(* Before 21 Aug 2026: artwork was not progress.                           *)
ProjectDispatch_Fault(f) ==
    /\ f.kind \in DispatchKinds /\ Consume(f)
    /\ IF f.kind = "QR_GENERATED" THEN UNCHANGED case ELSE Advance(f.of, "In-Progress")
    /\ UNCHANGED <<demand, activated, delivered, cancelling, toggles, edits, facts,
                   poolVars, parcelVars, unitVars>>

(* projectDispatchToCases.                                                 *)
ProjectDispatch(f) ==
    /\ f.kind \in DispatchKinds /\ Consume(f)
    /\ Advance(f.of, "In-Progress")
    /\ UNCHANGED <<demand, activated, delivered, cancelling, toggles, edits, facts,
                   poolVars, parcelVars, unitVars>>

(* Delivery recorded, the close left to the activation.                    *)
ProjectShipment_Fault(f) ==
    /\ f.kind = "DELIVERED" /\ Consume(f)
    /\ delivered' = [delivered EXCEPT ![f.of] = @ \/ group = "SOUNDBOX"]
    /\ IF group = "COLLATERAL" THEN Advance(f.of, "Closed") ELSE UNCHANGED case
    /\ UNCHANGED <<demand, activated, cancelling, toggles, edits, facts,
                   poolVars, parcelVars, unitVars>>

(***************************************************************************)
(* projectShipmentToCases: a COLLATERAL case closes on delivery, a         *)
(* SOUNDBOX one when it is activated as well.                              *)
(***************************************************************************)
ProjectShipment(f) ==
    /\ f.kind = "DELIVERED" /\ Consume(f)
    /\ delivered' = [delivered EXCEPT ![f.of] = @ \/ group = "SOUNDBOX"]
    /\ IF group = "COLLATERAL" \/ activated[f.of]
         THEN Advance(f.of, "Closed") ELSE UNCHANGED case
    /\ UNCHANGED <<demand, activated, cancelling, toggles, edits, facts,
                   poolVars, parcelVars, unitVars>>

Handle(f) ==
    \/ ProjectDemand(f) \/ ConsumeBatch(f)
    \/ ProjectReplacement(f) \/ ProjectCancelled(f)
    \/ ProjectActivation(f) \/ ProjectDeactivation(f)
    \/ ProjectDispatch(f) \/ ProjectShipment(f)

-----------------------------------------------------------------------------
Request(d) ==
    \/ FlagDamage(d) \/ CancelRead(d) \/ CancelWrite(d)
    \/ Activate(d) \/ Deactivate(d) \/ UpdateCase(d)
Work(d) ==
    \/ Hold(d) \/ FormBatch(d) \/ SendToVendor(d) \/ ReturnSheet(d)
    \/ CourierReports(d) \/ OverrideTerminal(d)

Next == \/ \E d \in Dispatch : Request(d) \/ Work(d)
        \/ \E f \in facts : Handle(f)

Spec == Init /\ [][Next]_vars

(***************************************************************************)
(* The relay and the consumers run for ever, so a committed fact is        *)
(* eventually consumed; operators, vendor and courier owe nothing.         *)
(***************************************************************************)
FairSpec == Spec /\ WF_vars(\E f \in facts : Handle(f))

-----------------------------------------------------------------------------
(***************************************************************************)
(* What the two contexts promise.  Settled states are those in which every *)
(* published fact has been consumed.                                       *)
(***************************************************************************)
Settled == facts = inbox
Unedited == edits = 0
Withdrawn(d) == case[d] = "Cancelled"

(***************************************************************************)
(* "A case moves forward and never back on its own" (damage-case.ts:60):   *)
(* whatever facts arrive late, again or out of order, only an operator's   *)
(* edit moves a case back or revives a cancelled one.                      *)
(***************************************************************************)
Forward(from, to) == \/ from = "none" /\ to = "Open"
                     \/ from = "Open" /\ to \in {"In-Progress", "Closed"}
                     \/ from = "In-Progress" /\ to = "Closed"
                     \/ from # "none" /\ to = "Cancelled"
CaseMovesForward ==
    [][edits' = edits =>
          \A d \in Dispatch : case'[d] # case[d] => Forward(case[d], case'[d])]_vars

(***************************************************************************)
(* The two halves of a soundbox replacement come from different parties in *)
(* either order (damage-case.ts:280): once tms has recorded both, the case *)
(* is closed, or was cancelled.                                            *)
(***************************************************************************)
BothHalvesClose ==
    Unedited => \A d \in Replacement :
        delivered[d] /\ activated[d] => case[d] \in {"Closed", "Cancelled"}

(***************************************************************************)
(* demand_state never contradicts activated_at across flags and cancels,   *)
(* except while a replacement exists (flag-damage.ts:543): an activated    *)
(* dispatch reads 'activated', and one reads 'replacement-raised' only     *)
(* while its replacement has not been cancelled.                           *)
(***************************************************************************)
DemandMatchesActivation ==
    Unedited => \A d \in Dispatch :
        /\ activated[d] /\ ~Withdrawn(d) => demand[d] \in {"activated", "replacement-raised"}
        /\ demand[d] = "replacement-raised" => d + 1 \in Dispatch /\ case[d + 1] \notin {"none", "Cancelled"}

(***************************************************************************)
(* "An Open case IS an un-batched replacement" (flag-damage.ts:435), once  *)
(* the news has arrived.                                                   *)
(***************************************************************************)
OpenIsUnbatched ==
    Settled /\ Unedited => \A d \in Replacement : case[d] = "Open" => pool[d] # "BATCHED"

(***************************************************************************)
(* A cancelled flag is undone everywhere (flag-damage.ts:423): once the    *)
(* facts have been consumed the replacement waits in no pool and the       *)
(* parent's device is no longer written off.                               *)
(***************************************************************************)
CancelUndoesFlag ==
    Settled /\ Unedited => \A d \in Replacement : Withdrawn(d) =>
        pool[d] \notin {"POOLED", "HELD"} /\ unit[d - 1] # "DAMAGED"

(***************************************************************************)
(* A written-off device comes back only because its flag was withdrawn     *)
(* (unit-lifecycle.ts:403): no late delivery, return or activation revives *)
(* it.                                                                     *)
(***************************************************************************)
RevivedOnlyByWithdrawal ==
    [][edits' = 0 => \A d \in Dispatch : unit[d] = "DAMAGED" /\ unit'[d] # "DAMAGED" =>
          d + 1 \in Dispatch /\ Withdrawn(d + 1)]_vars

(***************************************************************************)
(* "A damage was flagged, so the device it replaces is written off"        *)
(* (unit-lifecycle.ts:362), if there was a device by then: the linkage     *)
(* finds none to write off when the return sheet comes later.              *)
(***************************************************************************)
ReplacedDeviceWrittenOff ==
    Settled /\ Unedited => \A d \in Replacement :
        case[d] \notin {"none", "Cancelled"} /\ d - 1 \notin late => unit[d - 1] \notin UnitStatus

(* A deactivation reaches the device (unit-lifecycle.ts:331): it does not  *)
(* go on reporting itself live once the facts have been consumed.          *)
DeactivatedIsNotLive ==
    Settled => \A d \in Dispatch : live[d] => activated[d]

(***************************************************************************)
(* The inductive invariant behind the safety properties.  Causality: no    *)
(* row and no fact about a dispatch that has not been minted.  News: how   *)
(* a batch becomes known to tms, fact by fact, and what a cancellation in  *)
(* flight says of its case.  Linkage: what a replacement raised and then   *)
(* withdrawn has told, and what fulfillment has made of it.  Toggled: which*)
(* activations have been told, and that a live device has one to show for  *)
(* it.  What leans on the order of consumption says so.                    *)
(***************************************************************************)
Causality ==
    /\ Minted(0) /\ case[0] = "none"
    /\ \A d \in Replacement : Minted(d) <=> case[d] # "none"
    /\ \A d \in Dispatch :
          /\ ~Minted(d) => ~activated[d] /\ ~delivered[d] /\ pool[d] = "NONE"
          /\ activated[d] => toggles[d] > 0
          /\ parcel[d] # "none" => pool[d] = "BATCHED"
          /\ stage[d] # "none" => pool[d] = "BATCHED"
          /\ parcel[d] = "none" => unit[d] = "none"
    /\ cancelling \subseteq {d \in Replacement : Minted(d)}
    /\ \A f \in facts :
          /\ Minted(f.of)
          /\ f.kind \in {"raised", "cancelled"} => f.of \in Replacement
          /\ f.kind \in {"batch"} \cup DispatchKinds => pool[f.of] = "BATCHED"

News ==
    /\ \A d \in Replacement : pool[d] = "BATCHED" => Fact("batch", d, 0) \in facts
    /\ \A d \in Replacement : Fact("batch", d, 0) \in inbox => Fact("QR_GENERATED", d, 0) \in facts
    /\ Unedited => \A d \in Replacement :
          Fact("QR_GENERATED", d, 0) \in inbox => case[d] # "Open"
    /\ Unedited => \A f \in facts : f.kind = "cancelled" => Withdrawn(f.of)

Linkage ==
    /\ \A f \in facts : f.kind \in {"raised", "demand", "cancelled"} => f.n = 0
    /\ \A d \in Replacement :
          /\ Minted(d) => Fact("raised", d, 0) \in facts /\ Fact("demand", d, 0) \in facts
          /\ Fact("demand", d, 0) \in inbox => pool[d] # "NONE"
          /\ Unedited /\ Withdrawn(d) => Fact("cancelled", d, 0) \in facts
          /\ Unedited /\ Fact("raised", d, 0) \in inbox /\ ~Withdrawn(d) /\ d - 1 \notin late =>
                unit[d - 1] \notin UnitStatus
          /\ InOrder /\ Fact("cancelled", d, 0) \in inbox =>
                /\ Fact("raised", d, 0) \in inbox /\ Fact("demand", d, 0) \in inbox
                /\ pool[d] \notin {"POOLED", "HELD"} /\ unit[d - 1] # "DAMAGED"

Toggled ==
    /\ \A f \in facts : f.kind = "activated" => f.n < MaxToggles
    /\ \A d \in Dispatch :
          /\ \A n \in 0..MaxToggles :
                /\ Fact("activated", d, n) \in facts <=> n < toggles[d]
                /\ Fact("deactivated", d, n) \in facts <=>
                      n < toggles[d] /\ (activated[d] => n + 1 < toggles[d])
                /\ InOrder /\ Fact("deactivated", d, n) \in inbox => Fact("activated", d, n) \in inbox
          /\ InOrder /\ live[d] => \E n \in 0..MaxToggles :
                Fact("activated", d, n) \in inbox /\ Fact("deactivated", d, n) \notin inbox

Inv == TypeOK /\ Causality /\ News /\ BothHalvesClose /\ DemandMatchesActivation /\ Linkage /\ Toggled

(***************************************************************************)
(* End to end: a replacement that the courier delivered and that is        *)
(* activated gets its case closed, or has it cancelled, unless it is       *)
(* deactivated first; paper closes on delivery alone, an operator's        *)
(* override included.  A soundbox delivery that is an override never       *)
(* reaches tms, which is told of no legs but the collateral ones.          *)
(***************************************************************************)
DeliveredCaseCloses ==
    \A d \in Replacement :
        parcel[d] = "DELIVERED" /\ (group = "COLLATERAL" \/ activated[d])
            ~> \/ case[d] \in {"Closed", "Cancelled"}
               \/ group = "SOUNDBOX" /\ (~activated[d] \/ overrides[d] > 0)
               \/ ~Unedited
=============================================================================
