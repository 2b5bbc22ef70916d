------------------------------ MODULE Shipment ------------------------------
(***************************************************************************)
(* One parcel (shpt) and the devices inside it, services/fulfillment/src/  *)
(* courier-status.ts with its doors status-file.ts, status-webhook.ts and  *)
(* ops-courier-status.ts, the operator corrections of ops.ts, the device   *)
(* trail of unit-lifecycle.ts and the birth of the parcel by the return    *)
(* sheet.                                                                  *)
(*                                                                         *)
(* The courier scans the parcel at times of its own: journey[t] is what it *)
(* scanned at t.  Scans reach the platform through any door, late, out of  *)
(* order and more than once, but never before they happen.  The platform's *)
(* clock is now; the return sheet and the operators' writes carry it, the  *)
(* courier's scans carry their own time, and the trail of a device mixes   *)
(* both.                                                                   *)
(*                                                                         *)
(* Each door's transaction locks the shpt row it updates and takes no      *)
(* decision before it, so a report is one action; bulkDeliverBatch lists   *)
(* the parcels in one read and corrects them later, so it is two.          *)
(***************************************************************************)
EXTENDS Naturals, FiniteSets

CONSTANTS
    Devices,     \* units of the consignment
    Journeys,    \* the courier's possible histories of scans
    MaxTime,     \* horizon of both clocks
    Misread,     \* scans reported with a courier or a status nobody knows
    Damageable,  \* devices whose damage may be flagged, once each
    MaxManual,   \* bound on correctStatus, correctUnitStatus and bulk requests
    MaxOverrides,\* bound on overrideTerminal
    None

Times == 1..MaxTime
Ladder == {"DISPATCHED_BY_VENDOR", "PICKED_UP", "IN_TRANSIT", "OUT_FOR_DELIVERY", "DELIVERED"}
Statuses == Ladder \cup {"FAILED", "RETURNED"}
Settled == {"DELIVERED", "RETURNED"}

LADDER_RANK == [s \in Statuses |->
    CASE s = "DISPATCHED_BY_VENDOR" -> 1 [] s = "PICKED_UP" -> 2 [] s = "IN_TRANSIT" -> 3
      [] s = "OUT_FOR_DELIVERY" -> 4 [] s = "DELIVERED" -> 5 [] OTHER -> 0]

Spine == {"IN_STOCK", "PRINTED", "DISPATCHED", "DELIVERED"}
UnitTerminal == {"DAMAGED", "RETURNED"}
SpineRank == [s \in Spine |->
    CASE s = "IN_STOCK" -> 0 [] s = "PRINTED" -> 1 [] s = "DISPATCHED" -> 2 [] OTHER -> 3]

ASSUME ConstantsAssumption ==
    /\ MaxTime \in Nat /\ MaxManual \in Nat /\ MaxOverrides \in Nat
    /\ Journeys \subseteq [Times -> Statuses \cup {None}]
    /\ None \notin Statuses
    /\ Misread \subseteq Times
    /\ Damageable \subseteq Devices

(* A journey a courier can report: it starts above the rung the sheet set, *)
(* each scan is a rung above the one before it, a failed attempt or the    *)
(* end.                                                                    *)
ASSUME JourneysClimb ==
    \A j \in Journeys : \A t \in Times :
        /\ j[t] # "DISPATCHED_BY_VENDOR"
        /\ \A u \in Times :
              t < u /\ j[t] # None /\ j[u] # None =>
                /\ j[t] \notin Settled
                /\ j[u] \notin {"FAILED", "RETURNED"} => LADDER_RANK[j[u]] > LADDER_RANK[j[t]]

VARIABLES
    journey,   \* what the courier scanned, by its own time
    now,       \* the platform's clock
    parcel,    \* shpt: status ("NONE" before birth) and status_at (0 for NULL)
    seen,      \* inbox rows shpt|status|time, the reports applied to the trail
    exceptions,\* courier_status_exception rows still open, by scan
    facts,     \* dedup keys of the shipment facts emitted
    heard,     \* the last status a consumer took from those facts
    repeated,  \* history: whether a fact was emitted under a key already used
    inside,    \* devices with unit.shipment set
    late,      \* history: those that joined a parcel already settled
    behind,    \* history: those whose sheet came after a scan
    unit,      \* unit.status
    last,      \* per device, the non-terminal trail row latest by occurred_at
    prior,     \* history: a device's status when its damage was flagged
    flagged,   \* devices whose damage has been flagged, and those
    cancelled, \* of them whose flag was withdrawn: once each
    bulk,      \* the bulk request in progress: its time, 0 when there is none
    manual, overrides

factVars == <<facts, heard, repeated>>
parcelVars == <<parcel, seen, factVars>>
damageVars == <<prior, flagged, cancelled>>
deviceVars == <<inside, late, behind, unit, last, damageVars>>
counts == <<manual, overrides>>
vars == <<journey, now, parcelVars, exceptions, deviceVars, bulk, counts>>

Born == parcel.status # "NONE"
Scanned == {t \in Times : t <= now /\ journey[t] # None}

TypeOK ==
    /\ journey \in Journeys
    /\ now \in 0..MaxTime
    /\ parcel \in [status : Statuses \cup {"NONE"}, at : 0..MaxTime]
    /\ seen \subseteq [status : Statuses, at : 0..MaxTime]
    /\ exceptions \subseteq Scanned
    /\ facts \subseteq [status : Statuses, at : 0..MaxTime]
    /\ heard \in Statuses \cup {None}
    /\ repeated \in BOOLEAN
    /\ late \subseteq inside /\ behind \subseteq inside /\ inside \subseteq Devices
    /\ unit \in [Devices -> Spine \cup UnitTerminal]
    /\ last \in [Devices -> [status : Spine, at : 0..MaxTime]]
    /\ prior \in [Devices -> Spine \cup {None}]
    /\ cancelled \subseteq flagged /\ flagged \subseteq Damageable
    /\ bulk \in 0..MaxTime
    /\ manual \in 0..MaxManual /\ overrides \in 0..MaxOverrides

Init ==
    /\ journey \in Journeys
    /\ now = 0
    /\ parcel = [status |-> "NONE", at |-> 0]
    /\ seen = {} /\ exceptions = {} /\ facts = {} /\ heard = None /\ repeated = FALSE
    /\ inside = {} /\ late = {} /\ behind = {}
    /\ unit = [u \in Devices |-> "IN_STOCK"]
    /\ last = [u \in Devices |-> [status |-> "IN_STOCK", at |-> 0]]
    /\ prior = [u \in Devices |-> None]
    /\ flagged = {} /\ cancelled = {}
    /\ bulk = 0
    /\ manual = 0 /\ overrides = 0

-----------------------------------------------------------------------------
(* The trail and the facts.                                                *)

(* logUnitStatuses, as a later ORDER BY occurred_at DESC, created_at DESC  *)
(* sees it: the newer row stands unless an older one is dated after it.    *)
Logged(u, s, t) == IF t >= last[u].at THEN [status |-> s, at |-> t] ELSE last[u]

(* A consumer takes each dedup key once.                                   *)
Emit_Fault(s, t) ==
    LET key == [status |-> s, at |-> t] IN
    /\ facts' = facts \cup {key}
    /\ heard' = IF \E f \in facts : f.status = s THEN heard ELSE s
    /\ repeated' = (repeated \/ key \in facts)
Emit(s, t) ==
    LET key == [status |-> s, at |-> t] IN
    /\ facts' = facts \cup {key}
    /\ heard' = IF key \in facts THEN heard ELSE s
    /\ repeated' = (repeated \/ key \in facts)

-----------------------------------------------------------------------------
(* advanceShipmentStatus.                                                  *)

(* The guard of the UPDATE.                                                *)
Advances_Fault(s, t) ==
    /\ parcel.status \notin Settled
    /\ \/ s \notin Ladder
       \/ LADDER_RANK[s] > LADDER_RANK[parcel.status]

Advances(s, t) ==
    /\ parcel.status \notin Settled
    /\ parcel.at < t
    /\ \/ s \notin Ladder
       \/ LADDER_RANK[s] > LADDER_RANK[parcel.status]

(* advanceUnitsForShipment: the devices an outcome moves.                  *)
Follow_Fault(s) == {u \in inside : s = "DELIVERED" /\ unit[u] = "DISPATCHED"}
Follow_TerminalFault(s) == {u \in inside : s \in Settled}
Follow(s) == {u \in inside :
    \/ s = "DELIVERED" /\ unit[u] \in {"IN_STOCK", "PRINTED", "DISPATCHED"}
    \/ s = "RETURNED" /\ unit[u] \in Spine}

Advance(s, t) ==
    LET key == [status |-> s, at |-> t] IN
    /\ Born
    /\ seen' = seen \cup {key}
    /\ \/ /\ key \notin seen /\ Advances(s, t)
          /\ parcel' = key
          /\ Emit(s, t)
          /\ unit' = [u \in Devices |-> IF u \in Follow(s) THEN s ELSE unit[u]]
          /\ last' = [u \in Devices |->
                        IF u \in Follow(s) /\ s = "DELIVERED" THEN Logged(u, s, t) ELSE last[u]]
       \/ /\ key \in seen \/ ~Advances(s, t)
          /\ UNCHANGED <<parcel, factVars, unit, last>>
    /\ UNCHANGED <<journey, now, inside, late, behind, damageVars, overrides>>

(* A scan arrives by file, webhook or an operator's upload.                *)
IngestStatus(t) ==
    /\ t \in Scanned \ Misread
    /\ Advance(journey[t], t)
    /\ UNCHANGED <<exceptions, bulk, manual>>

(* A row for a parcel that is not there yet, or that names no courier or   *)
(* not the one who reports, or whose status nobody knows.                  *)
Quarantine(t) ==
    /\ t \in Scanned
    /\ Born => t \in Misread
    /\ exceptions' = exceptions \cup {t}
    /\ UNCHANGED <<journey, now, parcelVars, deviceVars, bulk, counts>>

(* The operator names the parcel and the status the row should have had.   *)
ResolveStatusException(t) ==
    /\ t \in exceptions
    /\ Advance(journey[t], t)
    /\ exceptions' = exceptions \ {t}
    /\ UNCHANGED <<bulk, manual>>

-----------------------------------------------------------------------------
(* Operators.                                                              *)

(* correctStatus, at a time the operator gives.                            *)
CorrectStatus(s, t) ==
    /\ manual < MaxManual
    /\ manual' = manual + 1
    /\ Advance(s, t)
    /\ UNCHANGED <<exceptions, bulk>>

(* bulkDeliverBatch lists the parcels that are in flight and carry no      *)
(* damaged device, and takes the time, outside any transaction.            *)
ListForBulk ==
    /\ bulk = 0 /\ manual < MaxManual /\ now > 0
    /\ Born /\ parcel.status \notin Settled
    /\ \A u \in inside : unit[u] # "DAMAGED"
    /\ bulk' = now
    /\ manual' = manual + 1
    /\ UNCHANGED <<journey, now, parcelVars, exceptions, deviceVars, overrides>>

BulkDeliver ==
    /\ bulk > 0
    /\ Advance("DELIVERED", bulk)
    /\ bulk' = 0
    /\ UNCHANGED <<exceptions, manual>>

(* overrideTerminal writes any status with any time; the devices stay.     *)
OverrideTerminal(s, t) ==
    /\ Born /\ overrides < MaxOverrides
    /\ overrides' = overrides + 1
    /\ parcel' = [status |-> s, at |-> t]
    /\ Emit(s, t)
    /\ UNCHANGED <<journey, now, seen, exceptions, deviceVars, bulk, manual>>

CanAdvanceUnit(from, to) ==
    /\ from \notin UnitTerminal
    /\ to \in Spine => SpineRank[to] > SpineRank[from]

CorrectUnitStatus(u, s) ==
    /\ manual < MaxManual
    /\ manual' = manual + 1
    /\ CanAdvanceUnit(unit[u], s)
    /\ unit' = [unit EXCEPT ![u] = s]
    /\ last' = IF s \in Spine THEN [last EXCEPT ![u] = Logged(u, s, now)] ELSE last
    /\ UNCHANGED <<journey, now, parcelVars, exceptions, inside, late, behind, damageVars, bulk, overrides>>

-----------------------------------------------------------------------------
(* The return sheet and the damage facts.                                  *)

(* The row of device u: the AWB is born or found, the unit joins it and    *)
(* goes through PRINTED to DISPATCHED if it is still below.                *)
PairDevice(u) ==
    /\ u \notin inside
    /\ inside' = inside \cup {u}
    /\ late' = IF parcel.status \in Settled THEN late \cup {u} ELSE late
    /\ behind' = IF Scanned # {} THEN behind \cup {u} ELSE behind
    /\ \/ /\ unit[u] \in {"IN_STOCK", "PRINTED"}
          /\ unit' = [unit EXCEPT ![u] = "DISPATCHED"]
          /\ last' = [last EXCEPT ![u] = Logged(u, "DISPATCHED", now)]
       \/ /\ unit[u] \notin {"IN_STOCK", "PRINTED"}
          /\ UNCHANGED <<unit, last>>
    /\ \/ Born /\ UNCHANGED <<parcel, heard>>
       \/ /\ ~Born
          /\ parcel' = [status |-> "DISPATCHED_BY_VENDOR", at |-> 0]
          /\ heard' = "DISPATCHED_BY_VENDOR"
    /\ UNCHANGED <<journey, now, seen, facts, repeated, exceptions, damageVars, bulk, counts>>

(* projectReplacementToUnits.                                              *)
FlagDamage(u) ==
    /\ u \in Damageable \ flagged /\ u \in inside
    /\ flagged' = flagged \cup {u}
    /\ \/ /\ unit[u] \in Spine
          /\ prior' = [prior EXCEPT ![u] = unit[u]]
          /\ unit' = [unit EXCEPT ![u] = "DAMAGED"]
       \/ unit[u] \notin Spine /\ UNCHANGED <<prior, unit>>
    /\ UNCHANGED <<journey, now, parcelVars, exceptions, inside, late, behind, last, cancelled, bulk, counts>>

(* projectReplacementCancelledToUnits: the device goes back to the status  *)
(* its trail gives, and that is logged.                                    *)
CancelDamage_Fault(u) ==
    /\ u \in flagged \ cancelled
    /\ cancelled' = cancelled \cup {u}
    /\ unit[u] = "DAMAGED"
    /\ unit' = [unit EXCEPT ![u] = "DELIVERED"]
    /\ last' = [last EXCEPT ![u] = Logged(u, "DELIVERED", now)]
    /\ UNCHANGED <<journey, now, parcelVars, exceptions, inside, late, behind, prior, flagged, bulk, counts>>
CancelDamage(u) ==
    /\ u \in flagged \ cancelled
    /\ cancelled' = cancelled \cup {u}
    /\ unit[u] = "DAMAGED"
    /\ unit' = [unit EXCEPT ![u] = last[u].status]
    /\ last' = [last EXCEPT ![u] = Logged(u, last[u].status, now)]
    /\ UNCHANGED <<journey, now, parcelVars, exceptions, inside, late, behind, prior, flagged, bulk, counts>>

Tick ==
    /\ now < MaxTime
    /\ now' = now + 1
    /\ UNCHANGED <<journey, parcelVars, exceptions, deviceVars, bulk, counts>>

-----------------------------------------------------------------------------
Next ==
    \/ \E t \in Times : IngestStatus(t) \/ Quarantine(t) \/ ResolveStatusException(t)
    \/ ListForBulk \/ BulkDeliver
    \/ \E s \in Statuses, t \in 1..now : CorrectStatus(s, t) \/ OverrideTerminal(s, t)
    \/ \E u \in Devices : PairDevice(u) \/ FlagDamage(u) \/ CancelDamage(u)
    \/ \E u \in Devices, s \in Spine \cup UnitTerminal : CorrectUnitStatus(u, s)
    \/ Tick

Spec == Init /\ [][Next]_vars

-----------------------------------------------------------------------------
(* Properties.                                                             *)

(***************************************************************************)
(* Whatever the order, repetition and door of the reports, a parcel nobody *)
(* corrected by hand stands at the latest scan received: the two guards of *)
(* the UPDATE in advanceShipmentStatus, on time and on rank, agree on      *)
(* every courier whose scans climb, and a trail_only report was no news.   *)
(***************************************************************************)
LatestWins ==
    manual + overrides = 0 /\ seen # {} =>
        /\ parcel \in seen
        /\ parcel.status = journey[parcel.at]
        /\ \A r \in seen : r.at <= parcel.at

(* What the reports say of the courier, and what the trail of a device     *)
(* says of the device, while no operator has interfered: the strengthening *)
(* LatestWins and CancelRestores need.                                     *)
Reported ==
    manual + overrides = 0 =>
        /\ seen = {} => parcel.at = 0 /\ parcel.status \in {"NONE", "DISPATCHED_BY_VENDOR"}
        /\ seen # {} => Born
        /\ \A r \in seen : r.at \in Times /\ r.status = journey[r.at]

TrailKept ==
    manual = 0 =>
        /\ bulk = 0
        /\ \A u \in Devices \ inside :
              unit[u] = "IN_STOCK" /\ last[u] = [status |-> "IN_STOCK", at |-> 0]
        /\ \A u \in Devices \ behind :
              /\ unit[u] \in Spine /\ u \notin flagged => last[u].status = unit[u]
              /\ unit[u] \in {"IN_STOCK", "PRINTED", "DISPATCHED"} /\ u \notin flagged =>
                    \A t \in Times : journey[t] # None => last[u].at < t
              /\ unit[u] = "DAMAGED" => u \in flagged \ cancelled /\ last[u].status = prior[u]

(***************************************************************************)
(* The inductive invariant: the types, the latest report and the trail.    *)
(***************************************************************************)
Inv == TypeOK /\ LatestWins /\ Reported /\ TrailKept

(***************************************************************************)
(* A settled parcel takes its devices with it ("the devices inside inherit *)
(* that outcome"), by whichever door it settled and whatever an operator   *)
(* did to a device, except one that joined after and one whose damage was  *)
(* flagged; an override leaves the devices alone and is excluded.          *)
(***************************************************************************)
DevicesFollow ==
    overrides = 0 /\ parcel.status \in Settled =>
        \A u \in inside \ (late \cup flagged) : unit[u] \in {parcel.status} \cup UnitTerminal

(***************************************************************************)
(* The last status the consumers took is the parcel's: every change of any *)
(* door is announced under a key not used before, unless an override       *)
(* writes a status and time the parcel already had.                        *)
(***************************************************************************)
HeardIsStatus == Born /\ ~repeated => heard = parcel.status

(***************************************************************************)
(* A withdrawn damage flag gives the device back the status it had when it *)
(* was flagged ("the last non-terminal status the device actually recorded *)
(* before it was damaged"), although the trail it is read from is ordered  *)
(* by two clocks, provided the return sheet came before the courier's      *)
(* first scan; operators' corrections carry a time of their choice.        *)
(***************************************************************************)
CancelRestores ==
    [][\A u \in Devices :
          manual = 0 /\ u \notin behind /\ unit[u] = "DAMAGED" /\ unit'[u] # "DAMAGED" =>
              unit'[u] = prior[u]]_vars

(***************************************************************************)
(* A device written off stays so against every report, correction and bulk *)
(* delivery, one listed before the damage included; only the withdrawal of *)
(* its flag brings it back, and at most once.                              *)
(***************************************************************************)
WrittenOffStays ==
    [][\A u \in Devices :
          unit[u] \in UnitTerminal /\ unit'[u] # unit[u] =>
              unit[u] = "DAMAGED" /\ u \in cancelled' \ cancelled]_vars
=============================================================================
