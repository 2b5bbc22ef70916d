--------------------------- MODULE ShipmentProofs ---------------------------
(***************************************************************************)
(* Proofs about Shipment for any number of devices, any journeys that      *)
(* climb, any horizon and any number of operators' writes.                 *)
(***************************************************************************)
EXTENDS Shipment, TLAPS

USE ConstantsAssumption

LEMMA LoggedType ==
  ASSUME TypeOK, NEW u \in Devices, NEW s \in Spine, NEW t \in 0..MaxTime
  PROVE  Logged(u, s, t) \in [status : Spine, at : 0..MaxTime]
BY DEF Logged, TypeOK

LEMMA EmitType ==
  ASSUME TypeOK, NEW s \in Statuses, NEW t \in 0..MaxTime, Emit(s, t)
  PROVE  /\ facts' \subseteq [status : Statuses, at : 0..MaxTime]
         /\ heard' \in Statuses \cup {None}
         /\ repeated' \in BOOLEAN
         /\ ~repeated' => heard' = s
<1>1. [status |-> s, at |-> t] \in [status : Statuses, at : 0..MaxTime]
  OBVIOUS
<1>2. QED
  BY <1>1 DEF Emit, TypeOK

(* What a report does to the parcel and to its devices.                    *)
LEMMA AdvanceCases ==
  ASSUME TypeOK, NEW s \in Statuses, NEW t \in Times, Advance(s, t)
  PROVE  /\ Born
         /\ UNCHANGED <<journey, now, inside, late, behind, damageVars, overrides>>
         /\ seen' = seen \cup {[status |-> s, at |-> t]}
         /\ \/ /\ Advances(s, t)
               /\ parcel' = [status |-> s, at |-> t]
               /\ Emit(s, t)
               /\ unit' = [u \in Devices |-> IF u \in Follow(s) THEN s ELSE unit[u]]
               /\ last' = [u \in Devices |->
                              IF u \in Follow(s) /\ s = "DELIVERED" THEN Logged(u, s, t) ELSE last[u]]
            \/ /\ [status |-> s, at |-> t] \in seen \/ ~Advances(s, t)
               /\ UNCHANGED <<parcel, factVars, unit, last>>
BY DEF Advance

LEMMA AdvanceType ==
  ASSUME TypeOK, NEW s \in Statuses, NEW t \in Times, Advance(s, t),
         exceptions' \subseteq exceptions, bulk' \in 0..MaxTime, manual' \in 0..MaxManual
  PROVE  TypeOK'
<1>1. t \in 0..MaxTime
  BY DEF Times
<1>2. seen' \subseteq [status : Statuses, at : 0..MaxTime]
  <2>1. seen' = seen \cup {[status |-> s, at |-> t]}
    BY DEF Advance
  <2>2. [status |-> s, at |-> t] \in [status : Statuses, at : 0..MaxTime]
    BY <1>1
  <2>3. QED
    BY <2>1, <2>2 DEF TypeOK
<1>3. UNCHANGED <<journey, now, inside, late, behind, overrides>>
  BY DEF Advance
<1>4. exceptions' \subseteq Scanned' /\ late' \subseteq inside' /\ behind' \subseteq inside' /\ inside' \subseteq Devices
  BY <1>3 DEF TypeOK, Scanned
<1>5. prior' \in [Devices -> Spine \cup {None}] /\ cancelled' \subseteq flagged' /\ flagged' \subseteq Damageable
  BY AdvanceCases DEF TypeOK, damageVars
<1>6. CASE /\ parcel' = [status |-> s, at |-> t]
           /\ Emit(s, t)
           /\ unit' = [u \in Devices |-> IF u \in Follow(s) THEN s ELSE unit[u]]
           /\ last' = [u \in Devices |->
                          IF u \in Follow(s) /\ s = "DELIVERED" THEN Logged(u, s, t) ELSE last[u]]
  <2>1. parcel' \in [status : Statuses \cup {"NONE"}, at : 0..MaxTime]
    BY <1>1, <1>6
  <2>2. unit' \in [Devices -> Spine \cup UnitTerminal]
    BY <1>6 DEF Follow, TypeOK, Spine, UnitTerminal
  <2>3. last' \in [Devices -> [status : Spine, at : 0..MaxTime]]
    BY <1>1, <1>6, LoggedType DEF TypeOK, Spine
  <2>4. QED
    BY <1>1, <1>2, <1>6, <1>3, <1>4, <1>5, <2>1, <2>2, <2>3, EmitType DEF TypeOK
<1>7. CASE UNCHANGED <<parcel, factVars, unit, last>>
  BY <1>2, <1>7, <1>3, <1>4, <1>5 DEF TypeOK, factVars
<1>8. QED
  BY <1>6, <1>7, AdvanceCases

LEMMA TypeInit == Init => TypeOK
<1> SUFFICES ASSUME Init PROVE TypeOK
  OBVIOUS
<1>1. parcel \in [status : Statuses \cup {"NONE"}, at : 0..MaxTime]
  BY DEF Init
<1>2. last \in [Devices -> [status : Spine, at : 0..MaxTime]]
  BY DEF Init, Spine
<1>3. unit \in [Devices -> Spine \cup UnitTerminal] /\ prior \in [Devices -> Spine \cup {None}]
  BY DEF Init, Spine
<1>4. seen = {} /\ facts = {} /\ exceptions = {} /\ inside = {} /\ late = {} /\ behind = {}
  BY DEF Init
<1>5. 0 \in 0..MaxTime /\ 0 \in 0..MaxManual /\ 0 \in 0..MaxOverrides
  OBVIOUS
<1>6. flagged = {} /\ cancelled = {}
  BY DEF Init
<1>7. QED
  BY <1>1, <1>2, <1>3, <1>4, <1>5, <1>6 DEF Init, TypeOK

LEMMA ScanType ==
  ASSUME TypeOK, NEW t \in Times, journey[t] # None
  PROVE  journey[t] \in Statuses
BY DEF TypeOK

LEMMA TypeStep == TypeOK /\ [Next]_vars => TypeOK'
<1> SUFFICES ASSUME TypeOK, [Next]_vars PROVE TypeOK'
  OBVIOUS
<1>1. ASSUME NEW t \in Times, IngestStatus(t) PROVE TypeOK'
  BY <1>1, ScanType, AdvanceType DEF IngestStatus, Scanned, TypeOK
<1>2. ASSUME NEW t \in Times, Quarantine(t) PROVE TypeOK'
  BY <1>2 DEF Quarantine, TypeOK, Scanned, parcelVars, factVars, deviceVars, damageVars, counts
<1>3. ASSUME NEW t \in Times, ResolveStatusException(t) PROVE TypeOK'
  BY <1>3, ScanType, AdvanceType DEF ResolveStatusException, Scanned, TypeOK
<1>4. CASE ListForBulk
  <2>1. manual' \in 0..MaxManual /\ bulk' \in 0..MaxTime
    BY <1>4 DEF ListForBulk, TypeOK
  <2>2. QED
    BY <1>4, <2>1 DEF ListForBulk, TypeOK, Scanned, parcelVars, factVars, deviceVars, damageVars
<1>5. CASE BulkDeliver
  <2>1. bulk \in Times /\ "DELIVERED" \in Statuses
    BY <1>5 DEF BulkDeliver, TypeOK, Times, Statuses, Ladder
  <2>2. exceptions' \subseteq exceptions /\ bulk' \in 0..MaxTime /\ manual' \in 0..MaxManual
    BY <1>5 DEF BulkDeliver, TypeOK
  <2>3. QED
    BY <1>5, <2>1, <2>2, AdvanceType DEF BulkDeliver
<1>6. ASSUME NEW s \in Statuses, NEW t \in 1..now, CorrectStatus(s, t) PROVE TypeOK'
  <2>1. t \in Times /\ manual' \in 0..MaxManual
    BY <1>6 DEF CorrectStatus, TypeOK, Times
  <2>2. QED
    BY <1>6, <2>1, AdvanceType DEF CorrectStatus, TypeOK
<1>7. ASSUME NEW s \in Statuses, NEW t \in 1..now, OverrideTerminal(s, t) PROVE TypeOK'
  <2>1. t \in 0..MaxTime
    BY DEF TypeOK
  <2>2. QED
    BY <1>7, <2>1, EmitType DEF OverrideTerminal, TypeOK, Scanned, deviceVars, damageVars
<1>8. ASSUME NEW u \in Devices, PairDevice(u) PROVE TypeOK'
  <2>1. unit' \in [Devices -> Spine \cup UnitTerminal]
    BY <1>8 DEF PairDevice, TypeOK, Spine
  <2>2. last' \in [Devices -> [status : Spine, at : 0..MaxTime]]
    <3>1. Logged(u, "DISPATCHED", now) \in [status : Spine, at : 0..MaxTime]
      BY LoggedType DEF Spine, TypeOK
    <3>2. QED
      BY <1>8, <3>1 DEF PairDevice, TypeOK
  <2>3. parcel' \in [status : Statuses \cup {"NONE"}, at : 0..MaxTime] /\ heard' \in Statuses \cup {None}
    BY <1>8 DEF PairDevice, TypeOK, Statuses, Ladder
  <2>4. QED
    BY <1>8, <2>1, <2>2, <2>3 DEF PairDevice, TypeOK, Scanned, damageVars, counts
<1>9. ASSUME NEW u \in Devices, FlagDamage(u) PROVE TypeOK'
  <2>1. unit' \in [Devices -> Spine \cup UnitTerminal] /\ prior' \in [Devices -> Spine \cup {None}]
    BY <1>9 DEF FlagDamage, TypeOK, UnitTerminal
  <2>2. QED
    BY <1>9, <2>1 DEF FlagDamage, TypeOK, Scanned, parcelVars, factVars, counts
<1>10. ASSUME NEW u \in Devices, CancelDamage(u) PROVE TypeOK'
  <2>1. last[u].status \in Spine
    BY DEF TypeOK
  <2>2. Logged(u, last[u].status, now) \in [status : Spine, at : 0..MaxTime]
    BY <2>1, LoggedType DEF TypeOK
  <2>3. QED
    BY <1>10, <2>1, <2>2 DEF CancelDamage, TypeOK, Scanned, parcelVars, factVars, counts
<1>11. ASSUME NEW u \in Devices, NEW s \in Spine \cup UnitTerminal, CorrectUnitStatus(u, s)
       PROVE  TypeOK'
  <2>1. last' \in [Devices -> [status : Spine, at : 0..MaxTime]]
    <3>1. CASE s \in Spine
      <4>1. Logged(u, s, now) \in [status : Spine, at : 0..MaxTime]
        BY <3>1, LoggedType DEF TypeOK
      <4>2. QED
        BY <1>11, <3>1, <4>1 DEF CorrectUnitStatus, TypeOK
    <3>2. QED
      BY <1>11, <3>1 DEF CorrectUnitStatus, TypeOK
  <2>2. QED
    BY <1>11, <2>1 DEF CorrectUnitStatus, TypeOK, Scanned, parcelVars, factVars, damageVars
<1>12. CASE Tick
  <2>1. now' \in 0..MaxTime /\ Scanned \subseteq Scanned'
    BY <1>12 DEF Tick, TypeOK, Scanned, Times
  <2>2. QED
    BY <1>12, <2>1 DEF Tick, TypeOK, parcelVars, factVars, deviceVars, damageVars, counts
<1>13. CASE UNCHANGED vars
  BY <1>13 DEF vars, TypeOK, Scanned, parcelVars, factVars, deviceVars, damageVars, counts
<1>14. QED
  BY <1>1, <1>2, <1>3, <1>4, <1>5, <1>6, <1>7, <1>8, <1>9, <1>10, <1>11, <1>12, <1>13 DEF Next
-----------------------------------------------------------------------------
(* The latest report.                                                      *)

Untouched == manual + overrides = 0

LEMMA SumIsZero ==
  ASSUME NEW a \in Nat, NEW b \in Nat, a + b = 0
  PROVE  a = 0 /\ b = 0
OBVIOUS

LEMMA CountsGrow ==
  ASSUME TypeOK, Next
  PROVE  /\ manual' = 0 => manual = 0
         /\ overrides' = 0 => overrides = 0
         /\ Untouched' => Untouched
<1>1. manual \in Nat /\ overrides \in Nat
  BY DEF TypeOK
<1>2. \/ manual' = manual \/ manual' = manual + 1
  BY DEF Next, IngestStatus, Quarantine, ResolveStatusException, ListForBulk, BulkDeliver, CorrectStatus,
         OverrideTerminal, PairDevice, FlagDamage, CancelDamage, CorrectUnitStatus, Tick, counts
<1>3. \/ overrides' = overrides \/ overrides' = overrides + 1
  BY DEF Next, IngestStatus, Quarantine, ResolveStatusException, ListForBulk, BulkDeliver, CorrectStatus,
         OverrideTerminal, PairDevice, FlagDamage, CancelDamage, CorrectUnitStatus, Tick, counts, Advance
<1>4. QED
  BY <1>1, <1>2, <1>3 DEF Untouched

(* The two guards of the UPDATE let exactly the later scans through.       *)
LEMMA GuardsAgree ==
  ASSUME TypeOK, LatestWins, Reported, Untouched, Born, NEW t \in Scanned
  PROVE  Advances(journey[t], t) <=> parcel.at < t
<1>1. t \in Times /\ t \in Nat /\ t > 0 /\ journey[t] \in Statuses
  BY DEF Scanned, Times, TypeOK
<1>2. journey \in Journeys /\ journey[t] # None
  BY DEF TypeOK, Scanned
<1>3. SUFFICES ASSUME parcel.at < t
               PROVE  /\ parcel.status \notin Settled
                      /\ journey[t] \in Ladder => LADDER_RANK[journey[t]] > LADDER_RANK[parcel.status]
  BY DEF Advances
<1>4. CASE seen = {}
  <2>1. parcel.status = "DISPATCHED_BY_VENDOR"
    BY <1>4 DEF Reported, Untouched, Born
  <2>2. journey[t] # "DISPATCHED_BY_VENDOR"
    BY <1>1, <1>2, JourneysClimb
  <2>3. QED
    BY <1>1, <2>1, <2>2 DEF Settled, Ladder, LADDER_RANK, Statuses
<1>5. CASE seen # {}
  <2>1. parcel \in seen /\ parcel.status = journey[parcel.at]
    BY <1>5 DEF LatestWins, Untouched
  <2>2. parcel.at \in Times /\ parcel.status \in Statuses
    BY <2>1 DEF Reported, Untouched, TypeOK
  <2>3. journey[parcel.at] # None
    BY <2>1, <2>2
  <2>4. /\ journey[parcel.at] \notin Settled
        /\ journey[t] \notin {"FAILED", "RETURNED"} => LADDER_RANK[journey[t]] > LADDER_RANK[journey[parcel.at]]
    BY <1>1, <1>2, <1>3, <2>2, <2>3, JourneysClimb
  <2>5. QED
    BY <2>1, <2>4 DEF Ladder
<1>6. QED
  BY <1>4, <1>5

LEMMA ReportStep ==
  ASSUME TypeOK, LatestWins, Reported, Untouched, NEW t \in Scanned, Advance(journey[t], t)
  PROVE  LatestWins' /\ Reported'
<1> DEFINE key == [status |-> journey[t], at |-> t]
<1>1. t \in Times /\ t \in Nat /\ journey[t] \in Statuses
  BY DEF Scanned, Times, TypeOK
<1>2. Born /\ seen' = seen \cup {key} /\ journey' = journey
  BY DEF Advance
<1>3. key \in seen' /\ key.at = t /\ key.status = journey[t]
  BY <1>2
<1>4. \A r \in seen : r.at \in Times /\ r.status = journey[r.at]
  BY DEF Reported, Untouched
<1>5. \A r \in seen : r.at <= parcel.at
  BY DEF LatestWins, Untouched
<1>6. CASE parcel.at < t /\ key \notin seen
  <2>1. parcel' = key
    BY <1>1, <1>2, <1>6, GuardsAgree DEF Advance
  <2>2. \A r \in seen' : r.at <= parcel'.at
    <3>1. \A r \in seen : r.at \in Nat /\ r.at <= t
      BY <1>1, <1>4, <1>5, <1>6 DEF TypeOK, Times
    <3>2. QED
      BY <1>1, <1>2, <2>1, <3>1
  <2>3. Born' /\ parcel'.status = journey'[parcel'.at]
    BY <1>1, <1>2, <2>1 DEF Born, Statuses, Ladder
  <2>4. QED
    BY <1>1, <1>2, <1>3, <1>4, <2>1, <2>2, <2>3 DEF LatestWins, Reported
<1>7. CASE ~(parcel.at < t) \/ key \in seen
  <2>1. parcel' = parcel
    BY <1>1, <1>2, <1>7, GuardsAgree DEF Advance
  <2>2. t <= parcel.at /\ parcel.at \in Nat
    BY <1>1, <1>3, <1>5, <1>7 DEF TypeOK
  <2>3. seen # {}
    <3>1. SUFFICES ASSUME seen = {} PROVE FALSE
      OBVIOUS
    <3>2. parcel.at = 0
      BY <3>1 DEF Reported, Untouched
    <3>3. QED
      BY <1>1, <2>2, <3>2 DEF Times
  <2>4. parcel \in seen /\ parcel.status = journey[parcel.at]
    BY <2>3 DEF LatestWins, Untouched
  <2>5. \A r \in seen' : r.at <= parcel'.at
    BY <1>2, <1>3, <1>5, <2>1, <2>2
  <2>6. QED
    BY <1>1, <1>2, <1>3, <1>4, <2>1, <2>3, <2>4, <2>5 DEF LatestWins, Reported, Born
<1>8. QED
  BY <1>6, <1>7

LEMMA LatestStep == TypeOK /\ LatestWins /\ Reported /\ TrailKept /\ [Next]_vars => LatestWins' /\ Reported'
<1> SUFFICES ASSUME TypeOK, LatestWins, Reported, TrailKept, [Next]_vars, Untouched'
             PROVE  LatestWins' /\ Reported'
  BY DEF LatestWins, Reported, Untouched
<1>1. manual \in Nat /\ overrides \in Nat
  BY DEF TypeOK
<1>2. CASE UNCHANGED <<journey, parcel, seen, manual, overrides>>
  BY <1>2 DEF LatestWins, Reported, Born
<1>3. Untouched
  BY CountsGrow DEF vars, counts, Untouched
<1>4. manual = 0 /\ overrides = 0 /\ manual' = 0 /\ overrides' = 0
  <2>1. manual' \in Nat /\ overrides' \in Nat
    BY TypeStep DEF TypeOK
  <2>2. manual + overrides = 0 /\ manual' + overrides' = 0
    BY <1>3 DEF Untouched
  <2>3. QED
    BY <1>1, <2>1, <2>2, SumIsZero
<1>5. ASSUME NEW t \in Times, IngestStatus(t) PROVE LatestWins' /\ Reported'
  BY <1>3, <1>5, ReportStep DEF IngestStatus
<1>6. ASSUME NEW t \in Times, ResolveStatusException(t) PROVE LatestWins' /\ Reported'
  BY <1>3, <1>6, ReportStep DEF ResolveStatusException, TypeOK
<1>7. ASSUME BulkDeliver PROVE FALSE
  BY <1>4, <1>7 DEF BulkDeliver, TrailKept
<1>8. ASSUME ListForBulk \/ \E s \in Statuses, t \in 1..now : CorrectStatus(s, t) \/ OverrideTerminal(s, t)
      PROVE  FALSE
  BY <1>4, <1>8 DEF ListForBulk, CorrectStatus, OverrideTerminal
<1>9. ASSUME NEW u \in Devices, PairDevice(u) PROVE LatestWins' /\ Reported'
  <2>1. CASE Born
    BY <1>2, <1>9, <2>1 DEF PairDevice, counts
  <2>2. CASE ~Born
    <3>1. seen = {}
      BY <1>3, <2>2 DEF Reported, Untouched
    <3>2. parcel' = [status |-> "DISPATCHED_BY_VENDOR", at |-> 0] /\ seen' = {}
      BY <1>9, <2>2, <3>1 DEF PairDevice
    <3>3. QED
      BY <3>2 DEF LatestWins, Reported
  <2>3. QED
    BY <2>1, <2>2
<1>10. CASE \/ \E t \in Times : Quarantine(t)
            \/ \E u \in Devices : FlagDamage(u) \/ CancelDamage(u)
            \/ \E u \in Devices, s \in Spine \cup UnitTerminal : CorrectUnitStatus(u, s)
            \/ Tick
            \/ UNCHANGED vars
  <2>1. UNCHANGED <<journey, parcel, seen>>
    BY <1>10 DEF Quarantine, FlagDamage, CancelDamage, CorrectUnitStatus, Tick, vars, parcelVars
  <2>2. QED
    BY <1>2, <1>4, <2>1
<1>11. QED
  BY <1>5, <1>6, <1>7, <1>8, <1>9, <1>10 DEF Next
-----------------------------------------------------------------------------
(* The trail of a device nobody corrected.                                 *)

LEMMA TrailInit == Init => LatestWins /\ Reported /\ TrailKept
<1> SUFFICES ASSUME Init PROVE LatestWins /\ Reported /\ TrailKept
  OBVIOUS
<1>1. LatestWins /\ Reported
  BY DEF Init, LatestWins, Reported
<1>2. \A u \in Devices : /\ unit[u] = "IN_STOCK"
                         /\ last[u] = [status |-> "IN_STOCK", at |-> 0]
                         /\ last[u].status = "IN_STOCK" /\ last[u].at = 0
  BY DEF Init
<1>3. \A t \in Times : 0 < t
  BY DEF Times
<1>4. QED
  BY <1>1, <1>2, <1>3 DEF Init, TrailKept

(* A report dated after the trail of every device that is still below      *)
(* DELIVERED keeps the trail in step with the device.                      *)
LEMMA TrailReport ==
  ASSUME TypeOK, TrailKept, manual = 0, manual' = 0, bulk' = 0,
         NEW t \in Scanned, Advance(journey[t], t)
  PROVE  TrailKept'
<1> DEFINE s == journey[t]
<1>1. t \in Times /\ s \in Statuses /\ journey[t] # None
  BY DEF Scanned, TypeOK
<1>2. UNCHANGED <<journey, inside, behind, prior, flagged, cancelled>>
  BY DEF Advance, damageVars
<1>3. CASE UNCHANGED <<unit, last>>
  BY <1>2, <1>3 DEF TrailKept
<1>4. CASE /\ unit' = [u \in Devices |-> IF u \in Follow(s) THEN s ELSE unit[u]]
           /\ last' = [u \in Devices |->
                          IF u \in Follow(s) /\ s = "DELIVERED" THEN Logged(u, s, t) ELSE last[u]]
  <2>1. ASSUME NEW u \in Devices, u \notin Follow(s)
        PROVE  unit'[u] = unit[u] /\ last'[u] = last[u]
    BY <1>4, <2>1
  <2>2. ASSUME NEW u \in Devices, u \in Follow(s)
        PROVE  /\ u \in inside /\ unit[u] \in Spine
               /\ unit'[u] = s
               /\ s = "DELIVERED" \/ s = "RETURNED"
               /\ s = "DELIVERED" => unit[u] \in {"IN_STOCK", "PRINTED", "DISPATCHED"} /\ last'[u] = Logged(u, s, t)
    BY <1>4, <2>2 DEF Follow, Spine
  <2>3. ASSUME NEW u \in Devices \ behind, u \in Follow(s), s = "DELIVERED", u \notin flagged
        PROVE  last'[u].status = unit'[u]
    <3>1. last[u].at < t
      BY <1>1, <2>2, <2>3 DEF TrailKept
    <3>2. Logged(u, s, t) = [status |-> s, at |-> t]
      BY <1>1, <3>1 DEF Logged, TypeOK, Times
    <3>3. QED
      BY <2>2, <2>3, <3>2
  <2>4. \A u \in Devices \ inside :
           unit'[u] = "IN_STOCK" /\ last'[u] = [status |-> "IN_STOCK", at |-> 0]
    BY <2>1, <2>2 DEF TrailKept
  <2>5. ASSUME NEW u \in Devices \ behind
        PROVE  /\ unit'[u] \in Spine /\ u \notin flagged => last'[u].status = unit'[u]
               /\ unit'[u] \in {"IN_STOCK", "PRINTED", "DISPATCHED"} /\ u \notin flagged =>
                     \A v \in Times : journey[v] # None => last'[u].at < v
               /\ unit'[u] = "DAMAGED" => u \in flagged \ cancelled /\ last'[u].status = prior[u]
    <3>1. CASE u \notin Follow(s)
      BY <2>1, <3>1 DEF TrailKept
    <3>2. CASE u \in Follow(s)
      BY <2>2, <2>3, <3>2 DEF Spine
    <3>3. QED
      BY <3>1, <3>2
  <2>6. QED
    BY <1>2, <2>4, <2>5 DEF TrailKept
<1>5. QED
  BY <1>1, <1>3, <1>4, AdvanceCases

LEMMA TrailStep == TypeOK /\ TrailKept /\ [Next]_vars => TrailKept'
<1> SUFFICES ASSUME TypeOK, TrailKept, [Next]_vars, manual' = 0 PROVE TrailKept'
  BY DEF TrailKept
<1>1. manual = 0 /\ bulk = 0
  <2>1. manual = 0
    BY CountsGrow DEF vars, counts
  <2>2. QED
    BY <2>1 DEF TrailKept
<1>2. ASSUME NEW t \in Times, IngestStatus(t) PROVE TrailKept'
  BY <1>1, <1>2, TrailReport DEF IngestStatus
<1>3. ASSUME NEW t \in Times, ResolveStatusException(t) PROVE TrailKept'
  BY <1>1, <1>3, TrailReport DEF ResolveStatusException, TypeOK
<1>4. ASSUME BulkDeliver PROVE FALSE
  BY <1>1, <1>4 DEF BulkDeliver
<1>5. ASSUME \/ ListForBulk
             \/ \E s \in Statuses, t \in 1..now : CorrectStatus(s, t)
             \/ \E u \in Devices, s \in Spine \cup UnitTerminal : CorrectUnitStatus(u, s)
      PROVE  FALSE
  BY <1>1, <1>5 DEF ListForBulk, CorrectStatus, CorrectUnitStatus
<1>6. CASE UNCHANGED <<journey, inside, behind, unit, last, prior, flagged, cancelled, bulk>>
  BY <1>1, <1>6 DEF TrailKept
<1>7. CASE \/ \E t \in Times : Quarantine(t)
           \/ \E s \in Statuses, t \in 1..now : OverrideTerminal(s, t)
           \/ Tick
           \/ UNCHANGED vars
  BY <1>6, <1>7 DEF Quarantine, OverrideTerminal, Tick, vars, deviceVars, damageVars
<1>8. ASSUME NEW u \in Devices, PairDevice(u) PROVE TrailKept'
  <2>1. UNCHANGED <<journey, prior, flagged, cancelled, bulk>> /\ inside' = inside \cup {u} /\ behind \subseteq behind'
    BY <1>8 DEF PairDevice, damageVars
  <2>2. unit[u] = "IN_STOCK" /\ last[u] = [status |-> "IN_STOCK", at |-> 0]
    BY <1>1, <1>8 DEF PairDevice, TrailKept
  <2>3. unit' = [unit EXCEPT ![u] = "DISPATCHED"] /\ last' = [last EXCEPT ![u] = [status |-> "DISPATCHED", at |-> now]]
    BY <1>8, <2>2 DEF PairDevice, Logged, TypeOK
  <2>4. /\ unit'[u] = "DISPATCHED" /\ last'[u].status = "DISPATCHED" /\ last'[u].at = now
        /\ \A w \in Devices \ {u} : unit'[w] = unit[w] /\ last'[w] = last[w]
    BY <2>3 DEF TypeOK
  <2>5. ASSUME u \notin behind', NEW t \in Times, journey[t] # None
        PROVE  now < t
    <3>1. Scanned = {}
      BY <1>8, <2>5 DEF PairDevice
    <3>2. QED
      BY <2>5, <3>1 DEF Scanned, TypeOK, Times
  <2>6. ASSUME NEW w \in Devices \ behind'
        PROVE  /\ unit'[w] \in Spine /\ w \notin flagged => last'[w].status = unit'[w]
               /\ unit'[w] \in {"IN_STOCK", "PRINTED", "DISPATCHED"} /\ w \notin flagged =>
                     \A v \in Times : journey[v] # None => last'[w].at < v
               /\ unit'[w] = "DAMAGED" => w \in flagged \ cancelled /\ last'[w].status = prior[w]
    <3>1. CASE w = u
      BY <2>4, <2>5, <2>6, <3>1
    <3>2. CASE w # u
      BY <1>1, <2>1, <2>4, <2>6, <3>2 DEF TrailKept
    <3>3. QED
      BY <3>1, <3>2
  <2>7. \A w \in Devices \ inside' : unit'[w] = "IN_STOCK" /\ last'[w] = [status |-> "IN_STOCK", at |-> 0]
    BY <1>1, <2>1, <2>4 DEF TrailKept
  <2>8. QED
    BY <1>1, <2>1, <2>6, <2>7 DEF TrailKept
<1>9. ASSUME NEW u \in Devices, FlagDamage(u) PROVE TrailKept'
  <2>1. /\ UNCHANGED <<journey, inside, behind, last, cancelled, bulk>>
        /\ flagged' = flagged \cup {u} /\ u \notin flagged /\ u \in inside
        /\ cancelled \subseteq flagged
    BY <1>9 DEF FlagDamage, TypeOK
  <2>2. CASE unit[u] \in Spine
    <3>1. /\ unit'[u] = "DAMAGED" /\ prior'[u] = unit[u]
          /\ \A w \in Devices \ {u} : unit'[w] = unit[w] /\ prior'[w] = prior[w]
      BY <1>9, <2>2 DEF FlagDamage, TypeOK
    <3>2. u \notin behind => last[u].status = unit[u]
      BY <1>1, <2>1, <2>2 DEF TrailKept
    <3>3. QED
      BY <1>1, <2>1, <3>1, <3>2 DEF TrailKept, Spine
  <2>3. CASE unit[u] \notin Spine
    <3>1. UNCHANGED <<unit, prior>>
      BY <1>9, <2>3 DEF FlagDamage
    <3>2. QED
      BY <1>1, <2>1, <3>1 DEF TrailKept
  <2>4. QED
    BY <2>2, <2>3
<1>10. ASSUME NEW u \in Devices, CancelDamage(u) PROVE TrailKept'
  <2>1. /\ UNCHANGED <<journey, inside, behind, prior, flagged, bulk>>
        /\ cancelled' = cancelled \cup {u} /\ u \in flagged /\ unit[u] = "DAMAGED"
    BY <1>10 DEF CancelDamage
  <2>2. /\ unit'[u] = last[u].status
        /\ \A w \in Devices \ {u} : unit'[w] = unit[w] /\ last'[w] = last[w]
    BY <1>10 DEF CancelDamage, TypeOK
  <2>3. last[u].status # "DAMAGED"
    BY DEF TypeOK, Spine
  <2>4. u \in inside
    BY <1>1, <2>1 DEF TrailKept
  <2>5. QED
    BY <1>1, <2>1, <2>2, <2>3, <2>4 DEF TrailKept
<1>11. QED
  BY <1>2, <1>3, <1>4, <1>5, <1>7, <1>8, <1>9, <1>10 DEF Next
-----------------------------------------------------------------------------
(* Devices and consumers.                                                  *)

LEMMA FollowStep == TypeOK /\ DevicesFollow /\ [Next]_vars => DevicesFollow'
<1> SUFFICES ASSUME TypeOK, DevicesFollow, [Next]_vars, overrides' = 0, parcel'.status \in Settled,
                    NEW u \in inside', u \notin late', u \notin flagged'
             PROVE  unit'[u] \in {parcel'.status} \cup UnitTerminal
  BY DEF DevicesFollow
<1>1. overrides = 0 /\ u \in Devices
  <2>1. u \in Devices
    BY TypeStep DEF TypeOK
  <2>2. overrides = 0
    BY CountsGrow DEF vars, counts
  <2>3. QED
    BY <2>1, <2>2
<1>2. CASE UNCHANGED <<parcel, inside, late, flagged, unit>>
  BY <1>1, <1>2 DEF DevicesFollow
<1>3. ASSUME NEW s \in Statuses, NEW t \in Times, Advance(s, t)
      PROVE  unit'[u] \in {parcel'.status} \cup UnitTerminal
  <2>1. UNCHANGED <<inside, late, flagged>>
    BY <1>3 DEF Advance, damageVars
  <2>2. CASE UNCHANGED <<parcel, unit>>
    BY <1>2, <2>1, <2>2
  <2>3. CASE /\ parcel' = [status |-> s, at |-> t]
             /\ unit' = [w \in Devices |-> IF w \in Follow(s) THEN s ELSE unit[w]]
    <3>1. s \in Settled /\ parcel'.status = s /\ u \in inside
      BY <2>1, <2>3
    <3>2. unit[u] \in Spine \cup UnitTerminal
      BY <1>1 DEF TypeOK
    <3>3. unit'[u] = IF u \in Follow(s) THEN s ELSE unit[u]
      BY <1>1, <2>3
    <3>4. QED
      BY <3>1, <3>2, <3>3 DEF Follow, Settled, Spine
  <2>4. QED
    BY <1>3, <2>2, <2>3 DEF Advance
<1>4. ASSUME NEW t \in Times, IngestStatus(t) \/ ResolveStatusException(t)
      PROVE  unit'[u] \in {parcel'.status} \cup UnitTerminal
  <2>1. t \in Scanned
    BY <1>4 DEF IngestStatus, ResolveStatusException, TypeOK
  <2>2. journey[t] \in Statuses
    BY <2>1, ScanType DEF Scanned
  <2>3. QED
    BY <1>3, <1>4, <2>2 DEF IngestStatus, ResolveStatusException
<1>5. CASE BulkDeliver
  BY <1>3, <1>5 DEF BulkDeliver, TypeOK, Times, Statuses, Ladder
<1>6. ASSUME NEW s \in Statuses, NEW t \in 1..now, CorrectStatus(s, t)
      PROVE  unit'[u] \in {parcel'.status} \cup UnitTerminal
  BY <1>3, <1>6 DEF CorrectStatus, TypeOK, Times
<1>7. ASSUME NEW s \in Statuses, NEW t \in 1..now, OverrideTerminal(s, t) PROVE FALSE
  BY <1>1, <1>7 DEF OverrideTerminal
<1>8. ASSUME NEW w \in Devices, PairDevice(w) PROVE unit'[u] \in {parcel'.status} \cup UnitTerminal
  <2>1. CASE Born
    <3>1. UNCHANGED <<parcel, flagged>> /\ inside' = inside \cup {w} /\ late' = late \cup {w} /\ u # w
      BY <1>8, <2>1 DEF PairDevice, damageVars
    <3>2. u \in inside \ (late \cup flagged) /\ unit'[u] = unit[u]
      BY <1>1, <1>8, <3>1 DEF PairDevice, TypeOK
    <3>3. QED
      BY <1>1, <3>1, <3>2 DEF DevicesFollow
  <2>2. CASE ~Born
    BY <1>8, <2>2 DEF PairDevice, Settled
  <2>3. QED
    BY <2>1, <2>2
<1>9. ASSUME NEW w \in Devices, FlagDamage(w) \/ CancelDamage(w)
      PROVE  unit'[u] \in {parcel'.status} \cup UnitTerminal
  <2>1. UNCHANGED <<parcel, inside, late>> /\ u \notin flagged
    BY <1>9 DEF FlagDamage, CancelDamage, parcelVars
  <2>2. u # w /\ unit'[u] = unit[u]
    BY <1>1, <1>9 DEF FlagDamage, CancelDamage, TypeOK
  <2>3. QED
    BY <1>1, <2>1, <2>2 DEF DevicesFollow
<1>10. ASSUME NEW w \in Devices, NEW s \in Spine \cup UnitTerminal, CorrectUnitStatus(w, s)
       PROVE  unit'[u] \in {parcel'.status} \cup UnitTerminal
  <2>1. UNCHANGED <<parcel, inside, late, flagged>>
    BY <1>10 DEF CorrectUnitStatus, parcelVars, damageVars
  <2>2. unit[u] \in {parcel.status} \cup UnitTerminal /\ parcel.status \in Settled
    BY <1>1, <2>1 DEF DevicesFollow
  <2>3. CanAdvanceUnit(unit[w], s) /\ unit'[u] = IF u = w THEN s ELSE unit[u]
    BY <1>1, <1>10 DEF CorrectUnitStatus, TypeOK
  <2>4. CASE u = w
    <3>1. unit[u] = "DELIVERED"
      BY <2>2, <2>3, <2>4 DEF CanAdvanceUnit, Settled, UnitTerminal
    <3>2. s \notin Spine
      BY <2>3, <2>4, <3>1 DEF CanAdvanceUnit, SpineRank, Spine
    <3>3. QED
      BY <2>3, <2>4, <3>2
  <2>5. QED
    BY <2>1, <2>2, <2>3, <2>4
<1>11. CASE (\E t \in Times : Quarantine(t)) \/ ListForBulk \/ Tick \/ UNCHANGED vars
  BY <1>2, <1>11 DEF Quarantine, ListForBulk, Tick, vars, parcelVars, deviceVars, damageVars
<1>12. QED
  BY <1>4, <1>5, <1>6, <1>7, <1>8, <1>9, <1>10, <1>11 DEF Next

LEMMA HeardStep == TypeOK /\ HeardIsStatus /\ [Next]_vars => HeardIsStatus'
<1> SUFFICES ASSUME TypeOK, HeardIsStatus, [Next]_vars, Born', ~repeated'
             PROVE  heard' = parcel'.status
  BY DEF HeardIsStatus
<1>1. CASE UNCHANGED <<parcel, heard, repeated>>
  BY <1>1 DEF HeardIsStatus, Born
<1>2. ASSUME NEW s, NEW t, Emit(s, t), parcel' = [status |-> s, at |-> t]
      PROVE  heard' = parcel'.status
  BY <1>2 DEF Emit
<1>3. ASSUME NEW s, NEW t, Advance(s, t) PROVE heard' = parcel'.status
  BY <1>1, <1>2, <1>3 DEF Advance, factVars
<1>4. ASSUME NEW s, NEW t, OverrideTerminal(s, t) PROVE heard' = parcel'.status
  BY <1>2, <1>4 DEF OverrideTerminal
<1>5. ASSUME NEW u \in Devices, PairDevice(u) PROVE heard' = parcel'.status
  <2>1. CASE Born
    BY <1>1, <1>5, <2>1 DEF PairDevice
  <2>2. CASE ~Born
    BY <1>5, <2>2 DEF PairDevice
  <2>3. QED
    BY <2>1, <2>2
<1>6. CASE \/ \E t \in Times : Quarantine(t)
           \/ ListForBulk
           \/ \E u \in Devices : FlagDamage(u) \/ CancelDamage(u)
           \/ \E u \in Devices, s \in Spine \cup UnitTerminal : CorrectUnitStatus(u, s)
           \/ Tick
           \/ UNCHANGED vars
  BY <1>1, <1>6 DEF Quarantine, ListForBulk, FlagDamage, CancelDamage, CorrectUnitStatus, Tick, vars, parcelVars, factVars
<1>7. QED
  BY <1>3, <1>4, <1>5, <1>6 DEF Next, IngestStatus, ResolveStatusException, BulkDeliver, CorrectStatus

(* Who moves a device off a status.                                        *)
LEMMA UnitStep ==
  ASSUME TypeOK, [Next]_vars, NEW u \in Devices, unit[u] \in UnitTerminal, unit'[u] # unit[u]
  PROVE  CancelDamage(u)
<1>1. CASE UNCHANGED unit
  BY <1>1
<1>2. ASSUME NEW s, NEW t, Advance(s, t) PROVE FALSE
  <2>1. unit' = [w \in Devices |-> IF w \in Follow(s) THEN s ELSE unit[w]]
    BY <1>1, <1>2 DEF Advance
  <2>2. u \in Follow(s)
    BY <2>1
  <2>3. QED
    BY <2>2 DEF Follow, Spine, UnitTerminal
<1>3. ASSUME NEW w \in Devices, PairDevice(w) PROVE FALSE
  <2>1. unit[w] \in {"IN_STOCK", "PRINTED"} /\ unit' = [unit EXCEPT ![w] = "DISPATCHED"]
    BY <1>1, <1>3 DEF PairDevice
  <2>2. u # w
    BY <2>1 DEF UnitTerminal
  <2>3. QED
    BY <2>1, <2>2 DEF TypeOK
<1>4. ASSUME NEW w \in Devices, FlagDamage(w) PROVE FALSE
  <2>1. unit[w] \in Spine /\ unit' = [unit EXCEPT ![w] = "DAMAGED"]
    BY <1>1, <1>4 DEF FlagDamage
  <2>2. u # w
    BY <2>1 DEF UnitTerminal, Spine
  <2>3. QED
    BY <2>1, <2>2 DEF TypeOK
<1>5. ASSUME NEW w \in Devices, NEW s, CorrectUnitStatus(w, s) PROVE FALSE
  <2>1. unit[w] \notin UnitTerminal /\ unit' = [unit EXCEPT ![w] = s]
    BY <1>5 DEF CorrectUnitStatus, CanAdvanceUnit
  <2>2. QED
    BY <2>1 DEF TypeOK
<1>6. ASSUME NEW w \in Devices, CancelDamage(w) PROVE w = u
  BY <1>6 DEF CancelDamage, TypeOK
<1>7. CASE \/ \E t \in Times : Quarantine(t)
           \/ ListForBulk
           \/ \E s \in Statuses, t \in 1..now : OverrideTerminal(s, t)
           \/ Tick
           \/ UNCHANGED vars
  BY <1>1, <1>7 DEF Quarantine, ListForBulk, OverrideTerminal, Tick, vars, deviceVars
<1>8. QED
  BY <1>2, <1>3, <1>4, <1>5, <1>6, <1>7 DEF Next, IngestStatus, ResolveStatusException, BulkDeliver, CorrectStatus

LEMMA Inductive == Inv /\ [Next]_vars => Inv'
BY TypeStep, LatestStep, TrailStep DEF Inv

-----------------------------------------------------------------------------
(* The theorems.                                                           *)

(***************************************************************************)
(* The inductive invariant of Shipment: types, the latest report and the   *)
(* trail of a device nobody corrected.                                     *)
(***************************************************************************)
THEOREM Invariance == Spec => []Inv
<1>1. Init => Inv
  BY TypeInit, TrailInit DEF Inv
<1>2. QED
  BY <1>1, Inductive, PTL DEF Spec

(***************************************************************************)
(* A parcel nobody corrected stands at the latest report received, in      *)
(* whatever order and by whatever door advanceShipmentStatus gets them.    *)
(***************************************************************************)
THEOREM LatestReportWins == Spec => []LatestWins
<1>1. Inv => LatestWins
  BY DEF Inv
<1>2. QED
  BY <1>1, Invariance, PTL

(***************************************************************************)
(* A settled parcel took its devices with it (advanceUnitsForShipment).    *)
(***************************************************************************)
THEOREM DevicesFollowParcel == Spec => []DevicesFollow
<1>1. Init => DevicesFollow
  BY DEF Init, DevicesFollow, Settled
<1>2. TypeOK /\ DevicesFollow /\ [Next]_vars => DevicesFollow'
  BY FollowStep
<1>3. Inv => TypeOK
  BY DEF Inv
<1>4. QED
  BY <1>1, <1>2, <1>3, Invariance, PTL DEF Spec

(***************************************************************************)
(* The consumers' last status is the parcel's, unless a dedup key of the   *)
(* shipment fact was used twice.                                           *)
(***************************************************************************)
THEOREM ConsumersHear == Spec => []HeardIsStatus
<1>1. Init => HeardIsStatus
  BY DEF Init, HeardIsStatus, Born
<1>2. TypeOK /\ HeardIsStatus /\ [Next]_vars => HeardIsStatus'
  BY HeardStep
<1>3. Inv => TypeOK
  BY DEF Inv
<1>4. QED
  BY <1>1, <1>2, <1>3, Invariance, PTL DEF Spec

(***************************************************************************)
(* A withdrawn flag gives a device back the status it was flagged at       *)
(* (projectReplacementCancelledToUnits), if its sheet came in time.        *)
(***************************************************************************)
THEOREM WithdrawalRestores == Spec => CancelRestores
<1>1. Inv /\ [Next]_vars =>
        \A u \in Devices :
          manual = 0 /\ u \notin behind /\ unit[u] = "DAMAGED" /\ unit'[u] # "DAMAGED" => unit'[u] = prior[u]
  <2> SUFFICES ASSUME Inv, [Next]_vars, NEW u \in Devices, manual = 0, u \notin behind,
                      unit[u] = "DAMAGED", unit'[u] # "DAMAGED"
               PROVE  unit'[u] = prior[u]
    OBVIOUS
  <2>1. TypeOK /\ TrailKept
    BY DEF Inv
  <2>2. CancelDamage(u)
    BY <2>1, UnitStep DEF UnitTerminal
  <2>3. unit'[u] = last[u].status
    BY <2>1, <2>2 DEF CancelDamage, TypeOK
  <2>4. last[u].status = prior[u]
    BY <2>1 DEF TrailKept
  <2>5. QED
    BY <2>3, <2>4
<1>2. QED
  BY <1>1, Invariance, PTL DEF Spec, CancelRestores

(***************************************************************************)
(* A device written off stays so (canAdvanceUnitStatus) until its flag is  *)
(* withdrawn, once.                                                        *)
(***************************************************************************)
THEOREM WrittenOffForGood == Spec => WrittenOffStays
<1>1. Inv /\ [Next]_vars =>
        \A u \in Devices :
          unit[u] \in UnitTerminal /\ unit'[u] # unit[u] => unit[u] = "DAMAGED" /\ u \in cancelled' \ cancelled
  <2> SUFFICES ASSUME Inv, [Next]_vars, NEW u \in Devices, unit[u] \in UnitTerminal, unit'[u] # unit[u]
               PROVE  unit[u] = "DAMAGED" /\ u \in cancelled' \ cancelled
    OBVIOUS
  <2>1. CancelDamage(u)
    BY UnitStep DEF Inv
  <2>2. QED
    BY <2>1 DEF CancelDamage
<1>2. QED
  BY <1>1, Invariance, PTL DEF Spec, WrittenOffStays
=============================================================================
