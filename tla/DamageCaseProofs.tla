-------------------------- MODULE DamageCaseProofs --------------------------
(***************************************************************************)
(* Proofs about DamageCase for chains of any length, any number of         *)
(* activations, edits and overrides, and facts in any order.               *)
(***************************************************************************)
EXTENDS DamageCase, TLAPS

USE ConstantsAssumption

LEMMA Neighbours ==
  /\ \A d \in Replacement : d \in Dispatch /\ d - 1 \in Dispatch /\ (d - 1) + 1 = d /\ d - 1 # d
  /\ \A d \in Dispatch : d + 1 \in Dispatch => d + 1 \in Replacement /\ (d + 1) - 1 = d /\ d + 1 # d
  /\ \A d \in Dispatch : d \in Replacement \/ d = 0
  /\ 0 \in Dispatch /\ 0 \notin Replacement
BY DEF Dispatch, Replacement

LEMMA FactFields ==
  ASSUME NEW k \in Kinds, NEW d \in Dispatch, NEW n \in Nat
  PROVE  /\ Fact(k, d, n) \in Facts
         /\ Fact(k, d, n).kind = k /\ Fact(k, d, n).of = d /\ Fact(k, d, n).n = n
BY DEF Fact, Facts

LEMMA FactsAreFacts ==
  ASSUME TypeOK, NEW f \in facts
  PROVE  f.kind \in Kinds /\ f.of \in Dispatch /\ f.n \in Nat
BY DEF TypeOK, Facts

(* The kinds that the guards of the handlers name.                         *)
LEMMA KindsAreKinds ==
  /\ \A k \in {"demand", "raised", "cancelled", "activated", "deactivated", "batch", "DELIVERED",
               "QR_GENERATED", "SENT_TO_VENDOR", "DISPATCHED_BY_VENDOR"} : k \in Kinds
  /\ DispatchKinds \subseteq Kinds
BY DEF Kinds, DispatchKinds

-----------------------------------------------------------------------------
(* Types. *)

LEMMA InitInv == Init => Inv
<1> SUFFICES ASSUME Init PROVE Inv
  OBVIOUS
<1>1. Fact("demand", 0, 0) \in Facts /\ Fact("demand", 0, 0).kind = "demand" /\ Fact("demand", 0, 0).of = 0
  BY Neighbours, KindsAreKinds, FactFields
<1>2. facts = {Fact("demand", 0, 0)} /\ inbox \subseteq facts
  BY DEF Init
<1>3. TypeOK
  <2>1. facts \subseteq Facts /\ inbox \subseteq facts
    BY <1>1, <1>2
  <2>2. /\ case \in [Dispatch -> CaseStatus \cup {"none"}]
        /\ demand \in [Dispatch -> DemandState \cup {"none"}]
        /\ activated \in [Dispatch -> BOOLEAN]
        /\ delivered \in [Dispatch -> BOOLEAN]
        /\ cancelling \subseteq Replacement
        /\ toggles \in [Dispatch -> 0..MaxToggles]
        /\ edits \in 0..MaxEdits
    BY DEF Init, DemandState
  <2>3. /\ pool \in [Dispatch -> {"NONE", "POOLED", "HELD", "BATCHED", "CANCELLED"}]
        /\ stage \in [Dispatch -> DispatchKinds \cup {"none"}]
        /\ parcel \in [Dispatch -> {"none", "DISPATCHED_BY_VENDOR", "DELIVERED", "RETURNED"}]
        /\ overrides \in [Dispatch -> 0..MaxOverrides]
        /\ group \in Groups
    BY DEF Init, DispatchKinds
  <2>4. /\ unit \in [Dispatch -> UnitStatus \cup UnitTerminal \cup {"none"}]
        /\ prior \in [Dispatch -> UnitStatus \cup {"none"}]
        /\ live \in [Dispatch -> BOOLEAN]
        /\ late \subseteq Dispatch
    BY DEF Init, UnitStatus
  <2>5. QED
    BY <2>1, <2>2, <2>3, <2>4 DEF TypeOK
<1>4. Causality
  <2>1. \A f \in facts : f.of = 0 /\ f.kind = "demand"
    BY <1>1, <1>2
  <2>2. Minted(0) /\ \A d \in Replacement : ~Minted(d) /\ d \notin Shipped
    BY Neighbours DEF Init, Minted
  <2>3. QED
    BY <2>1, <2>2, Neighbours DEF Init, Causality, DispatchKinds, Left, Minted
<1>5. News
  <2>1. \A d \in Replacement : pool[d] # "BATCHED"
    BY Neighbours DEF Init, Left
  <2>2. \A f \in facts : f.kind = "demand"
    BY <1>1, <1>2
  <2>3. \A d \in Replacement : Fact("batch", d, 0) \notin facts /\ Fact("QR_GENERATED", d, 0) \notin facts
    <3>1. \A d \in Replacement : Fact("batch", d, 0).kind = "batch" /\ Fact("QR_GENERATED", d, 0).kind = "QR_GENERATED"
      BY Neighbours, KindsAreKinds, FactFields
    <3>2. QED
      BY <2>2, <3>1
  <2>4. QED
    BY <1>2, <2>1, <2>2, <2>3 DEF News
<1>6. BothHalvesClose /\ DemandMatchesActivation
  BY Neighbours DEF Init, BothHalvesClose, DemandMatchesActivation, Withdrawn
<1>7. Linkage
  <2>1. \A f \in facts : f.n = 0
    BY <1>2, Neighbours, KindsAreKinds, FactFields
  <2>2. \A d \in Replacement : ~Minted(d) /\ case[d] = "none"
    BY Neighbours DEF Init, Minted
  <2>3. \A k \in {"raised", "cancelled"}, d \in Replacement : Fact(k, d, 0) \notin facts
    <3>1. \A k \in {"raised", "cancelled"}, d \in Replacement : Fact(k, d, 0).kind = k
      BY Neighbours, KindsAreKinds, FactFields
    <3>2. QED
      BY <1>1, <1>2, <3>1
  <2>4. \A d \in Replacement : Fact("demand", d, 0) \notin facts
    <3>1. \A d \in Replacement : Fact("demand", d, 0).of = d
      BY Neighbours, KindsAreKinds, FactFields
    <3>2. QED
      BY <1>1, <1>2, <3>1, Neighbours
  <2>5. QED
    BY <1>2, <2>1, <2>2, <2>3, <2>4 DEF Linkage, Withdrawn
<1>8. Toggled
  <2>1. \A f \in facts : f.kind \notin {"activated", "deactivated"}
    BY <1>1, <1>2
  <2>2. ASSUME NEW d \in Dispatch, NEW n \in 0..MaxToggles
        PROVE  Fact("activated", d, n) \notin facts /\ Fact("deactivated", d, n) \notin facts
    BY <2>1, KindsAreKinds, FactFields
  <2>3. \A d \in Dispatch : toggles[d] = 0 /\ ~live[d]
    BY DEF Init
  <2>4. QED
    BY <1>2, <2>1, <2>2, <2>3 DEF Toggled
<1>9. QED
  BY <1>3, <1>4, <1>5, <1>6, <1>7, <1>8 DEF Inv

LEMMA RequestType ==
  ASSUME TypeOK, Causality, NEW d \in Dispatch, Request(d)
  PROVE  TypeOK'
<1> USE DEF TypeOK, CaseStatus, DemandState, Publish, poolVars, parcelVars, unitVars
<1>1. CASE FlagDamage(d)
  <2>1. Fact("raised", d + 1, 0) \in Facts /\ Fact("demand", d + 1, 0) \in Facts
    BY <1>1, KindsAreKinds, FactFields DEF FlagDamage
  <2>2. QED
    BY <1>1, <2>1 DEF FlagDamage
<1>2. CASE CancelRead(d)
  <2>1. d \in Replacement
    BY <1>2, Neighbours DEF CancelRead, Causality
  <2>2. QED
    BY <1>2, <2>1 DEF CancelRead
<1>3. CASE CancelWrite(d)
  <2>1. d - 1 \in Dispatch /\ Fact("cancelled", d, 0) \in Facts
    BY <1>3, Neighbours, KindsAreKinds, FactFields DEF CancelWrite
  <2>2. QED
    BY <1>3, <2>1 DEF CancelWrite
<1>4. CASE Activate(d)
  <2>1. toggles[d] \in Nat /\ toggles[d] + 1 \in 0..MaxToggles
    BY <1>4 DEF Activate
  <2>2. Fact("activated", d, toggles[d]) \in Facts
    BY <2>1, KindsAreKinds, FactFields
  <2>3. QED
    BY <1>4, <2>1, <2>2 DEF Activate, Advance
<1>5. CASE Deactivate(d)
  <2>1. toggles[d] - 1 \in Nat
    BY <1>5 DEF Deactivate, Causality
  <2>2. Fact("deactivated", d, toggles[d] - 1) \in Facts
    BY <2>1, KindsAreKinds, FactFields
  <2>3. QED
    BY <1>5, <2>2 DEF Deactivate
<1>6. CASE UpdateCase(d)
  BY <1>6 DEF UpdateCase
<1>7. QED
  BY <1>1, <1>2, <1>3, <1>4, <1>5, <1>6 DEF Request

LEMMA WorkType ==
  ASSUME TypeOK, NEW d \in Dispatch, Work(d)
  PROVE  TypeOK'
<1> USE DEF TypeOK, DispatchKinds, UnitStatus, UnitTerminal, Publish, tmsVars, poolVars, parcelVars, unitVars
<1>1. CASE Hold(d)
  BY <1>1 DEF Hold
<1>2. CASE FormBatch(d)
  BY <1>2, KindsAreKinds, FactFields DEF FormBatch
<1>3. CASE SendToVendor(d)
  BY <1>3, KindsAreKinds, FactFields DEF SendToVendor
<1>4. CASE ReturnSheet(d)
  <2>1. parcel' \in [Dispatch -> {"none", "DISPATCHED_BY_VENDOR", "DELIVERED", "RETURNED"}]
    BY <1>4 DEF ReturnSheet
  <2>2. unit' \in [Dispatch -> UnitStatus \cup UnitTerminal \cup {"none"}] /\ prior' \in [Dispatch -> UnitStatus \cup {"none"}]
    BY <1>4 DEF ReturnSheet
  <2>3. stage' \in [Dispatch -> DispatchKinds \cup {"none"}]
    BY <1>4 DEF ReturnSheet
  <2>4. facts' \subseteq Facts /\ facts \subseteq facts'
    BY <1>4, KindsAreKinds, FactFields DEF ReturnSheet
  <2>5. QED
    BY <1>4, <2>1, <2>2, <2>3, <2>4 DEF ReturnSheet
<1>5. CASE CourierReports(d)
  <2>1. PICK s \in {"DELIVERED", "RETURNED"} :
          /\ parcel' = [parcel EXCEPT ![d] = s]
          /\ IF unit[d] \in UnitStatus
               THEN /\ unit' = [unit EXCEPT ![d] = s]
                    /\ \/ s = "DELIVERED" /\ prior' = [prior EXCEPT ![d] = s]
                       \/ UNCHANGED prior
               ELSE UNCHANGED <<unit, prior>>
          /\ IF s = "DELIVERED" THEN Publish({Fact("DELIVERED", d, 0)}) ELSE UNCHANGED facts
    BY <1>5 DEF CourierReports
  <2>2. parcel' \in [Dispatch -> {"none", "DISPATCHED_BY_VENDOR", "DELIVERED", "RETURNED"}]
    BY <2>1
  <2>3. unit' \in [Dispatch -> UnitStatus \cup UnitTerminal \cup {"none"}] /\ prior' \in [Dispatch -> UnitStatus \cup {"none"}]
    BY <2>1
  <2>4. facts' \subseteq Facts /\ facts \subseteq facts'
    BY <2>1, KindsAreKinds, FactFields
  <2>5. QED
    BY <1>5, <2>2, <2>3, <2>4 DEF CourierReports
<1>6. CASE OverrideTerminal(d)
  <2>1. overrides[d] + 1 \in 0..MaxOverrides /\ overrides'[d] = overrides[d] + 1 /\ overrides'[d] \in Nat
    BY <1>6 DEF OverrideTerminal
  <2>2. Fact("DELIVERED", d, overrides'[d]) \in Facts
    BY <2>1, KindsAreKinds, FactFields
  <2>3. QED
    BY <1>6, <2>1, <2>2 DEF OverrideTerminal
<1>7. QED
  BY <1>1, <1>2, <1>3, <1>4, <1>5, <1>6 DEF Work

LEMMA HandleType ==
  ASSUME TypeOK, Causality, NEW f \in facts, Handle(f)
  PROVE  TypeOK'
<1> USE DEF TypeOK, Publish, tmsVars, poolVars, parcelVars, unitVars
<1> DEFINE d == f.of
<1>1. d \in Dispatch
  BY FactsAreFacts
<1>2. Consume(f) => inbox' \subseteq facts
  BY DEF Consume
<1>3. CASE ProjectDemand(f)
  BY <1>1, <1>2, <1>3 DEF ProjectDemand
<1>4. CASE ConsumeBatch(f)
  BY <1>1, <1>2, <1>4, KindsAreKinds, FactFields DEF ConsumeBatch, DispatchKinds
<1>5. CASE ProjectReplacement(f)
  <2>1. d - 1 \in Dispatch
    BY <1>5, Neighbours DEF ProjectReplacement, Causality
  <2>2. QED
    BY <1>2, <1>5, <2>1 DEF ProjectReplacement, UnitTerminal, UnitStatus
<1>6. CASE ProjectCancelled(f)
  <2>1. d - 1 \in Dispatch
    BY <1>6, Neighbours DEF ProjectCancelled, Causality
  <2>2. QED
    BY <1>1, <1>2, <1>6, <2>1 DEF ProjectCancelled
<1>7. CASE ProjectActivation(f)
  BY <1>1, <1>2, <1>7 DEF ProjectActivation
<1>8. CASE ProjectDeactivation(f)
  BY <1>1, <1>2, <1>8 DEF ProjectDeactivation
<1>9. CASE ProjectDispatch(f)
  BY <1>1, <1>2, <1>9 DEF ProjectDispatch, Advance, CaseStatus
<1>10. CASE ProjectShipment(f)
  BY <1>1, <1>2, <1>10 DEF ProjectShipment, Advance, CaseStatus
<1>11. QED
  BY <1>3, <1>4, <1>5, <1>6, <1>7, <1>8, <1>9, <1>10 DEF Handle

LEMMA NextType == TypeOK /\ Causality /\ [Next]_vars => TypeOK'
<1> SUFFICES ASSUME TypeOK, Causality, [Next]_vars PROVE TypeOK'
  OBVIOUS
<1>1. CASE UNCHANGED vars
  BY <1>1 DEF vars, tmsVars, poolVars, parcelVars, unitVars, TypeOK
<1>2. QED
  BY <1>1, RequestType, WorkType, HandleType DEF Next

-----------------------------------------------------------------------------
(* No row and no fact before the dispatch is minted.                       *)

LEMMA RequestCausality ==
  ASSUME TypeOK, Causality, NEW d \in Dispatch, Request(d)
  PROVE  Causality'
<1> USE DEF TypeOK, Causality, Minted, Publish, poolVars, parcelVars, unitVars
<1>1. CASE FlagDamage(d)
  <2>1. d + 1 \in Replacement /\ d + 1 \in Dispatch /\ d + 1 # d
    BY <1>1, Neighbours DEF FlagDamage
  <2>2. /\ \A e \in Dispatch : demand'[e] # "none" <=> (demand[e] # "none" \/ e = d + 1)
        /\ \A e \in Dispatch : case'[e] = IF e = d + 1 THEN "Open" ELSE case[e]
    BY <1>1 DEF FlagDamage
  <2>3. facts' = facts \cup {Fact("raised", d + 1, 0), Fact("demand", d + 1, 0)}
    BY <1>1 DEF FlagDamage
  <2>4. /\ Fact("raised", d + 1, 0).of = d + 1 /\ Fact("raised", d + 1, 0).kind = "raised"
        /\ Fact("demand", d + 1, 0).of = d + 1 /\ Fact("demand", d + 1, 0).kind = "demand"
    BY <1>1, KindsAreKinds, FactFields DEF FlagDamage
  <2>5. \A f \in facts' :
          /\ demand'[f.of] # "none"
          /\ f.kind \in {"raised", "cancelled"} => f.of \in Replacement
          /\ f.kind \in {"batch"} \cup DispatchKinds => pool[f.of] = "BATCHED"
    <3>1. \A f \in facts : f.of \in Dispatch
      BY FactsAreFacts
    <3>2. \A f \in facts' : f \in facts \/ (f.of = d + 1 /\ f.kind \in {"raised", "demand"})
      BY <2>3, <2>4
    <3>3. ASSUME NEW f \in facts'
          PROVE  /\ demand'[f.of] # "none"
                 /\ f.kind \in {"raised", "cancelled"} => f.of \in Replacement
                 /\ f.kind \in {"batch"} \cup DispatchKinds => pool[f.of] = "BATCHED"
      <4>1. CASE f \in facts
        BY <2>2, <3>1, <4>1
      <4>2. CASE f.of = d + 1 /\ f.kind \in {"raised", "demand"}
        BY <2>1, <2>2, <4>2 DEF DispatchKinds
      <4>3. QED
        BY <3>2, <4>1, <4>2
    <3>4. QED
      BY <3>3
  <2>6. UNCHANGED <<activated, delivered, cancelling, toggles, pool, stage, parcel, unit>>
    BY <1>1 DEF FlagDamage
  <2>7. /\ demand'[0] # "none" /\ case'[0] = "none"
        /\ \A e \in Replacement : demand'[e] # "none" <=> case'[e] # "none"
        /\ \A e \in cancelling : e \in Replacement /\ demand'[e] # "none"
    BY <2>1, <2>2, Neighbours
  <2>8. \A e \in Dispatch :
          /\ demand'[e] = "none" => ~activated[e] /\ ~delivered[e] /\ pool[e] = "NONE"
          /\ activated[e] => toggles[e] > 0
          /\ parcel[e] # "none" => pool[e] = "BATCHED"
          /\ stage[e] # "none" => pool[e] = "BATCHED"
          /\ parcel[e] = "none" => unit[e] = "none"
    BY <2>2
  <2>9. QED
    BY <2>5, <2>6, <2>7, <2>8
<1>2. CASE CancelRead(d)
  BY <1>2, Neighbours DEF CancelRead
<1>3. CASE CancelWrite(d)
  <2>1. d \in Replacement /\ d - 1 \in Dispatch /\ demand[d] # "none" /\ case[d] # "none"
    BY <1>3, Neighbours DEF CancelWrite
  <2>2. /\ \A e \in Dispatch : demand'[e] # "none" <=> demand[e] # "none"
        /\ \A e \in Dispatch : case'[e] # "none" <=> case[e] # "none"
        /\ case'[0] = case[0]
    BY <1>3, <2>1, Neighbours DEF CancelWrite
  <2>3. facts' \subseteq facts \cup {Fact("cancelled", d, 0)}
    BY <1>3 DEF CancelWrite
  <2>4. Fact("cancelled", d, 0).of = d /\ Fact("cancelled", d, 0).kind = "cancelled"
    BY KindsAreKinds, FactFields
  <2>5. \A f \in facts' :
          /\ demand'[f.of] # "none"
          /\ f.kind \in {"raised", "cancelled"} => f.of \in Replacement
          /\ f.kind \in {"batch"} \cup DispatchKinds => pool[f.of] = "BATCHED"
    BY <2>1, <2>2, <2>3, <2>4, FactsAreFacts DEF DispatchKinds
  <2>6. QED
    BY <1>3, <2>1, <2>2, <2>5, Neighbours DEF CancelWrite
<1>4. CASE Activate(d) \/ Deactivate(d)
  <2>1. demand[d] # "none"
    BY <1>4 DEF Activate, Deactivate
  <2>2. /\ \A e \in Dispatch : demand'[e] # "none" <=> demand[e] # "none"
        /\ \A e \in Dispatch : case'[e] # "none" <=> case[e] # "none"
        /\ case'[0] = case[0]
    BY <1>4, <2>1, Neighbours DEF Activate, Deactivate, Advance
  <2>3. PICK k \in {"activated", "deactivated"}, n \in Nat : facts' = facts \cup {Fact(k, d, n)}
    <3>1. CASE Activate(d)
      BY <3>1 DEF Activate
    <3>2. CASE Deactivate(d)
      <4>1. toggles[d] - 1 \in Nat
        BY <3>2 DEF Deactivate
      <4>2. QED
        BY <3>2, <4>1 DEF Deactivate
    <3>3. QED
      BY <1>4, <3>1, <3>2
  <2>4. Fact(k, d, n).of = d /\ Fact(k, d, n).kind = k
    BY KindsAreKinds, FactFields
  <2>7. UNCHANGED <<delivered, cancelling, pool, stage, parcel, unit>>
    BY <1>4 DEF Activate, Deactivate
  <2>5. \A f \in facts' :
          /\ demand'[f.of] # "none"
          /\ f.kind \in {"raised", "cancelled"} => f.of \in Replacement
          /\ f.kind \in {"batch"} \cup DispatchKinds => pool[f.of] = "BATCHED"
    <3>1. ASSUME NEW f \in facts PROVE f.of \in Dispatch
      BY FactsAreFacts
    <3>2. \A f \in facts' : f \in facts \/ (f.of = d /\ f.kind \notin {"raised", "cancelled", "batch"} \cup DispatchKinds)
      BY <2>3, <2>4 DEF DispatchKinds
    <3>3. QED
      BY <2>1, <2>2, <3>1, <3>2, <2>7
  <2>6. /\ \A e \in Dispatch : activated'[e] => (activated[e] \/ e = d)
        /\ \A e \in Dispatch : activated'[e] => toggles'[e] > 0
    BY <1>4, <2>1 DEF Activate, Deactivate
  <2>8. \A e \in Dispatch :
          /\ demand'[e] = "none" => ~activated'[e] /\ ~delivered'[e] /\ pool'[e] = "NONE"
          /\ activated'[e] => toggles'[e] > 0
          /\ parcel'[e] # "none" => pool'[e] = "BATCHED"
          /\ stage'[e] # "none" => pool'[e] = "BATCHED"
          /\ parcel'[e] = "none" => unit'[e] = "none"
    BY <2>1, <2>2, <2>6, <2>7
  <2>9. QED
    BY <2>2, <2>5, <2>7, <2>8, Neighbours
<1>5. CASE UpdateCase(d)
  <2>1. \A e \in Dispatch : case'[e] # "none" <=> case[e] # "none"
    BY <1>5, Neighbours DEF UpdateCase, CaseStatus
  <2>2. case'[0] = case[0]
    BY <1>5, Neighbours DEF UpdateCase
  <2>3. QED
    BY <1>5, <2>1, <2>2, Neighbours DEF UpdateCase
<1>6. QED
  BY <1>1, <1>2, <1>3, <1>4, <1>5 DEF Request

(* A fact that work or consumption may add. *)
Grounded(f) ==
    /\ f.of \in Dispatch
    /\ Minted(f.of)
    /\ f.kind \notin {"raised", "cancelled"}
    /\ f.kind \in {"batch"} \cup DispatchKinds => pool'[f.of] = "BATCHED"

(* What the statements of work and of consumption leave of Causality.      *)
LEMMA CausalStep ==
  ASSUME TypeOK, Causality,
         UNCHANGED <<demand, activated, cancelling, toggles>>,
         case'[0] = case[0],
         \A e \in Dispatch : case'[e] # "none" <=> case[e] # "none",
         \A e \in Dispatch : delivered'[e] => delivered[e] \/ Minted(e),
         \A e \in Dispatch : pool'[e] # "NONE" => pool[e] # "NONE" \/ Minted(e),
         \A e \in Dispatch : pool[e] = "BATCHED" => pool'[e] = "BATCHED",
         \A e \in Dispatch : parcel'[e] # "none" => pool'[e] = "BATCHED",
         \A e \in Dispatch : stage'[e] # "none" => pool'[e] = "BATCHED",
         \A e \in Dispatch : parcel'[e] = "none" => unit'[e] = "none",
         \A f \in facts' : f \in facts \/ Grounded(f)
  PROVE  Causality'
<1>1. \A e \in Dispatch : Minted(e)' <=> Minted(e)
  BY DEF Minted
<1>2. \A e \in Dispatch :
        /\ ~Minted(e)' => ~activated'[e] /\ ~delivered'[e] /\ pool'[e] = "NONE"
        /\ activated'[e] => toggles'[e] > 0
        /\ parcel'[e] # "none" => pool'[e] = "BATCHED"
        /\ stage'[e] # "none" => pool'[e] = "BATCHED"
        /\ parcel'[e] = "none" => unit'[e] = "none"
  BY <1>1 DEF Causality
<1>3. ASSUME NEW f \in facts'
      PROVE  /\ Minted(f.of)'
             /\ f.kind \in {"raised", "cancelled"} => f.of \in Replacement
             /\ f.kind \in {"batch"} \cup DispatchKinds => pool'[f.of] = "BATCHED"
  <2>1. CASE f \in facts
    BY <1>1, <2>1, FactsAreFacts DEF Causality
  <2>2. CASE Grounded(f)
    BY <1>1, <2>2 DEF Grounded
  <2>3. QED
    BY <2>1, <2>2
<1>4. Minted(0)' /\ case'[0] = "none" /\ \A e \in Replacement : Minted(e)' <=> case'[e] # "none"
  BY <1>1, Neighbours DEF Causality
<1>5. \A e \in cancelling' : e \in Replacement /\ Minted(e)'
  BY <1>1, Neighbours DEF Causality
<1>6. QED
  BY <1>2, <1>3, <1>4, <1>5 DEF Causality, Minted

LEMMA WorkCausality ==
  ASSUME TypeOK, Causality, NEW d \in Dispatch, Work(d)
  PROVE  Causality'
<1> USE DEF Publish, tmsVars, poolVars, parcelVars, unitVars
<1>1. UNCHANGED <<case, demand, activated, delivered, cancelling, toggles>>
  BY DEF Work, Hold, FormBatch, SendToVendor, ReturnSheet, CourierReports, OverrideTerminal
<1>2. /\ \A e \in Dispatch : pool'[e] # "NONE" => pool[e] # "NONE"
      /\ \A e \in Dispatch : pool[e] = "BATCHED" => pool'[e] = "BATCHED"
  BY DEF Work, Hold, FormBatch, SendToVendor, ReturnSheet, CourierReports, OverrideTerminal, TypeOK
<1>3. \A e \in Dispatch : stage'[e] # "none" => stage[e] # "none"
  BY DEF Work, Hold, FormBatch, SendToVendor, ReturnSheet, CourierReports, OverrideTerminal, TypeOK
<1>4. \A e \in Dispatch : parcel'[e] # "none" => parcel[e] # "none" \/ pool[e] = "BATCHED"
  BY DEF Work, Hold, FormBatch, SendToVendor, ReturnSheet, CourierReports, OverrideTerminal, TypeOK
<1>5. \A e \in Dispatch : parcel'[e] = "none" => parcel[e] = "none" /\ unit'[e] = unit[e]
  BY DEF Work, Hold, FormBatch, SendToVendor, ReturnSheet, CourierReports, OverrideTerminal, TypeOK
<1>6. ASSUME NEW f \in facts', f \notin facts
      PROVE  /\ f.of = d /\ pool'[d] = "BATCHED"
             /\ f.kind \in {"batch", "SENT_TO_VENDOR", "DISPATCHED_BY_VENDOR", "DELIVERED"}
  <2>1. CASE FormBatch(d)
    BY <1>6, <2>1, KindsAreKinds, FactFields DEF FormBatch, TypeOK
  <2>2. CASE SendToVendor(d)
    BY <1>2, <1>6, <2>2, KindsAreKinds, FactFields DEF SendToVendor, Causality
  <2>3. CASE ReturnSheet(d)
    BY <1>2, <1>6, <2>3, KindsAreKinds, FactFields DEF ReturnSheet
  <2>4. CASE CourierReports(d)
    BY <1>2, <1>6, <2>4, KindsAreKinds, FactFields DEF CourierReports, Causality
  <2>5. CASE OverrideTerminal(d)
    <3>1. overrides'[d] \in Nat
      BY <2>5 DEF OverrideTerminal, TypeOK
    <3>2. QED
      BY <1>2, <1>6, <2>5, <3>1, KindsAreKinds, FactFields DEF OverrideTerminal, Causality
  <2>6. CASE Hold(d)
    BY <1>6, <2>6 DEF Hold
  <2>7. QED
    BY <2>1, <2>2, <2>3, <2>4, <2>5, <2>6 DEF Work
<1>7. \A f \in facts' : f \in facts \/ Grounded(f)
  BY <1>2, <1>6 DEF Causality, Grounded
<1>8. /\ \A e \in Dispatch : parcel'[e] # "none" => pool'[e] = "BATCHED"
      /\ \A e \in Dispatch : stage'[e] # "none" => pool'[e] = "BATCHED"
      /\ \A e \in Dispatch : parcel'[e] = "none" => unit'[e] = "none"
  BY <1>2, <1>3, <1>4, <1>5 DEF Causality
<1>9. QED
  BY <1>1, <1>2, <1>7, <1>8, CausalStep

LEMMA AdvanceMoves ==
  ASSUME TypeOK, NEW d \in Dispatch, NEW target \in {"In-Progress", "Closed"}, Advance(d, target)
  PROVE  /\ \A e \in Dispatch : e # d => case'[e] = case[e]
         /\ \/ case'[d] = case[d]
            \/ /\ d \in Replacement /\ case[d] \in {"Open", "In-Progress"} /\ case'[d] = target
               /\ target = "In-Progress" => case[d] = "Open"
         /\ d \in Replacement /\ case[d] = "Open" => case'[d] = target
         /\ d \in Replacement /\ case[d] = "In-Progress" /\ target = "Closed" => case'[d] = target
BY DEF Advance, Behind, TypeOK

(* A handler of tms moves one case forward or none.                        *)
LEMMA HandlerAdvances ==
  ASSUME TypeOK, NEW f \in facts, Handle(f)
  PROVE  /\ \A e \in Dispatch :
              \/ case'[e] = case[e]
              \/ /\ e \in Replacement /\ case[e] \in {"Open", "In-Progress"}
                 /\ case'[e] \in {"In-Progress", "Closed"}
                 /\ case'[e] = "In-Progress" => case[e] = "Open"
         /\ UNCHANGED <<demand, activated, cancelling, toggles, edits>>
         /\ inbox' = inbox \cup {f}
         /\ \A g \in facts' : g \in facts \/ (g = Fact("QR_GENERATED", f.of, 0) /\ f.kind = "batch")
<1> USE DEF Publish, tmsVars, poolVars, parcelVars, unitVars
<1>1. f.of \in Dispatch
  BY FactsAreFacts
<1>2. CASE ProjectDispatch(f)
  BY <1>1, <1>2, AdvanceMoves DEF ProjectDispatch, Consume
<1>3. CASE ProjectShipment(f)
  BY <1>1, <1>3, AdvanceMoves DEF ProjectShipment, Consume
<1>4. CASE \/ ProjectDemand(f) \/ ConsumeBatch(f) \/ ProjectReplacement(f) \/ ProjectCancelled(f)
           \/ ProjectActivation(f) \/ ProjectDeactivation(f)
  BY <1>4 DEF ProjectDemand, ConsumeBatch, ProjectReplacement, ProjectCancelled,
              ProjectActivation, ProjectDeactivation, Consume
<1>5. QED
  BY <1>2, <1>3, <1>4 DEF Handle

LEMMA HandleCausality ==
  ASSUME TypeOK, Causality, NEW f \in facts, Handle(f)
  PROVE  Causality'
<1> USE DEF tmsVars, poolVars, parcelVars, unitVars
<1>1. f.of \in Dispatch /\ Minted(f.of)
  BY FactsAreFacts DEF Causality
<1>2. /\ UNCHANGED <<demand, activated, cancelling, toggles>>
      /\ case'[0] = case[0]
      /\ \A e \in Dispatch : case'[e] # "none" <=> case[e] # "none"
  BY HandlerAdvances, Neighbours
<1>3. \A e \in Dispatch : delivered'[e] => delivered[e] \/ Minted(e)
  BY <1>1 DEF Handle, ProjectDemand, ConsumeBatch, ProjectReplacement, ProjectCancelled,
          ProjectActivation, ProjectDeactivation, ProjectDispatch, ProjectShipment, TypeOK
<1>4. /\ \A e \in Dispatch : pool'[e] # "NONE" => pool[e] # "NONE" \/ Minted(e)
      /\ \A e \in Dispatch : pool[e] = "BATCHED" => pool'[e] = "BATCHED"
  BY <1>1 DEF Handle, ProjectDemand, ConsumeBatch, ProjectReplacement, ProjectCancelled,
          ProjectActivation, ProjectDeactivation, ProjectDispatch, ProjectShipment, TypeOK
<1>5. f.kind = "batch" => pool[f.of] = "BATCHED"
  BY DEF Causality
<1>6. UNCHANGED parcel /\ \A e \in Dispatch : unit[e] = "none" => unit'[e] = "none"
  <2>1. CASE ProjectReplacement(f)
    BY <2>1 DEF ProjectReplacement, TypeOK, UnitStatus
  <2>2. CASE ProjectCancelled(f)
    BY <2>2 DEF ProjectCancelled, TypeOK
  <2>3. QED
    BY <2>1, <2>2 DEF Handle, ProjectDemand, ConsumeBatch,
          ProjectActivation, ProjectDeactivation, ProjectDispatch, ProjectShipment
<1>7. \A e \in Dispatch : stage'[e] # "none" => stage[e] # "none" \/ pool[e] = "BATCHED"
  BY <1>5 DEF Handle, ProjectDemand, ConsumeBatch, ProjectReplacement, ProjectCancelled,
          ProjectActivation, ProjectDeactivation, ProjectDispatch, ProjectShipment, TypeOK
<1>8. \A g \in facts' : g \in facts \/ Grounded(g)
  <2>1. Fact("QR_GENERATED", f.of, 0).of = f.of /\ Fact("QR_GENERATED", f.of, 0).kind = "QR_GENERATED"
    BY <1>1, KindsAreKinds, FactFields
  <2>2. QED
    BY <1>1, <1>4, <1>5, <2>1, HandlerAdvances DEF Grounded
<1>9. /\ \A e \in Dispatch : parcel'[e] # "none" => pool'[e] = "BATCHED"
      /\ \A e \in Dispatch : stage'[e] # "none" => pool'[e] = "BATCHED"
      /\ \A e \in Dispatch : parcel'[e] = "none" => unit'[e] = "none"
  BY <1>4, <1>6, <1>7 DEF Causality
<1>10. QED
  BY <1>2, <1>3, <1>4, <1>8, <1>9, CausalStep

LEMMA NextCausality == TypeOK /\ Causality /\ [Next]_vars => Causality'
<1> SUFFICES ASSUME TypeOK, Causality, [Next]_vars PROVE Causality'
  OBVIOUS
<1>1. CASE UNCHANGED vars
  BY <1>1 DEF vars, tmsVars, poolVars, parcelVars, unitVars, Causality, Minted
<1>2. QED
  BY <1>1, RequestCausality, WorkCausality, HandleCausality DEF Next

-----------------------------------------------------------------------------
(* What operators, work and facts do to the cases.                         *)

(* What a request changes of cases, demand and activation, one line per    *)
(* operation.                                                              *)
LEMMA RequestEffects ==
  ASSUME TypeOK, Causality, NEW d \in Dispatch, Request(d)
  PROVE  /\ UNCHANGED <<delivered, inbox, pool>>
         /\ facts \subseteq facts'
         /\ \/ FlagDamage(d) /\ edits' = edits
            \/ d \in Replacement /\ d - 1 \in Dispatch /\ (CancelRead(d) \/ CancelWrite(d)) /\ edits' = edits
            \/ (Activate(d) \/ Deactivate(d)) /\ edits' = edits
            \/ edits' # 0
<1> USE DEF Publish, poolVars, parcelVars, unitVars
<1>1. UNCHANGED <<delivered, inbox, pool>> /\ facts \subseteq facts'
  BY DEF Request, FlagDamage, CancelRead, CancelWrite, Activate, Deactivate, UpdateCase
<1>2. CASE FlagDamage(d)
  BY <1>1, <1>2 DEF FlagDamage
<1>3. CASE CancelRead(d)
  BY <1>1, <1>3, Neighbours DEF CancelRead, Causality
<1>4. CASE CancelWrite(d)
  BY <1>1, <1>4, Neighbours DEF CancelWrite, TypeOK
<1>5. CASE Activate(d) \/ Deactivate(d)
  BY <1>1, <1>5 DEF Activate, Deactivate
<1>6. CASE UpdateCase(d)
  <2>1. edits' = edits + 1 /\ edits \in Nat
    BY <1>6 DEF UpdateCase, TypeOK
  <2>2. QED
    BY <1>1, <2>1
<1>7. QED
  BY <1>2, <1>3, <1>4, <1>5, <1>6 DEF Request

LEMMA RequestNews ==
  ASSUME TypeOK, Causality, News, NEW d \in Dispatch, Request(d)
  PROVE  News'
<1> USE DEF Publish, poolVars, parcelVars, unitVars
<1>1. UNCHANGED <<delivered, inbox, pool>> /\ facts \subseteq facts'
  BY RequestEffects
<1>2. /\ \A e \in Replacement : pool'[e] = "BATCHED" => Fact("batch", e, 0) \in facts'
      /\ \A e \in Replacement : Fact("batch", e, 0) \in inbox' => Fact("QR_GENERATED", e, 0) \in facts'
  BY <1>1 DEF News
<1>3. \A e \in Dispatch, k \in {"QR_GENERATED", "cancelled"} :
        ~Minted(e) => \A g \in facts : g.of = e => g.kind # k
  BY DEF Causality
<1>4. ASSUME edits' = 0
      PROVE  /\ \A e \in Replacement : Fact("QR_GENERATED", e, 0) \in inbox => case'[e] # "Open"
             /\ \A g \in facts' : g.kind = "cancelled" => case'[g.of] = "Cancelled"
  <2>1. CASE FlagDamage(d) /\ edits' = edits
    <3>1. ~Minted(d + 1) /\ \A e \in Dispatch : case'[e] = IF e = d + 1 THEN "Open" ELSE case[e]
      BY <2>1 DEF FlagDamage, TypeOK
    <3>2. \A g \in facts : g.of # d + 1
      BY <3>1 DEF Causality
    <3>3. \A e \in Replacement : Fact("QR_GENERATED", e, 0) \in inbox => e # d + 1
      <4>1. \A e \in Replacement : Fact("QR_GENERATED", e, 0).of = e
        BY Neighbours, KindsAreKinds, FactFields
      <4>2. inbox \subseteq facts
        BY DEF TypeOK
      <4>3. QED
        BY <3>2, <4>1, <4>2
    <3>4. \A g \in facts' : g \in facts \/ g.kind # "cancelled"
      BY <2>1, KindsAreKinds, FactFields DEF FlagDamage
    <3>5. QED
      BY <1>4, <2>1, <3>1, <3>2, <3>3, <3>4, Neighbours, FactsAreFacts DEF News, Unedited, Withdrawn
  <2>2. CASE d \in Replacement /\ (CancelRead(d) \/ CancelWrite(d)) /\ edits' = edits
    <3>1. \A e \in Dispatch : case'[e] = case[e] \/ case'[e] = "Cancelled"
      BY <2>2 DEF CancelRead, CancelWrite, TypeOK
    <3>2. \A g \in facts' : g \in facts \/ (g = Fact("cancelled", d, 0) /\ case'[d] = "Cancelled")
      BY <2>2 DEF CancelRead, CancelWrite, TypeOK
    <3>3. Fact("cancelled", d, 0).of = d
      BY KindsAreKinds, FactFields
    <3>4. QED
      BY <1>4, <2>2, <3>1, <3>2, <3>3, Neighbours, FactsAreFacts DEF News, Unedited, Withdrawn
  <2>3. CASE (Activate(d) \/ Deactivate(d)) /\ edits' = edits
    <3>1. \A e \in Dispatch : case'[e] = case[e] \/ (case'[e] = "Closed" /\ case[e] # "Cancelled")
      BY <2>3, AdvanceMoves DEF Activate, Deactivate
    <3>2. \A g \in facts' : g \in facts \/ g.kind # "cancelled"
      <4>1. CASE Activate(d)
        BY <4>1, KindsAreKinds, FactFields DEF Activate, TypeOK
      <4>2. CASE Deactivate(d)
        <5>1. toggles[d] - 1 \in Nat
          BY <4>2 DEF Deactivate, Causality, TypeOK
        <5>2. QED
          BY <4>2, <5>1, KindsAreKinds, FactFields DEF Deactivate
      <4>3. QED
        BY <2>3, <4>1, <4>2
    <3>3. QED
      BY <1>4, <2>3, <3>1, <3>2, Neighbours, FactsAreFacts DEF News, Unedited, Withdrawn
  <2>4. QED
    BY <1>4, <2>1, <2>2, <2>3, RequestEffects
<1>5. QED
  BY <1>1, <1>2, <1>4 DEF News, Unedited, Withdrawn

LEMMA WorkNews ==
  ASSUME TypeOK, Causality, News, NEW d \in Dispatch, Work(d)
  PROVE  News'
<1> USE DEF Publish, tmsVars, poolVars, parcelVars, unitVars
<1>1. UNCHANGED <<case, edits, inbox>> /\ facts \subseteq facts'
  BY DEF Work, Hold, FormBatch, SendToVendor, ReturnSheet, CourierReports, OverrideTerminal
<1>2. \A e \in Dispatch : pool'[e] = "BATCHED" => pool[e] = "BATCHED" \/ Fact("batch", e, 0) \in facts'
  BY DEF Work, Hold, FormBatch, SendToVendor, ReturnSheet, CourierReports, OverrideTerminal, TypeOK
<1>3. \A g \in facts' : g \in facts \/ g.kind # "cancelled"
  <2>1. CASE FormBatch(d) \/ SendToVendor(d) \/ ReturnSheet(d) \/ CourierReports(d)
    BY <2>1, KindsAreKinds, FactFields DEF FormBatch, SendToVendor, ReturnSheet, CourierReports
  <2>2. CASE OverrideTerminal(d)
    <3>1. overrides'[d] \in Nat
      BY <2>2 DEF OverrideTerminal, TypeOK
    <3>2. QED
      BY <2>2, <3>1, KindsAreKinds, FactFields DEF OverrideTerminal
  <2>3. CASE Hold(d)
    BY <2>3 DEF Hold
  <2>4. QED
    BY <2>1, <2>2, <2>3 DEF Work
<1>4. QED
  BY <1>1, <1>2, <1>3, Neighbours DEF News, Unedited, Withdrawn

LEMMA HandleNews ==
  ASSUME TypeOK, Causality, News, NEW f \in facts, Handle(f)
  PROVE  News'
<1> USE DEF Publish, tmsVars, poolVars, parcelVars, unitVars
<1>0. f.of \in Dispatch
  BY FactsAreFacts
<1>1. facts \subseteq facts' /\ edits' = edits /\ inbox' = inbox \cup {f}
  BY HandlerAdvances DEF Handle, ProjectDemand, ConsumeBatch, ProjectReplacement, ProjectCancelled,
          ProjectActivation, ProjectDeactivation, ProjectDispatch, ProjectShipment
<1>2. \A e \in Dispatch : pool'[e] = "BATCHED" => pool[e] = "BATCHED"
  BY DEF Handle, ProjectDemand, ConsumeBatch, ProjectReplacement, ProjectCancelled,
          ProjectActivation, ProjectDeactivation, ProjectDispatch, ProjectShipment, TypeOK
<1>3. \A e \in Replacement : f = Fact("batch", e, 0) => Fact("QR_GENERATED", e, 0) \in facts'
  <2>1. SUFFICES ASSUME NEW e \in Replacement, f = Fact("batch", e, 0)
                 PROVE  Fact("QR_GENERATED", e, 0) \in facts'
    OBVIOUS
  <2>2. f.kind = "batch" /\ f.of = e
    BY <2>1, Neighbours, KindsAreKinds, FactFields
  <2>3. ConsumeBatch(f)
    BY <2>2 DEF Handle, ProjectDemand, ProjectReplacement, ProjectCancelled,
          ProjectActivation, ProjectDeactivation, ProjectDispatch, ProjectShipment, DispatchKinds
  <2>4. QED
    BY <2>2, <2>3 DEF ConsumeBatch
<1>4. \A e \in Replacement : f = Fact("QR_GENERATED", e, 0) => case'[e] # "Open"
  <2>1. SUFFICES ASSUME NEW e \in Replacement, f = Fact("QR_GENERATED", e, 0)
                 PROVE  case'[e] # "Open"
    OBVIOUS
  <2>2. f.kind = "QR_GENERATED" /\ f.of = e
    BY <2>1, Neighbours, KindsAreKinds, FactFields
  <2>3. Advance(e, "In-Progress")
    BY <2>2 DEF Handle, ProjectDemand, ConsumeBatch, ProjectReplacement, ProjectCancelled,
          ProjectActivation, ProjectDeactivation, ProjectDispatch, ProjectShipment
  <2>4. QED
    BY <2>3, Neighbours, AdvanceMoves
<1>5. \A e \in Dispatch : case'[e] = case[e] \/ (case'[e] # "Open" /\ case[e] # "Cancelled")
  BY HandlerAdvances
<1>6. \A g \in facts' : g \in facts \/ g.kind # "cancelled"
  BY <1>0, HandlerAdvances, KindsAreKinds, FactFields
<1>7. /\ \A e \in Replacement : pool'[e] = "BATCHED" => Fact("batch", e, 0) \in facts'
      /\ \A e \in Replacement : Fact("batch", e, 0) \in inbox' => Fact("QR_GENERATED", e, 0) \in facts'
  BY <1>1, <1>2, <1>3, Neighbours DEF News
<1>8. ASSUME edits' = 0
      PROVE  /\ \A e \in Replacement : Fact("QR_GENERATED", e, 0) \in inbox' => case'[e] # "Open"
             /\ \A g \in facts' : g.kind = "cancelled" => case'[g.of] = "Cancelled"
  BY <1>1, <1>4, <1>5, <1>6, <1>8, Neighbours, FactsAreFacts DEF News, Unedited, Withdrawn
<1>9. QED
  BY <1>7, <1>8 DEF News, Unedited, Withdrawn

LEMMA NextNews == TypeOK /\ Causality /\ News /\ [Next]_vars => News'
<1> SUFFICES ASSUME TypeOK, Causality, News, [Next]_vars PROVE News'
  OBVIOUS
<1>1. CASE UNCHANGED vars
  BY <1>1 DEF vars, tmsVars, poolVars, parcelVars, unitVars, News, Unedited, Withdrawn
<1>2. QED
  BY <1>1, RequestNews, WorkNews, HandleNews DEF Next

-----------------------------------------------------------------------------
(* The two halves of a replacement.                                        *)

LEMMA NextBothHalves == TypeOK /\ Causality /\ BothHalvesClose /\ [Next]_vars => BothHalvesClose'
<1> SUFFICES ASSUME TypeOK, Causality, BothHalvesClose, [Next]_vars, edits' = 0,
                    NEW e \in Replacement, delivered'[e], activated'[e]
             PROVE  case'[e] \in {"Closed", "Cancelled"}
  BY DEF BothHalvesClose, Unedited
<1> USE DEF tmsVars, poolVars, parcelVars, unitVars
<1>0. e \in Dispatch /\ case[e] \in CaseStatus \cup {"none"}
  BY Neighbours DEF TypeOK
<1>1. ASSUME edits' = edits, delivered[e], activated[e]
      PROVE  case[e] \in {"Closed", "Cancelled"}
  BY <1>1 DEF BothHalvesClose, Unedited
<1>2. ASSUME NEW d \in Dispatch, Request(d)
      PROVE  case'[e] \in {"Closed", "Cancelled"}
  <2>1. CASE FlagDamage(d) /\ edits' = edits
    <3>1. delivered[e] /\ activated[e] /\ ~Minted(d + 1)
      BY <2>1 DEF FlagDamage
    <3>2. e # d + 1
      BY <1>0, <3>1 DEF Causality
    <3>3. QED
      BY <1>0, <1>1, <2>1, <3>1, <3>2 DEF FlagDamage, TypeOK
  <2>2. CASE (CancelRead(d) \/ CancelWrite(d)) /\ edits' = edits
    BY <1>0, <1>1, <2>2 DEF CancelRead, CancelWrite, TypeOK
  <2>3. CASE Deactivate(d) /\ edits' = edits
    BY <1>0, <1>1, <2>3 DEF Deactivate, TypeOK
  <2>4. CASE Activate(d) /\ edits' = edits
    <3>1. CASE e = d
      <4>1. Advance(d, "Closed") /\ case[d] # "none"
        BY <1>0, <2>4, <3>1 DEF Activate, Causality
      <4>2. QED
        BY <1>0, <3>1, <4>1, AdvanceMoves DEF CaseStatus
    <3>2. CASE e # d
      <4>1. delivered[e] /\ activated[e]
        BY <1>0, <2>4, <3>2 DEF Activate, TypeOK
      <4>2. QED
        BY <1>0, <1>1, <2>4, <3>2, <4>1, AdvanceMoves DEF Activate
    <3>3. QED
      BY <3>1, <3>2
  <2>5. QED
    BY <1>2, <2>1, <2>2, <2>3, <2>4, RequestEffects
<1>3. ASSUME NEW d \in Dispatch, Work(d)
      PROVE  case'[e] \in {"Closed", "Cancelled"}
  BY <1>1, <1>3 DEF Work, Hold, FormBatch, SendToVendor, ReturnSheet, CourierReports, OverrideTerminal
<1>4. ASSUME NEW f \in facts, Handle(f)
      PROVE  case'[e] \in {"Closed", "Cancelled"}
  <2>1. activated[e] /\ edits' = edits
    BY <1>4, HandlerAdvances
  <2>2. CASE ProjectShipment(f) /\ e = f.of /\ ~delivered[e]
    <3>1. Advance(e, "Closed") /\ case[e] # "none"
      BY <1>0, <2>1, <2>2 DEF ProjectShipment, Causality
    <3>2. QED
      BY <1>0, <3>1, AdvanceMoves DEF CaseStatus
  <2>3. CASE delivered[e]
    BY <1>0, <1>1, <1>4, <2>1, <2>3, HandlerAdvances
  <2>4. CASE ~delivered[e]
    BY <1>0, <1>4, <2>2, <2>4 DEF Handle, ProjectDemand, ConsumeBatch, ProjectReplacement, ProjectCancelled,
          ProjectActivation, ProjectDeactivation, ProjectDispatch, ProjectShipment, TypeOK
  <2>5. QED
    BY <2>3, <2>4
<1>5. CASE UNCHANGED vars
  BY <1>1, <1>5 DEF vars
<1>6. QED
  BY <1>2, <1>3, <1>4, <1>5 DEF Next

-----------------------------------------------------------------------------
(* Demand state and activation.                                            *)

LEMMA NextDemand ==
  TypeOK /\ Causality /\ DemandMatchesActivation /\ [Next]_vars => DemandMatchesActivation'
<1> SUFFICES ASSUME TypeOK, Causality, DemandMatchesActivation, [Next]_vars, edits' = 0,
                    NEW e \in Dispatch
             PROVE  /\ activated'[e] /\ case'[e] # "Cancelled" => demand'[e] \in {"activated", "replacement-raised"}
                    /\ demand'[e] = "replacement-raised" =>
                          e + 1 \in Dispatch /\ case'[e + 1] \notin {"none", "Cancelled"}
  BY DEF DemandMatchesActivation, Unedited, Withdrawn
<1> USE DEF tmsVars, poolVars, parcelVars, unitVars
<1>1. ASSUME edits' = edits
      PROVE  /\ activated[e] /\ case[e] # "Cancelled" => demand[e] \in {"activated", "replacement-raised"}
             /\ demand[e] = "replacement-raised" =>
                   e + 1 \in Dispatch /\ case[e + 1] \notin {"none", "Cancelled"}
  BY <1>1 DEF DemandMatchesActivation, Unedited, Withdrawn
<1>2. ASSUME NEW d \in Dispatch, Request(d)
      PROVE  /\ activated'[e] /\ case'[e] # "Cancelled" => demand'[e] \in {"activated", "replacement-raised"}
             /\ demand'[e] = "replacement-raised" =>
                   e + 1 \in Dispatch /\ case'[e + 1] \notin {"none", "Cancelled"}
  <2>1. CASE FlagDamage(d) /\ edits' = edits
    <3>1. d + 1 \in Dispatch /\ ~Minted(d + 1) /\ ~activated[d + 1] /\ d + 1 # d
      BY <2>1, Neighbours DEF FlagDamage, Causality
    <3>2. /\ \A x \in Dispatch : case'[x] = IF x = d + 1 THEN "Open" ELSE case[x]
          /\ \A x \in Dispatch : demand'[x] = IF x = d + 1 THEN "pooled-for-fulfillment"
                                            ELSE IF x = d THEN "replacement-raised" ELSE demand[x]
          /\ activated' = activated
      BY <2>1, <3>1 DEF FlagDamage, TypeOK
    <3>3. QED
      BY <1>1, <2>1, <3>1, <3>2
  <2>2. CASE d \in Replacement /\ (CancelRead(d) \/ CancelWrite(d)) /\ edits' = edits
    <3>1. CASE UNCHANGED <<case, demand, activated>>
      BY <1>1, <2>2, <3>1
    <3>2. CASE ~UNCHANGED <<case, demand, activated>>
      <4>1. /\ case[d] # "Cancelled" /\ activated' = activated /\ d - 1 \in Dispatch
            /\ d - 1 # d /\ (d - 1) + 1 = d
        BY <2>2, <3>2, Neighbours DEF CancelRead, CancelWrite
      <4>2. /\ \A x \in Dispatch : case'[x] = IF x = d THEN "Cancelled" ELSE case[x]
            /\ demand'[d] = "closed"
            /\ demand'[d - 1] = IF demand[d - 1] # "replacement-raised" THEN demand[d - 1]
                                ELSE IF activated[d - 1] THEN "activated" ELSE "pooled-for-fulfillment"
            /\ \A x \in Dispatch : x # d /\ x # d - 1 => demand'[x] = demand[x]
        BY <2>2, <3>2, <4>1 DEF CancelRead, CancelWrite, TypeOK
      <4>3. CASE e = d
        BY <4>2, <4>3
      <4>4. CASE e = d - 1
        BY <1>1, <2>2, <4>1, <4>2, <4>4
      <4>5. CASE e # d /\ e # d - 1
        <5>1. e + 1 # d
          BY <4>5, Neighbours
        <5>2. QED
          BY <1>1, <2>2, <4>1, <4>2, <4>5, <5>1
      <4>6. QED
        BY <4>3, <4>4, <4>5
    <3>3. QED
      BY <3>1, <3>2
  <2>3. CASE Deactivate(d) /\ edits' = edits
    BY <1>1, <2>3 DEF Deactivate, TypeOK
  <2>4. CASE Activate(d) /\ edits' = edits
    <3>1. \A x \in Dispatch : case'[x] = case[x] \/ (case'[x] = "Closed" /\ case[x] # "Cancelled")
      BY <2>4, AdvanceMoves DEF Activate
    <3>2. /\ demand' = [demand EXCEPT ![d] = "activated"]
          /\ activated' = [activated EXCEPT ![d] = TRUE]
      BY <2>4 DEF Activate
    <3>3. QED
      BY <1>1, <2>4, <3>1, <3>2 DEF TypeOK
  <2>5. QED
    BY <1>2, <2>1, <2>2, <2>3, <2>4, RequestEffects
<1>3. ASSUME UNCHANGED <<demand, activated, edits>>,
             \A x \in Dispatch : case'[x] = case[x] \/ (case'[x] \in {"In-Progress", "Closed"} /\ case[x] # "Cancelled")
      PROVE  /\ activated'[e] /\ case'[e] # "Cancelled" => demand'[e] \in {"activated", "replacement-raised"}
             /\ demand'[e] = "replacement-raised" =>
                   e + 1 \in Dispatch /\ case'[e + 1] \notin {"none", "Cancelled"}
  BY <1>1, <1>3
<1>4. ASSUME NEW d \in Dispatch, Work(d)
      PROVE  UNCHANGED <<case, demand, activated, edits>>
  BY <1>4 DEF Work, Hold, FormBatch, SendToVendor, ReturnSheet, CourierReports, OverrideTerminal
<1>5. ASSUME NEW f \in facts, Handle(f)
      PROVE  /\ UNCHANGED <<demand, activated, edits>>
             /\ \A x \in Dispatch : case'[x] = case[x] \/ (case'[x] \in {"In-Progress", "Closed"} /\ case[x] # "Cancelled")
  BY <1>5, HandlerAdvances
<1>6. CASE UNCHANGED vars
  BY <1>3, <1>6 DEF vars
<1>7. QED
  BY <1>2, <1>3, <1>4, <1>5, <1>6 DEF Next

-----------------------------------------------------------------------------
(* The linkage of a replacement to its parent.                             *)

LEMMA FactsDiffer ==
  ASSUME NEW k \in Kinds, NEW d \in Dispatch, NEW n \in Nat,
         NEW j \in Kinds, NEW e \in Dispatch, NEW m \in Nat,
         Fact(k, d, n) = Fact(j, e, m)
  PROVE  k = j /\ d = e /\ n = m
BY FactFields

LEMMA FactsAreFields ==
  ASSUME TypeOK, NEW f \in facts
  PROVE  f = Fact(f.kind, f.of, f.n)
BY DEF TypeOK, Facts, Fact

(* What work leaves of the devices, the pool and what has been told.       *)
LEMMA WorkEffects ==
  ASSUME TypeOK, NEW d \in Dispatch, Work(d)
  PROVE  /\ UNCHANGED <<case, demand, activated, toggles, edits, inbox, live>>
         /\ late \subseteq late' /\ facts \subseteq facts'
         /\ \A e \in Dispatch :
              /\ pool[e] # "NONE" => pool'[e] # "NONE"
              /\ pool[e] \notin {"NONE", "POOLED", "HELD"} => pool'[e] \notin {"POOLED", "HELD"}
              /\ unit'[e] = "DAMAGED" => unit[e] = "DAMAGED"
              /\ unit'[e] \in UnitStatus /\ unit[e] \notin UnitStatus => ReturnSheet(e)
         /\ \A f \in facts' : f \in facts \/ f.kind \in {"batch", "DELIVERED"} \cup DispatchKinds
<1> USE DEF Publish, tmsVars, poolVars, parcelVars, unitVars
<1>1. /\ UNCHANGED <<case, demand, activated, toggles, edits, inbox, live>>
      /\ late \subseteq late' /\ facts \subseteq facts'
  BY DEF Work, Hold, FormBatch, SendToVendor, ReturnSheet, CourierReports, OverrideTerminal
<1>2. ASSUME NEW e \in Dispatch
      PROVE  /\ pool[e] # "NONE" => pool'[e] # "NONE"
             /\ pool[e] \notin {"NONE", "POOLED", "HELD"} => pool'[e] \notin {"POOLED", "HELD"}
  BY DEF Work, Hold, FormBatch, SendToVendor, ReturnSheet, CourierReports, OverrideTerminal, TypeOK
<1>3. ASSUME NEW e \in Dispatch
      PROVE  /\ unit'[e] = "DAMAGED" => unit[e] = "DAMAGED"
             /\ unit'[e] \in UnitStatus /\ unit[e] \notin UnitStatus => ReturnSheet(e)
  <2>1. CASE ReturnSheet(d)
    <3>1. unit' = unit \/ unit' = [unit EXCEPT ![d] = "DISPATCHED"]
      BY <2>1 DEF ReturnSheet
    <3>2. CASE e = d
      BY <2>1, <3>1, <3>2 DEF TypeOK
    <3>3. CASE e # d
      BY <3>1, <3>3 DEF TypeOK
    <3>4. QED
      BY <3>2, <3>3
  <2>2. CASE CourierReports(d)
    BY <2>2 DEF CourierReports, TypeOK, UnitStatus
  <2>3. CASE Hold(d) \/ FormBatch(d) \/ SendToVendor(d) \/ OverrideTerminal(d)
    BY <2>3 DEF Hold, FormBatch, SendToVendor, OverrideTerminal
  <2>4. QED
    BY <2>1, <2>2, <2>3 DEF Work
<1>4. ASSUME NEW f \in facts', f \notin facts
      PROVE  f.kind \in {"batch", "DELIVERED"} \cup DispatchKinds
  <2>1. CASE FormBatch(d) \/ SendToVendor(d) \/ ReturnSheet(d) \/ CourierReports(d)
    BY <1>4, <2>1, KindsAreKinds, FactFields
       DEF FormBatch, SendToVendor, ReturnSheet, CourierReports, DispatchKinds
  <2>2. CASE OverrideTerminal(d)
    <3>1. overrides'[d] \in Nat
      BY <2>2 DEF OverrideTerminal, TypeOK
    <3>2. QED
      BY <1>4, <2>2, <3>1, KindsAreKinds, FactFields DEF OverrideTerminal
  <2>3. CASE Hold(d)
    BY <1>4, <2>3 DEF Hold
  <2>4. QED
    BY <2>1, <2>2, <2>3 DEF Work
<1>5. QED
  BY <1>1, <1>2, <1>3, <1>4

(* The facts that requests publish.                                        *)
LEMMA RequestFacts ==
  ASSUME TypeOK, Causality, NEW d \in Dispatch, Request(d)
  PROVE  /\ facts \subseteq facts'
         /\ \A f \in facts' :
              \/ f \in facts
              \/ FlagDamage(d) /\ f \in {Fact("raised", d + 1, 0), Fact("demand", d + 1, 0)}
              \/ CancelWrite(d) /\ d \in Replacement /\ case'[d] = "Cancelled" /\ f = Fact("cancelled", d, 0)
              \/ Activate(d) /\ f = Fact("activated", d, toggles[d])
              \/ Deactivate(d) /\ f = Fact("deactivated", d, toggles[d] - 1)
<1> USE DEF Publish
<1>1. CASE FlagDamage(d)
  BY <1>1 DEF FlagDamage
<1>2. CASE CancelRead(d) \/ UpdateCase(d)
  BY <1>2 DEF CancelRead, UpdateCase
<1>3. CASE CancelWrite(d)
  BY <1>3 DEF CancelWrite, TypeOK
<1>4. CASE Activate(d)
  BY <1>4 DEF Activate
<1>5. CASE Deactivate(d)
  BY <1>5 DEF Deactivate
<1>6. QED
  BY <1>1, <1>2, <1>3, <1>4, <1>5 DEF Request

LEMMA RequestMoves ==
  ASSUME TypeOK, Causality, NEW d \in Dispatch, Request(d), NEW e \in Dispatch
  PROVE  /\ UNCHANGED <<inbox, pool, unit, late, live>>
         /\ Minted(e)' => Minted(e) \/ (FlagDamage(d) /\ e = d + 1)
         /\ edits' = 0 => /\ edits = 0
                          /\ case[e] = "Cancelled" => case'[e] = "Cancelled"
                          /\ case'[e] = "Cancelled" => case[e] = "Cancelled" \/ (CancelWrite(d) /\ e = d)
<1> USE DEF poolVars, parcelVars, unitVars
<1>1. UNCHANGED <<inbox, pool, unit, late, live>>
  BY DEF Request, FlagDamage, CancelRead, CancelWrite, Activate, Deactivate, UpdateCase
<1>2. CASE FlagDamage(d)
  <2>1. d + 1 \in Replacement /\ ~Minted(d + 1) /\ edits' = edits
    BY <1>2, Neighbours DEF FlagDamage
  <2>2. case[d + 1] = "none" /\ case'[e] = IF e = d + 1 THEN "Open" ELSE case[e]
    BY <1>2, <2>1 DEF FlagDamage, Causality, TypeOK
  <2>3. Minted(e)' => Minted(e) \/ e = d + 1
    BY <1>2 DEF FlagDamage, Minted, TypeOK
  <2>4. QED
    BY <1>1, <1>2, <2>1, <2>2, <2>3
<1>3. CASE CancelRead(d)
  BY <1>1, <1>3 DEF CancelRead, Minted
<1>4. CASE CancelWrite(d)
  <2>1. d - 1 \in Dispatch /\ edits' = edits /\ Minted(d)
    BY <1>4, Neighbours DEF CancelWrite, Causality
  <2>2. case' = case \/ case' = [case EXCEPT ![d] = "Cancelled"]
    BY <1>4 DEF CancelWrite
  <2>3. Minted(e)' => Minted(e)
    BY <1>4, <2>1 DEF CancelWrite, Minted, TypeOK
  <2>4. QED
    BY <1>1, <1>4, <2>1, <2>2, <2>3 DEF TypeOK
<1>5. CASE Activate(d) \/ Deactivate(d)
  <2>1. Minted(d) /\ edits' = edits
    BY <1>5 DEF Activate, Deactivate, Causality
  <2>2. Minted(e)' => Minted(e)
    BY <1>5, <2>1 DEF Activate, Deactivate, Minted, TypeOK
  <2>3. case'[e] = case[e] \/ (case'[e] = "Closed" /\ case[e] # "Cancelled")
    BY <1>5, AdvanceMoves DEF Activate, Deactivate
  <2>4. QED
    BY <1>1, <2>1, <2>2, <2>3
<1>6. CASE UpdateCase(d)
  <2>1. edits' # 0 /\ demand' = demand
    BY <1>6 DEF UpdateCase, TypeOK
  <2>2. QED
    BY <1>1, <2>1 DEF Minted
<1>7. QED
  BY <1>2, <1>3, <1>4, <1>5, <1>6 DEF Request

LEMMA RequestLinkage ==
  ASSUME TypeOK, Causality, News, Linkage, NEW d \in Dispatch, Request(d)
  PROVE  Linkage'
<1>1. UNCHANGED <<inbox, pool, unit, late>> /\ facts \subseteq facts'
  BY RequestMoves, RequestFacts
<1>2. ASSUME NEW f \in facts', f.kind \in {"raised", "demand", "cancelled"} PROVE f.n = 0
  <2>1. CASE f \in facts
    BY <1>2, <2>1 DEF Linkage
  <2>2. CASE FlagDamage(d) /\ f \in {Fact("raised", d + 1, 0), Fact("demand", d + 1, 0)}
    BY <2>2, KindsAreKinds, FactFields DEF FlagDamage
  <2>3. CASE f = Fact("cancelled", d, 0)
    BY <2>3, KindsAreKinds, FactFields
  <2>4. CASE f = Fact("activated", d, toggles[d])
    BY <1>2, <2>4, KindsAreKinds, FactFields DEF TypeOK
  <2>5. CASE Deactivate(d) /\ f = Fact("deactivated", d, toggles[d] - 1)
    <3>1. toggles[d] - 1 \in Nat
      BY <2>5 DEF Deactivate, Causality, TypeOK
    <3>2. QED
      BY <1>2, <2>5, <3>1, KindsAreKinds, FactFields
  <2>6. QED
    BY <2>1, <2>2, <2>3, <2>4, <2>5, RequestFacts
<1>3. ASSUME NEW e \in Replacement, Minted(e)'
      PROVE  Fact("raised", e, 0) \in facts' /\ Fact("demand", e, 0) \in facts'
  <2>1. CASE Minted(e)
    BY <1>1, <2>1 DEF Linkage
  <2>2. CASE FlagDamage(d) /\ e = d + 1
    BY <2>2 DEF FlagDamage, Publish
  <2>3. QED
    BY <1>3, <2>1, <2>2, Neighbours, RequestMoves
<1>4. ASSUME NEW e \in Replacement, edits' = 0, case'[e] = "Cancelled"
      PROVE  Fact("cancelled", e, 0) \in facts'
  <2>1. CASE case[e] = "Cancelled"
    BY <1>1, <1>4, <2>1, Neighbours, RequestMoves DEF Linkage, Unedited, Withdrawn
  <2>2. CASE CancelWrite(d) /\ e = d /\ case[e] # "Cancelled"
    BY <2>2 DEF CancelWrite, Publish
  <2>3. QED
    BY <1>4, <2>1, <2>2, Neighbours, RequestMoves
<1>5. ASSUME NEW e \in Replacement, edits' = 0, Fact("raised", e, 0) \in inbox, case'[e] # "Cancelled",
             e - 1 \notin late
      PROVE  unit[e - 1] \notin UnitStatus
  <2>1. case[e] # "Cancelled" /\ edits = 0
    BY <1>5, Neighbours, RequestMoves
  <2>2. QED
    BY <1>5, <2>1 DEF Linkage, Unedited, Withdrawn
<1>6. ASSUME NEW e \in Replacement
      PROVE  /\ Fact("demand", e, 0) \in inbox' => pool'[e] # "NONE"
             /\ InOrder /\ Fact("cancelled", e, 0) \in inbox' =>
                  /\ Fact("raised", e, 0) \in inbox' /\ Fact("demand", e, 0) \in inbox'
                  /\ pool'[e] \notin {"POOLED", "HELD"} /\ unit'[e - 1] # "DAMAGED"
  BY <1>1 DEF Linkage
<1>7. QED
  BY <1>1, <1>2, <1>3, <1>4, <1>5, <1>6 DEF Linkage, Unedited, Withdrawn

LEMMA WorkLinkage ==
  ASSUME TypeOK, Causality, Linkage, NEW d \in Dispatch, Work(d)
  PROVE  Linkage'
<1>1. /\ UNCHANGED <<case, demand, edits, inbox>> /\ late \subseteq late' /\ facts \subseteq facts'
  BY WorkEffects
<1>2. ASSUME NEW f \in facts', f.kind \in {"raised", "demand", "cancelled"} PROVE f.n = 0
  BY <1>2, WorkEffects DEF Linkage, DispatchKinds
<1>3. ASSUME NEW e \in Replacement, edits = 0, Fact("raised", e, 0) \in inbox, case[e] # "Cancelled",
             e - 1 \notin late'
      PROVE  unit'[e - 1] \notin UnitStatus
  <2>1. unit[e - 1] \notin UnitStatus
    BY <1>1, <1>3 DEF Linkage, Unedited, Withdrawn
  <2>2. Minted(e)
    <3>1. Fact("raised", e, 0).of = e /\ Fact("raised", e, 0) \in facts
      BY <1>3, Neighbours, KindsAreKinds, FactFields DEF TypeOK
    <3>2. QED
      BY <3>1 DEF Causality
  <2>3. ~ReturnSheet(e - 1)
    BY <1>3, <2>2, Neighbours DEF ReturnSheet
  <2>4. QED
    BY <2>1, <2>3, Neighbours, WorkEffects
<1>4. ASSUME NEW e \in Replacement
      PROVE  /\ Fact("demand", e, 0) \in inbox => pool'[e] # "NONE"
             /\ InOrder /\ Fact("cancelled", e, 0) \in inbox =>
                  /\ Fact("raised", e, 0) \in inbox /\ Fact("demand", e, 0) \in inbox
                  /\ pool'[e] \notin {"POOLED", "HELD"} /\ unit'[e - 1] # "DAMAGED"
  BY Neighbours, WorkEffects DEF Linkage
<1>5. ASSUME NEW e \in Replacement
      PROVE  /\ Minted(e)' => Fact("raised", e, 0) \in facts' /\ Fact("demand", e, 0) \in facts'
             /\ edits' = 0 /\ case'[e] = "Cancelled" => Fact("cancelled", e, 0) \in facts'
  BY <1>1 DEF Linkage, Minted, Unedited, Withdrawn
<1>6. QED
  BY <1>1, <1>2, <1>3, <1>4, <1>5 DEF Linkage, Unedited, Withdrawn

(* What consumption makes of the pool and of the devices.                  *)
LEMMA HandlerEffects ==
  ASSUME TypeOK, Causality, NEW f \in facts, Handle(f)
  PROVE  /\ f \notin inbox /\ Consume(f) /\ UNCHANGED late /\ facts \subseteq facts'
         /\ \A e \in Dispatch :
              /\ pool[e] # "NONE" => pool'[e] # "NONE"
              /\ pool[e] \notin {"NONE", "POOLED", "HELD"} => pool'[e] \notin {"POOLED", "HELD"}
              /\ unit'[e] = "DAMAGED" => unit[e] = "DAMAGED" \/ (f.kind = "raised" /\ f.of = e + 1)
              /\ unit'[e] \in UnitStatus =>
                    unit[e] \in UnitStatus \/ (f.kind = "cancelled" /\ f.of = e + 1)
<1> USE DEF Publish, tmsVars, poolVars, parcelVars, unitVars
<1>1. f.of \in Dispatch
  BY FactsAreFacts
<1>2. f \notin inbox /\ Consume(f) /\ UNCHANGED late /\ facts \subseteq facts'
  BY DEF Handle, ProjectDemand, ConsumeBatch, ProjectReplacement, ProjectCancelled,
         ProjectActivation, ProjectDeactivation, ProjectDispatch, ProjectShipment, Consume, Deliverable
<1>3. ASSUME NEW e \in Dispatch
      PROVE  /\ pool[e] # "NONE" => pool'[e] # "NONE"
             /\ pool[e] \notin {"NONE", "POOLED", "HELD"} => pool'[e] \notin {"POOLED", "HELD"}
  <2>1. CASE ProjectDemand(f)
    BY <1>1, <2>1 DEF ProjectDemand, TypeOK
  <2>2. CASE ProjectCancelled(f)
    BY <1>1, <2>2 DEF ProjectCancelled, TypeOK
  <2>3. CASE \/ ConsumeBatch(f) \/ ProjectReplacement(f) \/ ProjectActivation(f)
             \/ ProjectDeactivation(f) \/ ProjectDispatch(f) \/ ProjectShipment(f)
    BY <2>3 DEF ConsumeBatch, ProjectReplacement, ProjectActivation, ProjectDeactivation,
                ProjectDispatch, ProjectShipment
  <2>4. QED
    BY <2>1, <2>2, <2>3 DEF Handle
<1>4. ASSUME NEW e \in Dispatch
      PROVE  /\ unit'[e] = "DAMAGED" => unit[e] = "DAMAGED" \/ (f.kind = "raised" /\ f.of = e + 1)
             /\ unit'[e] \in UnitStatus =>
                   unit[e] \in UnitStatus \/ (f.kind = "cancelled" /\ f.of = e + 1)
  <2>1. CASE ProjectReplacement(f)
    <3>1. f.of \in Replacement /\ f.kind = "raised"
      BY <2>1 DEF ProjectReplacement, Causality
    <3>2. f.of - 1 = e => f.of = e + 1
      BY <3>1, Neighbours
    <3>3. unit'[e] # unit[e] => f.of - 1 = e /\ unit'[e] = "DAMAGED"
      BY <2>1 DEF ProjectReplacement, TypeOK
    <3>4. QED
      BY <3>1, <3>2, <3>3 DEF UnitStatus
  <2>2. CASE ProjectCancelled(f)
    <3>1. f.of \in Replacement /\ f.kind = "cancelled"
      BY <2>2 DEF ProjectCancelled, Causality
    <3>2. f.of - 1 = e => f.of = e + 1
      BY <3>1, Neighbours
    <3>3. unit'[e] # unit[e] => f.of - 1 = e /\ unit'[e] = prior[e]
      BY <2>2 DEF ProjectCancelled, TypeOK
    <3>4. prior[e] # "DAMAGED"
      BY DEF TypeOK, UnitStatus
    <3>5. QED
      BY <3>1, <3>2, <3>3, <3>4
  <2>3. CASE \/ ProjectDemand(f) \/ ConsumeBatch(f) \/ ProjectActivation(f)
             \/ ProjectDeactivation(f) \/ ProjectDispatch(f) \/ ProjectShipment(f)
    BY <2>3 DEF ProjectDemand, ConsumeBatch, ProjectActivation, ProjectDeactivation,
                ProjectDispatch, ProjectShipment
  <2>4. QED
    BY <2>1, <2>2, <2>3 DEF Handle
<1>5. QED
  BY <1>2, <1>3, <1>4

LEMMA HandleLinkage ==
  ASSUME TypeOK, Causality, News, Linkage, NEW f \in facts, Handle(f)
  PROVE  Linkage'
<1>1. /\ UNCHANGED <<demand, edits, late>> /\ inbox' = inbox \cup {f} /\ f \notin inbox /\ facts \subseteq facts'
      /\ \A e \in Dispatch : case'[e] = "Cancelled" <=> case[e] = "Cancelled"
  BY HandlerAdvances, HandlerEffects
<1>2. \A g \in facts' : g.kind \in {"raised", "demand", "cancelled"} => g.n = 0
  <2>1. Fact("QR_GENERATED", f.of, 0).kind = "QR_GENERATED"
    BY FactsAreFacts, KindsAreKinds, FactFields
  <2>2. QED
    BY <2>1, HandlerAdvances DEF Linkage
<1>3. ASSUME NEW e \in Replacement
      PROVE  /\ Minted(e)' => Fact("raised", e, 0) \in facts' /\ Fact("demand", e, 0) \in facts'
             /\ edits' = 0 /\ case'[e] = "Cancelled" => Fact("cancelled", e, 0) \in facts'
  BY <1>1, Neighbours DEF Linkage, Minted, Unedited, Withdrawn
<1>4. ASSUME NEW e \in Replacement, Fact("demand", e, 0) \in inbox'
      PROVE  pool'[e] # "NONE"
  <2>1. CASE Fact("demand", e, 0) \in inbox
    BY <2>1, Neighbours, HandlerEffects DEF Linkage
  <2>2. CASE f = Fact("demand", e, 0)
    <3>1. f.kind = "demand" /\ f.of = e
      BY <2>2, Neighbours, KindsAreKinds, FactFields
    <3>2. ProjectDemand(f)
      BY <3>1 DEF Handle, ConsumeBatch, ProjectReplacement, ProjectCancelled,
          ProjectActivation, ProjectDeactivation, ProjectDispatch, ProjectShipment, DispatchKinds
    <3>3. QED
      BY <3>1, <3>2, Neighbours DEF ProjectDemand, TypeOK
  <2>3. QED
    BY <1>1, <1>4, <2>1, <2>2
<1>5. ASSUME NEW e \in Replacement, edits' = 0, Fact("raised", e, 0) \in inbox', case'[e] # "Cancelled",
             e - 1 \notin late'
      PROVE  unit'[e - 1] \notin UnitStatus
  <2>1. CASE Fact("raised", e, 0) \in inbox
    <3>1. unit[e - 1] \notin UnitStatus
      BY <1>1, <1>5, <2>1, Neighbours DEF Linkage, Unedited, Withdrawn
    <3>2. ~(f.kind = "cancelled" /\ f.of = e)
      BY <1>1, <1>5, Neighbours DEF News, Unedited, Withdrawn
    <3>3. QED
      BY <3>1, <3>2, Neighbours, HandlerEffects
  <2>2. CASE f = Fact("raised", e, 0)
    <3>1. f.kind = "raised" /\ f.of = e
      BY <2>2, Neighbours, KindsAreKinds, FactFields
    <3>2. ProjectReplacement(f)
      BY <3>1 DEF Handle, ConsumeBatch, ProjectDemand, ProjectCancelled,
          ProjectActivation, ProjectDeactivation, ProjectDispatch, ProjectShipment, DispatchKinds
    <3>3. unit' = [unit EXCEPT ![e - 1] = IF unit[e - 1] \in UnitStatus THEN "DAMAGED" ELSE unit[e - 1]]
      BY <3>1, <3>2 DEF ProjectReplacement, TypeOK
    <3>4. QED
      BY <3>3, Neighbours DEF TypeOK, UnitStatus
  <2>3. QED
    BY <1>1, <1>5, <2>1, <2>2
<1>6. ASSUME NEW e \in Replacement, InOrder, Fact("cancelled", e, 0) \in inbox'
      PROVE  /\ Fact("raised", e, 0) \in inbox' /\ Fact("demand", e, 0) \in inbox'
             /\ pool'[e] \notin {"POOLED", "HELD"} /\ unit'[e - 1] # "DAMAGED"
  <2>1. CASE Fact("cancelled", e, 0) \in inbox
    <3>1. /\ Fact("raised", e, 0) \in inbox /\ Fact("demand", e, 0) \in inbox
          /\ pool[e] \notin {"NONE", "POOLED", "HELD"} /\ unit[e - 1] # "DAMAGED"
      BY <1>6, <2>1 DEF Linkage
    <3>2. ~(f.kind = "raised" /\ f.of = e)
      BY <1>1, <3>1, FactsAreFields DEF Linkage
    <3>3. QED
      BY <1>1, <3>1, <3>2, Neighbours, HandlerEffects
  <2>2. CASE f = Fact("cancelled", e, 0)
    <3>1. f.kind = "cancelled" /\ f.of = e
      BY <2>2, Neighbours, KindsAreKinds, FactFields
    <3>2. Fact("raised", e, 0) \in facts /\ Fact("demand", e, 0) \in facts
      BY <3>1 DEF Causality, Linkage
    <3>3. /\ Before(Fact("raised", e, 0), f) /\ Before(Fact("demand", e, 0), f)
      BY <3>1, Neighbours, KindsAreKinds, FactFields DEF Before
    <3>4. Fact("raised", e, 0) \in inbox /\ Fact("demand", e, 0) \in inbox
      BY <1>6, <3>2, <3>3, HandlerEffects DEF Consume, Deliverable
    <3>5. ProjectCancelled(f)
      BY <3>1 DEF Handle, ConsumeBatch, ProjectDemand, ProjectReplacement,
          ProjectActivation, ProjectDeactivation, ProjectDispatch, ProjectShipment, DispatchKinds
    <3>6. pool'[e] \notin {"POOLED", "HELD"}
      BY <3>1, <3>5, Neighbours DEF ProjectCancelled, TypeOK
    <3>7. unit' = [unit EXCEPT ![e - 1] = IF unit[e - 1] = "DAMAGED" THEN prior[e - 1] ELSE unit[e - 1]]
      BY <3>1, <3>5 DEF ProjectCancelled, TypeOK
    <3>8. unit'[e - 1] # "DAMAGED"
      BY <3>7, Neighbours DEF TypeOK, UnitStatus
    <3>9. QED
      BY <1>1, <3>4, <3>6, <3>8
  <2>3. QED
    BY <1>1, <1>6, <2>1, <2>2
<1>7. QED
  BY <1>2, <1>3, <1>4, <1>5, <1>6 DEF Linkage, Unedited, Withdrawn

LEMMA NextLinkage == TypeOK /\ Causality /\ News /\ Linkage /\ [Next]_vars => Linkage'
<1> SUFFICES ASSUME TypeOK, Causality, News, Linkage, [Next]_vars PROVE Linkage'
  OBVIOUS
<1>1. CASE UNCHANGED vars
  BY <1>1 DEF vars, tmsVars, poolVars, parcelVars, unitVars, Linkage, Minted, Unedited, Withdrawn
<1>2. QED
  BY <1>1, RequestLinkage, WorkLinkage, HandleLinkage DEF Next

-----------------------------------------------------------------------------
(* The activations told, and the live devices.                             *)

(* Nothing but a request toggles, and nothing but a toggle is told so.     *)
LEMMA Untoggled ==
  ASSUME TypeOK, Toggled, UNCHANGED <<toggles, activated, inbox, live>>, facts \subseteq facts',
         \A f \in facts' : f \in facts \/ f.kind \notin {"activated", "deactivated"}
  PROVE  Toggled'
<1>1. ASSUME NEW d \in Dispatch, NEW n \in 0..MaxToggles
      PROVE  /\ Fact("activated", d, n) \in facts' <=> Fact("activated", d, n) \in facts
             /\ Fact("deactivated", d, n) \in facts' <=> Fact("deactivated", d, n) \in facts
  BY KindsAreKinds, FactFields
<1>2. QED
  BY <1>1 DEF Toggled

(* A toggle adds one fact of its own kind.                                 *)
LEMMA ToggleFacts ==
  ASSUME NEW k \in {"activated", "deactivated"}, NEW d \in Dispatch, NEW m \in Nat,
         facts' = facts \cup {Fact(k, d, m)},
         NEW j \in {"activated", "deactivated"}, NEW e \in Dispatch, NEW n \in Nat
  PROVE  Fact(j, e, n) \in facts' <=> Fact(j, e, n) \in facts \/ (j = k /\ e = d /\ n = m)
BY KindsAreKinds, FactsDiffer

LEMMA RequestToggled ==
  ASSUME TypeOK, Causality, Toggled, NEW d \in Dispatch, Request(d)
  PROVE  Toggled'
<1>1. UNCHANGED <<inbox, live>> /\ facts \subseteq facts'
  BY RequestMoves, RequestFacts
<1>2. toggles[d] \in Nat /\ MaxToggles \in Nat /\ 0..MaxToggles \subseteq Nat
  BY DEF TypeOK
<1>3. CASE Activate(d)
  <2>1. /\ facts' = facts \cup {Fact("activated", d, toggles[d])} /\ toggles[d] < MaxToggles /\ ~activated[d]
        /\ toggles' = [toggles EXCEPT ![d] = toggles[d] + 1] /\ activated' = [activated EXCEPT ![d] = TRUE]
    BY <1>3 DEF Activate, Publish
  <2>2. \A f \in facts' : f.kind = "activated" => f.n < MaxToggles
    BY <1>2, <2>1, KindsAreKinds, FactFields DEF Toggled
  <2>3. ASSUME NEW e \in Dispatch, NEW n \in 0..MaxToggles
        PROVE  /\ Fact("activated", e, n) \in facts' <=> n < toggles'[e]
               /\ Fact("deactivated", e, n) \in facts' <=>
                     n < toggles'[e] /\ (activated'[e] => n + 1 < toggles'[e])
    <3>1. /\ Fact("activated", e, n) \in facts' <=> Fact("activated", e, n) \in facts \/ (e = d /\ n = toggles[d])
          /\ Fact("deactivated", e, n) \in facts' <=> Fact("deactivated", e, n) \in facts
      BY <1>2, <2>1, ToggleFacts
    <3>2. /\ Fact("activated", e, n) \in facts <=> n < toggles[e]
          /\ Fact("deactivated", e, n) \in facts <=> n < toggles[e] /\ (activated[e] => n + 1 < toggles[e])
      BY DEF Toggled
    <3>3. CASE e = d
      <4>1. toggles'[e] = toggles[d] + 1 /\ activated'[e]
        BY <2>1, <3>3 DEF TypeOK
      <4>2. QED
        BY <1>2, <2>1, <3>1, <3>2, <3>3, <4>1
    <3>4. CASE e # d
      <4>1. toggles'[e] = toggles[e] /\ activated'[e] = activated[e]
        BY <2>1, <3>4 DEF TypeOK
      <4>2. QED
        BY <3>1, <3>2, <3>4, <4>1
    <3>5. QED
      BY <3>3, <3>4
  <2>4. QED
    BY <1>1, <2>2, <2>3 DEF Toggled
<1>4. CASE Deactivate(d)
  <2>1. /\ activated[d] /\ toggles[d] > 0 /\ toggles[d] - 1 \in Nat
        /\ facts' = facts \cup {Fact("deactivated", d, toggles[d] - 1)}
        /\ toggles' = toggles /\ activated' = [activated EXCEPT ![d] = FALSE]
    BY <1>2, <1>4 DEF Deactivate, Publish, Causality
  <2>2. \A f \in facts' : f.kind = "activated" => f.n < MaxToggles
    BY <2>1, KindsAreKinds, FactFields DEF Toggled
  <2>3. ASSUME NEW e \in Dispatch, NEW n \in 0..MaxToggles
        PROVE  /\ Fact("activated", e, n) \in facts' <=> n < toggles'[e]
               /\ Fact("deactivated", e, n) \in facts' <=>
                     n < toggles'[e] /\ (activated'[e] => n + 1 < toggles'[e])
    <3>1. /\ Fact("activated", e, n) \in facts' <=> Fact("activated", e, n) \in facts
          /\ Fact("deactivated", e, n) \in facts' <=>
                Fact("deactivated", e, n) \in facts \/ (e = d /\ n = toggles[d] - 1)
      BY <1>2, <2>1, ToggleFacts
    <3>2. /\ Fact("activated", e, n) \in facts <=> n < toggles[e]
          /\ Fact("deactivated", e, n) \in facts <=> n < toggles[e] /\ (activated[e] => n + 1 < toggles[e])
      BY DEF Toggled
    <3>3. CASE e = d
      <4>1. toggles'[e] = toggles[d] /\ ~activated'[e]
        BY <2>1, <3>3 DEF TypeOK
      <4>2. QED
        BY <1>2, <2>1, <3>1, <3>2, <3>3, <4>1
    <3>4. CASE e # d
      <4>1. toggles'[e] = toggles[e] /\ activated'[e] = activated[e]
        BY <2>1, <3>4 DEF TypeOK
      <4>2. QED
        BY <3>1, <3>2, <3>4, <4>1
    <3>5. QED
      BY <3>3, <3>4
  <2>4. QED
    BY <1>1, <2>2, <2>3 DEF Toggled
<1>5. CASE FlagDamage(d) \/ CancelRead(d) \/ CancelWrite(d) \/ UpdateCase(d)
  <2>1. UNCHANGED <<toggles, activated>>
    BY <1>5 DEF FlagDamage, CancelRead, CancelWrite, UpdateCase
  <2>2. ASSUME NEW f \in facts', f \notin facts PROVE f.kind \notin {"activated", "deactivated"}
    <3>1. CASE FlagDamage(d)
      BY <2>2, <3>1, KindsAreKinds, FactFields DEF FlagDamage, Publish
    <3>2. CASE CancelWrite(d)
      BY <2>2, <3>2, KindsAreKinds, FactFields DEF CancelWrite, Publish
    <3>3. CASE CancelRead(d) \/ UpdateCase(d)
      BY <2>2, <3>3 DEF CancelRead, UpdateCase
    <3>4. QED
      BY <1>5, <3>1, <3>2, <3>3
  <2>3. QED
    BY <1>1, <2>1, <2>2, Untoggled
<1>6. QED
  BY <1>3, <1>4, <1>5 DEF Request

LEMMA HandleToggled ==
  ASSUME TypeOK, Causality, Toggled, NEW f \in facts, Handle(f)
  PROVE  Toggled'
<1> USE DEF tmsVars, poolVars, parcelVars, unitVars
<1>1. /\ UNCHANGED <<toggles, activated>> /\ inbox' = inbox \cup {f} /\ f \notin inbox /\ facts \subseteq facts'
      /\ f.of \in Dispatch
  BY HandlerAdvances, HandlerEffects, FactsAreFacts
<1>2. \A g \in facts' : g \in facts \/ g.kind \notin {"activated", "deactivated"}
  <2>1. Fact("QR_GENERATED", f.of, 0).kind = "QR_GENERATED"
    BY <1>1, KindsAreKinds, FactFields
  <2>2. QED
    BY <2>1, HandlerAdvances
<1>3. \A g \in facts' : g.kind = "activated" => g.n < MaxToggles
  BY <1>2 DEF Toggled
<1>4. ASSUME NEW e \in Dispatch, NEW n \in 0..MaxToggles
      PROVE  /\ Fact("activated", e, n).kind = "activated" /\ Fact("deactivated", e, n).kind = "deactivated"
             /\ Fact("activated", e, n).of = e /\ Fact("deactivated", e, n).of = e
             /\ Fact("activated", e, n).n = n /\ Fact("deactivated", e, n).n = n
             /\ Fact("activated", e, n) \in facts' <=> Fact("activated", e, n) \in facts
             /\ Fact("deactivated", e, n) \in facts' <=> Fact("deactivated", e, n) \in facts
  <2>1. n \in Nat /\ "activated" \in Kinds /\ "deactivated" \in Kinds
    BY KindsAreKinds
  <2>2. /\ Fact("activated", e, n).kind = "activated" /\ Fact("deactivated", e, n).kind = "deactivated"
        /\ Fact("activated", e, n).of = e /\ Fact("deactivated", e, n).of = e
        /\ Fact("activated", e, n).n = n /\ Fact("deactivated", e, n).n = n
    BY <2>1, FactFields
  <2>3. QED
    BY <1>1, <1>2, <2>2
<1>5. ASSUME NEW e \in Dispatch, NEW n \in 0..MaxToggles, InOrder, Fact("deactivated", e, n) \in inbox'
      PROVE  Fact("activated", e, n) \in inbox'
  <2>1. CASE Fact("deactivated", e, n) \in inbox
    BY <1>1, <1>5, <2>1 DEF Toggled
  <2>2. CASE f = Fact("deactivated", e, n)
    <3>1. Fact("activated", e, n) \in facts
      BY <2>2 DEF Toggled
    <3>2. Before(Fact("activated", e, n), f)
      BY <1>4, <2>2 DEF Before
    <3>3. QED
      BY <1>1, <1>5, <3>1, <3>2, HandlerEffects DEF Consume, Deliverable
  <2>3. QED
    BY <1>1, <1>5, <2>1, <2>2
<1>6. ASSUME NEW e \in Dispatch, InOrder, live'[e]
      PROVE  \E n \in 0..MaxToggles : Fact("activated", e, n) \in inbox' /\ Fact("deactivated", e, n) \notin inbox'
  <2>1. CASE live[e]
    <3>1. PICK n \in 0..MaxToggles : Fact("activated", e, n) \in inbox /\ Fact("deactivated", e, n) \notin inbox
      BY <1>6, <2>1 DEF Toggled
    <3>2. f # Fact("deactivated", e, n)
      <4>1. SUFFICES ASSUME f.kind = "deactivated", f.of = e PROVE FALSE
        BY <1>4
      <4>2. ProjectDeactivation(f)
        BY <4>1 DEF Handle, ProjectDemand, ConsumeBatch, ProjectReplacement, ProjectCancelled,
            ProjectActivation, ProjectDispatch, ProjectShipment, DispatchKinds
      <4>3. QED
        BY <1>6, <4>1, <4>2 DEF ProjectDeactivation, TypeOK
    <3>3. QED
      BY <1>1, <3>1, <3>2
  <2>2. CASE ~live[e]
    <3>1. f.kind = "activated" /\ f.of = e
      <4>1. CASE ProjectActivation(f)
        BY <1>6, <2>2, <4>1 DEF ProjectActivation, TypeOK
      <4>2. CASE ProjectDeactivation(f)
        BY <1>6, <2>2, <4>2 DEF ProjectDeactivation, TypeOK
      <4>3. CASE live' = live
        BY <1>6, <2>2, <4>3
      <4>4. QED
        BY <4>1, <4>2, <4>3 DEF Handle, ProjectDemand, ConsumeBatch, ProjectReplacement,
            ProjectCancelled, ProjectDispatch, ProjectShipment
    <3>2. f.n \in 0..MaxToggles /\ f = Fact("activated", e, f.n)
      BY <3>1, FactsAreFacts, FactsAreFields DEF Toggled
    <3>3. Fact("deactivated", e, f.n) \notin inbox
      BY <1>1, <1>6, <3>2 DEF Toggled
    <3>4. f # Fact("deactivated", e, f.n)
      BY <1>4, <3>1, <3>2
    <3>5. QED
      BY <1>1, <3>2, <3>3, <3>4
  <2>3. QED
    BY <2>1, <2>2
<1>7. ASSUME NEW e \in Dispatch, NEW n \in 0..MaxToggles
      PROVE  /\ Fact("activated", e, n) \in facts' <=> n < toggles'[e]
             /\ Fact("deactivated", e, n) \in facts' <=>
                   n < toggles'[e] /\ (activated'[e] => n + 1 < toggles'[e])
  BY <1>1, <1>4 DEF Toggled
<1>8. QED
  BY <1>3, <1>5, <1>6, <1>7 DEF Toggled

LEMMA NextToggled == TypeOK /\ Causality /\ Toggled /\ [Next]_vars => Toggled'
<1> SUFFICES ASSUME TypeOK, Causality, Toggled, [Next]_vars PROVE Toggled'
  OBVIOUS
<1>1. ASSUME NEW d \in Dispatch, Work(d) PROVE Toggled'
  BY <1>1, WorkEffects, Untoggled DEF DispatchKinds
<1>2. CASE UNCHANGED vars
  BY <1>2 DEF vars, tmsVars, poolVars, parcelVars, unitVars, Toggled
<1>3. QED
  BY <1>1, <1>2, RequestToggled, HandleToggled DEF Next

-----------------------------------------------------------------------------
LEMMA InvIsInductive == Inv /\ [Next]_vars => Inv'
BY NextType, NextCausality, NextNews, NextBothHalves, NextDemand, NextLinkage, NextToggled DEF Inv

(***************************************************************************)
(* The invariant of DamageCase holds for chains of replacements of any     *)
(* length, any number of activations, edits and overrides, and facts       *)
(* consumed in any order.                                                  *)
(***************************************************************************)
THEOREM Invariance == Spec => []Inv
<1>1. QED
  BY InitInv, InvIsInductive, PTL DEF Spec

(***************************************************************************)
(* Whichever of delivery and activation tms records second closes the      *)
(* case, unless it was cancelled or an operator has edited a case.         *)
(***************************************************************************)
THEOREM HalvesMeet == Spec => []BothHalvesClose
<1>1. Inv => BothHalvesClose
  BY DEF Inv
<1>2. QED
  BY <1>1, Invariance, PTL

(***************************************************************************)
(* demand_state agrees with activated_at and with the existence of a       *)
(* replacement, whatever flags, cancels and activations interleave.        *)
(***************************************************************************)
THEOREM DemandAgrees == Spec => []DemandMatchesActivation
<1>1. Inv => DemandMatchesActivation
  BY DEF Inv
<1>2. QED
  BY <1>1, Invariance, PTL

(***************************************************************************)
(* Once the news is in, no device goes on beside its live replacement,     *)
(* whatever its parcel does later, if it was paired before the replacement *)
(* was raised.                                                             *)
(***************************************************************************)
THEOREM WrittenOff == Spec => []ReplacedDeviceWrittenOff
<1>1. Inv => ReplacedDeviceWrittenOff
  <2> SUFFICES ASSUME Inv, Settled, edits = 0, NEW d \in Replacement, case[d] \notin {"none", "Cancelled"},
                      d - 1 \notin late
               PROVE  unit[d - 1] \notin UnitStatus
    BY DEF ReplacedDeviceWrittenOff, Unedited
  <2>1. Fact("raised", d, 0) \in inbox
    BY DEF Inv, Causality, Linkage, Settled
  <2>2. QED
    BY <2>1 DEF Inv, Linkage, Unedited, Withdrawn
<1>2. QED
  BY <1>1, Invariance, PTL

(***************************************************************************)
(* A cancelled flag is undone in fulfillment once the news is in, provided *)
(* that the cancellation is not consumed before what it cancels.           *)
(***************************************************************************)
THEOREM FlagUndone == ASSUME InOrder PROVE Spec => []CancelUndoesFlag
<1>1. Inv => CancelUndoesFlag
  BY DEF Inv, Linkage, CancelUndoesFlag, Settled
<1>2. QED
  BY <1>1, Invariance, PTL

(***************************************************************************)
(* A deactivation reaches the device, however often the dispatch is        *)
(* activated again, provided that none is consumed before its activation.  *)
(***************************************************************************)
THEOREM DeactivationArrives == ASSUME InOrder PROVE Spec => []DeactivatedIsNotLive
<1>1. Inv => DeactivatedIsNotLive
  <2> SUFFICES ASSUME Inv, Settled, NEW d \in Dispatch, live[d] PROVE activated[d]
    BY DEF DeactivatedIsNotLive
  <2>1. PICK n \in 0..MaxToggles : Fact("activated", d, n) \in facts /\ Fact("deactivated", d, n) \notin facts
    BY DEF Inv, Toggled, Settled
  <2>2. QED
    BY <2>1 DEF Inv, Toggled
<1>2. QED
  BY <1>1, Invariance, PTL

(***************************************************************************)
(* "An Open case IS an un-batched replacement": once every fact has been   *)
(* consumed, a replacement in a batch has left Open, because its batch     *)
(* fact produced a QR_GENERATED fact and that one moved the case.          *)
(***************************************************************************)
THEOREM OpenMeansUnbatched == Spec => []OpenIsUnbatched
<1>1. Inv => OpenIsUnbatched
  BY DEF Inv, News, OpenIsUnbatched, Settled
<1>2. QED
  BY <1>1, Invariance, PTL

-----------------------------------------------------------------------------
(***************************************************************************)
(* No fact, however late, and no request but an operator's edit moves a    *)
(* case back or revives a cancelled one.                                   *)
(***************************************************************************)
THEOREM NeverBack == Spec => CaseMovesForward
<1>1. ASSUME TypeOK, Causality, [Next]_vars, edits' = edits,
             NEW e \in Dispatch, case'[e] # case[e]
      PROVE  Forward(case[e], case'[e])
  <2> USE DEF tmsVars, Forward
  <2>1. ASSUME NEW d \in Dispatch, Request(d) PROVE Forward(case[e], case'[e])
    <3>1. CASE FlagDamage(d)
      <4>1. e = d + 1 /\ case'[e] = "Open" /\ ~Minted(e)
        BY <1>1, <3>1 DEF FlagDamage, TypeOK
      <4>2. case[e] = "none"
        <5>1. e \in Replacement
          BY <3>1, <4>1, Neighbours DEF FlagDamage
        <5>2. QED
          BY <1>1, <4>1, <5>1 DEF Causality
      <4>3. QED
        BY <4>1, <4>2
    <3>2. CASE CancelRead(d) \/ CancelWrite(d)
      BY <1>1, <3>2 DEF CancelRead, CancelWrite, Causality, TypeOK
    <3>3. CASE Activate(d) \/ Deactivate(d)
      BY <1>1, <3>3, AdvanceMoves DEF Activate, Deactivate
    <3>4. CASE UpdateCase(d)
      BY <1>1, <3>4 DEF UpdateCase, TypeOK
    <3>5. QED
      BY <2>1, <3>1, <3>2, <3>3, <3>4 DEF Request
  <2>2. ASSUME NEW d \in Dispatch, Work(d) PROVE FALSE
    BY <1>1, <2>2 DEF Work, Hold, FormBatch, SendToVendor, ReturnSheet, CourierReports, OverrideTerminal
  <2>3. ASSUME NEW f \in facts, Handle(f) PROVE Forward(case[e], case'[e])
    BY <1>1, <2>3, HandlerAdvances
  <2>4. CASE UNCHANGED vars
    BY <1>1, <2>4 DEF vars
  <2>5. QED
    BY <1>1, <2>1, <2>2, <2>3, <2>4 DEF Next
<1>2. Inv /\ [Next]_vars =>
        [edits' = edits => \A d \in Dispatch : case'[d] # case[d] => Forward(case[d], case'[d])]_vars
  BY <1>1 DEF Inv
<1>3. QED
  BY <1>2, Invariance, PTL DEF Spec, CaseMovesForward

(***************************************************************************)
(* A written-off device comes back only when the flag that wrote it off    *)
(* has been withdrawn: the delivery or return of its parcel, a late return *)
(* sheet, an activation never revive it.                                   *)
(***************************************************************************)
THEOREM StaysWrittenOff == Spec => RevivedOnlyByWithdrawal
<1>1. ASSUME TypeOK, Causality, News, [Next]_vars, edits' = 0,
             NEW e \in Dispatch, unit[e] = "DAMAGED", unit'[e] # "DAMAGED"
      PROVE  e + 1 \in Dispatch /\ Withdrawn(e + 1)
  <2> USE DEF tmsVars, poolVars, parcelVars, unitVars
  <2>1. ASSUME NEW d \in Dispatch, Request(d) PROVE FALSE
    BY <1>1, <2>1 DEF Request, FlagDamage, CancelRead, CancelWrite, Activate, Deactivate, UpdateCase
  <2>2. ASSUME NEW d \in Dispatch, Work(d) PROVE FALSE
    <3>1. CASE ReturnSheet(d)
      <4>1. d # e
        BY <1>1, <3>1 DEF ReturnSheet, Causality
      <4>2. QED
        BY <1>1, <3>1, <4>1 DEF ReturnSheet, TypeOK
    <3>2. CASE CourierReports(d)
      BY <1>1, <3>2 DEF CourierReports, TypeOK, UnitStatus
    <3>3. QED
      BY <1>1, <2>2, <3>1, <3>2 DEF Work, Hold, FormBatch, SendToVendor, OverrideTerminal
  <2>3. ASSUME NEW f \in facts, Handle(f) PROVE e + 1 \in Dispatch /\ Withdrawn(e + 1)
    <3>1. CASE ProjectCancelled(f)
      <4>1. f.of - 1 = e
        BY <1>1, <3>1 DEF ProjectCancelled, TypeOK
      <4>2. f.of \in Replacement /\ f.of \in Dispatch /\ f.of = e + 1
        <5>1. f.of \in Replacement
          BY <1>1, <3>1 DEF ProjectCancelled, Causality
        <5>2. QED
          BY <4>1, <5>1, Neighbours
      <4>3. edits = 0 /\ f.kind = "cancelled"
        BY <1>1, <3>1 DEF ProjectCancelled
      <4>4. QED
        BY <1>1, <4>2, <4>3 DEF News, Unedited, Withdrawn
    <3>2. CASE ProjectReplacement(f)
      BY <1>1, <3>2 DEF ProjectReplacement, TypeOK, UnitStatus
    <3>3. QED
      BY <1>1, <2>3, <3>1, <3>2 DEF Handle, ProjectDemand, ConsumeBatch,
          ProjectActivation, ProjectDeactivation, ProjectDispatch, ProjectShipment
  <2>4. CASE UNCHANGED vars
    BY <1>1, <2>4 DEF vars
  <2>5. QED
    BY <1>1, <2>1, <2>2, <2>3, <2>4 DEF Next
<1>2. Inv /\ [Next]_vars =>
        [edits' = 0 => \A d \in Dispatch : unit[d] = "DAMAGED" /\ unit'[d] # "DAMAGED" =>
            d + 1 \in Dispatch /\ Withdrawn(d + 1)]_vars
  BY <1>1 DEF Inv
<1>3. QED
  BY <1>2, Invariance, PTL DEF Spec, RevivedOnlyByWithdrawal
=============================================================================
