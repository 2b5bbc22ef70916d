--------------------------- MODULE AnalyticsRows ---------------------------
(***************************************************************************)
(* The dispatch rows of services/analytics: ingest.ts, project.ts and      *)
(* watermark.ts.  Facts arrive in any order and more than once, and each   *)
(* is one transaction: its envelope id and its raw_event row, then a       *)
(* refold of every dispatch it affects, then the watermark.  What is       *)
(* derived must not depend on the order of arrival.                        *)
(*                                                                         *)
(* A consumer process handles one message at a time; Ingesters are the     *)
(* processes among which the partitions of the eleven topics are spread.   *)
(* unit and ship_to_amended facts change no column and are left out.       *)
(***************************************************************************)
EXTENDS Naturals, FiniteSets

CONSTANTS
    Asgns,      \* dispatch ids
    Group,      \* the dispatch_group of their assignment fact, "LEGACY" for none
    Shpts,
    Facts,      \* everything the other contexts will say
    Last,       \* latest occurred_at
    Ingesters,
    Tracked,    \* the topics whose watermark an instance follows
    None

PipelineStates == {"", "RECEIVED", "BATCHED", "SENT_TO_VENDOR", "DISPATCHED", "DELIVERED"}
PIPELINE_RANK == [p \in PipelineStates |->
    CASE p = "" -> 0 [] p = "RECEIVED" -> 1 [] p = "BATCHED" -> 2
      [] p = "SENT_TO_VENDOR" -> 3 [] p = "DISPATCHED" -> 4 [] OTHER -> 5]

Keyed == {"ASSIGNMENT", "ACTIVATED", "DEACTIVATED", "PRINT_FOR"}
Paired == {"REPLACEMENT", "REPLACEMENT_CANCELLED"}
Listed == {"BATCH", "DISPATCH"}
Topics == Keyed \cup Paired \cup Listed \cup {"SHIPMENT"}
Statuses == {"SENT_TO_VENDOR", "DISPATCHED_BY_VENDOR", "IN_TRANSIT", "DELIVERED", "RETURNED"}

(* at stands for the place of the fact by (occurred_at, envelope_id).      *)
(* asgn is payload.asgnId, replaced payload.replacedAsgnId, asgns          *)
(* payload.asgnIds, each None or {} where the payload has no such field.   *)
Fact == [topic : Topics, at : 1..Last, asgn : Asgns \cup {None}, replaced : Asgns \cup {None},
         asgns : SUBSET Asgns, shpt : Shpts \cup {None}, status : Statuses \cup {None},
         collateral : BOOLEAN]

ASSUME FactsAssumption ==
    /\ Last \in Nat /\ Facts \subseteq Fact
    /\ None \notin Asgns /\ None \notin Shpts /\ None \notin Facts
    /\ \A e, f \in Facts : e.at = f.at => e = f
    /\ \A e \in Facts : e.topic \in Keyed => e.asgn \in Asgns
    /\ \A e \in Facts : e.topic = "SHIPMENT" => (e.collateral <=> e.asgns # {})

(* DispatchRowState, without the columns that only copy a field.           *)
DispatchRowState ==
    [id : Asgns \cup {None}, group : {Group[a] : a \in Asgns} \cup {None}, pipeline : PipelineStates,
     courier : Statuses \cup {None}, parcel : Shpts \cup {None}, collateralParcel : Shpts \cup {None},
     delivered : 0..Last, live : BOOLEAN, original : Asgns \cup {None}, replacedBy : Asgns \cup {None}]

(***************************************************************************)
(* Where facts come from, on which the columns of a row depend.  A         *)
(* replacement names both parties, and a fact about many dispatches none   *)
(* singly.  No device is paired with a collateral leg (return-sheet.ts:411,*)
(* project.ts:330).  The assignment is "the earliest lifecycle event"      *)
(* (project.ts:160); what is needed of it is that it comes before the      *)
(* replacement of the dispatch, which is matched by the row's id, and      *)
(* before the parcel of a collateral leg, matched by the row's group.      *)
(***************************************************************************)
ASSUME ProvenanceAssumption ==
    /\ None \notin DispatchRowState /\ None # "COLLATERAL"
    /\ \A e \in Facts : e.topic \in Paired => e.asgn \in Asgns /\ e.replaced \in Asgns
    /\ \A e \in Facts : e.topic \in Listed \cup {"SHIPMENT"} => e.asgn = None
    /\ \A e \in Facts : e.topic = "PRINT_FOR" => Group[e.asgn] # "COLLATERAL"
    /\ \A e, f \in Facts :
          /\ e.topic = "ASSIGNMENT"
          /\ \/ f.topic \in Paired /\ f.replaced = e.asgn
             \/ f.topic = "SHIPMENT" /\ e.asgn \in f.asgns /\ Group[e.asgn] = "COLLATERAL"
          => e.at < f.at

VARIABLES
    raw,        \* raw_event, whose envelope ids are the inbox's
    rows,       \* dispatch_row, None for no row
    watermark,  \* analytics_watermark.as_of, 0 for no row
    tx,         \* the ingest of each process
    stale       \* history: dispatches refolded while another ingest was open
vars == <<raw, rows, watermark, tx, stale>>

-----------------------------------------------------------------------------
(* The reducer.                                                            *)

Fresh(e) == [id |-> e.asgn, group |-> None, pipeline |-> "", courier |-> None, parcel |-> None,
             collateralParcel |-> None, delivered |-> 0, live |-> FALSE, original |-> None,
             replacedBy |-> None]

Reach(s, stage) ==
    IF PIPELINE_RANK[stage] > PIPELINE_RANK[s.pipeline] THEN [s EXCEPT !.pipeline = stage] ELSE s

CourierMoved(s, e) ==
    LET own == IF e.collateral THEN [s EXCEPT !.parcel = e.shpt] ELSE s
        moved == [own EXCEPT !.courier = e.status]
    IN  CASE e.status = "DISPATCHED_BY_VENDOR" -> Reach(moved, "DISPATCHED")
          [] e.status = "DELIVERED" -> Reach([moved EXCEPT !.delivered = e.at], "DELIVERED")
          [] OTHER -> moved

(* A collateral fact is about the second parcel of a row, unless the row   *)
(* is itself the collateral leg.                                           *)
FoldShipment_Fault(s, e) == CourierMoved(s, e)
FoldShipment(s, e) ==
    IF e.collateral /\ s.group # "COLLATERAL" THEN [s EXCEPT !.collateralParcel = e.shpt]
    ELSE CourierMoved(s, e)

(* Who raised a replacement keeps the mark of its birth; whom it replaced  *)
(* loses the damage marks when the flag is withdrawn.                      *)
FoldReplacement(s, e) ==
    LET child == IF e.asgn = s.id /\ e.topic = "REPLACEMENT" THEN [s EXCEPT !.original = e.replaced] ELSE s
    IN  IF e.replaced # s.id THEN child
        ELSE [child EXCEPT !.replacedBy = IF e.topic = "REPLACEMENT" THEN e.asgn ELSE None]

(* What a dispatch fact reaches; other states (QR_GENERATED) reach nothing.*)
Stage == [p \in {"SENT_TO_VENDOR", "DISPATCHED_BY_VENDOR"} |->
    IF p = "SENT_TO_VENDOR" THEN p ELSE "DISPATCHED"]

ApplyFact_D16Fault(prior, e) ==
    LET s == IF prior = None THEN Fresh(e) ELSE prior IN
    CASE e.topic = "ASSIGNMENT" -> Reach([s EXCEPT !.id = e.asgn, !.group = Group[e.asgn]], "RECEIVED")
      [] e.topic = "ACTIVATED" -> Reach([s EXCEPT !.live = TRUE], "DELIVERED")
      [] e.topic = "DEACTIVATED" -> [s EXCEPT !.live = FALSE]
      [] e.topic \in Paired -> FoldReplacement(s, e)
      [] e.topic = "PRINT_FOR" -> [s EXCEPT !.parcel = e.shpt]
      [] e.topic = "BATCH" -> Reach(s, "BATCHED")
      [] e.topic = "DISPATCH" -> IF e.status \in DOMAIN Stage THEN Reach(s, Stage[e.status]) ELSE s
      [] e.topic = "SHIPMENT" -> FoldShipment(s, e)

ApplyFact(prior, e) ==
    LET s == IF prior = None THEN Fresh(e) ELSE prior IN
    CASE e.topic = "ASSIGNMENT" -> Reach([s EXCEPT !.id = e.asgn, !.group = Group[e.asgn]], "RECEIVED")
      [] e.topic = "ACTIVATED" -> [s EXCEPT !.live = TRUE]
      [] e.topic = "DEACTIVATED" -> [s EXCEPT !.live = FALSE]
      [] e.topic \in Paired -> FoldReplacement(s, e)
      [] e.topic = "PRINT_FOR" -> [s EXCEPT !.parcel = e.shpt]
      [] e.topic = "BATCH" -> Reach(s, "BATCHED")
      [] e.topic = "DISPATCH" -> IF e.status \in DOMAIN Stage THEN Reach(s, Stage[e.status]) ELSE s
      [] e.topic = "SHIPMENT" -> FoldShipment(s, e)

-----------------------------------------------------------------------------
(* The fold of the log, and what a fact affects.                           *)

ParcelsOf(S, a) == {e.shpt : e \in {f \in S : f.topic = "PRINT_FOR" /\ f.asgn = a}}

(* The selector of foldAsgn.                                               *)
Relevant_Fault(S, a) == {e \in S :
    \/ e.topic \in (Keyed \ {"DEACTIVATED"}) /\ e.asgn = a
    \/ e.topic \in Paired /\ a \in {e.asgn, e.replaced}
    \/ e.topic \in Listed \cup {"SHIPMENT"} /\ a \in e.asgns
    \/ e.topic = "SHIPMENT" /\ e.shpt \in ParcelsOf(S, a)}
Relevant(S, a) == {e \in S :
    \/ e.topic \in Keyed /\ e.asgn = a
    \/ e.topic \in Paired /\ a \in {e.asgn, e.replaced}
    \/ e.topic \in Listed \cup {"SHIPMENT"} /\ a \in e.asgns
    \/ e.topic = "SHIPMENT" /\ e.shpt \in ParcelsOf(S, a)}

(* foldAsgn, in the order of occurred_at, whatever the order of arrival.   *)
Fold(R) ==
    LET state[n \in 0..Last] ==
          IF n = 0 THEN None
          ELSE LET now == {e \in R : e.at = n} IN
               IF now = {} THEN state[n - 1] ELSE ApplyFact(state[n - 1], CHOOSE e \in now : TRUE)
    IN  state[Last]

(* refoldAndUpsert: no row before the assignment fact, whose columns are   *)
(* NOT NULL.                                                               *)
Assigned(S, a) == \E e \in S : e.topic = "ASSIGNMENT" /\ e.asgn = a
Row(S, a) == IF Assigned(S, a) THEN Fold(Relevant(S, a)) ELSE None

(* affectedAsgns.                                                          *)
Affected_Fault(S, e) ==
    CASE e.topic \in Keyed -> {e.asgn}
      [] e.topic \in Paired -> {e.asgn} \ {None}
      [] e.topic \in Listed -> e.asgns
      [] e.topic = "SHIPMENT" ->
            IF e.collateral THEN e.asgns
            ELSE {f.asgn : f \in {g \in S : g.topic = "PRINT_FOR" /\ g.shpt = e.shpt}}
Affected(S, e) ==
    CASE e.topic \in Keyed -> {e.asgn}
      [] e.topic \in Paired -> {e.asgn, e.replaced} \ {None}
      [] e.topic \in Listed -> e.asgns
      [] e.topic = "SHIPMENT" ->
            IF e.collateral THEN e.asgns
            ELSE {f.asgn : f \in {g \in S : g.topic = "PRINT_FOR" /\ g.shpt = e.shpt}}

-----------------------------------------------------------------------------
(* ingestEnvelope.                                                         *)

Idle == [fact |-> None, todo |-> {}, read |-> None, found |-> FALSE, written |-> {},
         rows |-> [a \in Asgns |-> None], alone |-> TRUE]

Rows == {None} \cup {Row(S, a) : S \in SUBSET Facts, a \in Asgns}

TypeOK ==
    /\ raw \subseteq Facts
    /\ rows \in [Asgns -> Rows]
    /\ watermark \in [Tracked -> 0..Last]
    /\ tx \in [Ingesters -> [fact : Facts \cup {None}, todo : SUBSET Asgns, read : Asgns \cup {None},
                             found : BOOLEAN, written : SUBSET Asgns, rows : [Asgns -> Rows], alone : BOOLEAN]]
    /\ stale \subseteq Asgns

Init ==
    /\ raw = {}
    /\ rows = [a \in Asgns |-> None]
    /\ watermark = [k \in Tracked |-> 0]
    /\ tx = [i \in Ingesters |-> Idle]
    /\ stale = {}

Busy(i) == tx[i].fact # None

(* The insert into the inbox waits for a transaction that holds the same   *)
(* envelope id, and finds the id of a committed one: a redelivery is no    *)
(* step.                                                                   *)
Begin(i, e) ==
    /\ ~Busy(i) /\ e \in Facts \ raw
    /\ \A j \in Ingesters : tx[j].fact # e
    /\ LET alone == \A j \in Ingesters : ~Busy(j) IN
       tx' = [j \in Ingesters |->
                IF j = i THEN [Idle EXCEPT !.fact = e, !.todo = Affected(raw \cup {e}, e), !.alone = alone]
                ELSE IF Busy(j) THEN [tx[j] EXCEPT !.alone = FALSE] ELSE tx[j]]
    /\ UNCHANGED <<raw, rows, watermark, stale>>

(* The fold is one statement: it sees what is committed and its own fact.  *)
Refold(i, a) ==
    LET S == raw \cup {tx[i].fact} IN
    /\ Busy(i) /\ a \in tx[i].todo /\ tx[i].read = None
    /\ tx' = [tx EXCEPT ![i].read = a, ![i].found = Assigned(S, a), ![i].rows[a] = Row(S, a)]
    /\ UNCHANGED <<raw, rows, watermark, stale>>

(* The upsert waits for a transaction that holds the row.                  *)
Upsert(i) ==
    LET a == tx[i].read IN
    /\ a # None
    /\ tx[i].found => \A j \in Ingesters \ {i} : a \notin tx[j].written
    /\ tx' = [tx EXCEPT ![i].read = None, ![i].todo = @ \ {a},
                        ![i].written = IF tx[i].found THEN @ \cup {a} ELSE @]
    /\ UNCHANGED <<raw, rows, watermark, stale>>

(* bumpWatermark and the commit.                                           *)
Commit(i) ==
    LET t == tx[i] IN
    /\ Busy(i) /\ t.todo = {}
    /\ raw' = raw \cup {t.fact}
    /\ rows' = [a \in Asgns |-> IF a \in t.written THEN t.rows[a] ELSE rows[a]]
    /\ watermark' = [k \in Tracked |-> IF k = t.fact.topic THEN t.fact.at ELSE watermark[k]]
    /\ stale' = IF t.alone THEN stale \ Affected(raw \cup {t.fact}, t.fact)
                ELSE stale \cup Affected(raw \cup {t.fact}, t.fact)
    /\ tx' = [tx EXCEPT ![i] = Idle]

(* A crash, or the loser of a deadlock: the fact will be delivered again.  *)
Abort(i) ==
    /\ Busy(i)
    /\ tx' = [tx EXCEPT ![i] = Idle]
    /\ UNCHANGED <<raw, rows, watermark, stale>>

(* rebuildDispatchRows, with the consumers stopped.                        *)
RebuildDispatchRows ==
    /\ \A i \in Ingesters : ~Busy(i)
    /\ rows' = [a \in Asgns |-> Row(raw, a)]
    /\ stale' = {}
    /\ UNCHANGED <<raw, watermark, tx>>

Next ==
    \/ \E i \in Ingesters :
         \/ \E e \in Facts : Begin(i, e)
         \/ \E a \in Asgns : Refold(i, a)
         \/ Upsert(i) \/ Commit(i) \/ Abort(i)
    \/ RebuildDispatchRows

Spec == Init /\ [][Next]_vars

-----------------------------------------------------------------------------
(* Properties.                                                             *)

(* A parcel that carries a device of a and collateral links: its courier   *)
(* facts are flagged collateral, and affectedAsgns reads no further.       *)
Mixed(a) == \E e, f \in Facts : /\ e.topic = "PRINT_FOR" /\ e.asgn = a
                                /\ f.topic = "SHIPMENT" /\ f.collateral /\ f.shpt = e.shpt

(***************************************************************************)
(* D98: the rows built fact by fact are those a rebuild would build        *)
(* ("byte-identical to the online rows, regardless of fact ARRIVAL         *)
(* order"), except where two ingests of one dispatch were open at once,    *)
(* until its next fact is ingested alone, and except for a device that     *)
(* shares its parcel with somebody's collateral, whose courier facts do    *)
(* not refold its row.                                                     *)
(***************************************************************************)
OnlineIsRebuild == \A a \in Asgns \ stale : ~Mixed(a) => rows[a] = Row(raw, a)

LatestOf(S) == CHOOSE e \in S : \A f \in S : f.at <= e.at
Shown == {a \in Asgns \ stale : rows[a] # None}

(***************************************************************************)
(* The courier's columns describe the parcel of the row's own leg: a       *)
(* device's row follows only what is not flagged collateral ("a collateral *)
(* fact can never move courier_status, delivery_date or the pipeline       *)
(* rollup"), a collateral leg follows the flagged facts that name it, and  *)
(* the latest by occurred_at wins in whatever order they came.             *)
(***************************************************************************)
CourierFacts(S, a) == {e \in S : /\ e.topic = "SHIPMENT"
                                 /\ \/ ~e.collateral /\ e.shpt \in ParcelsOf(S, a)
                                    \/ e.collateral /\ a \in e.asgns /\ Group[a] = "COLLATERAL"}
ToldByCourier(s, C) == s.courier = IF C = {} THEN None ELSE LatestOf(C).status
CourierIsLatest == \A a \in Shown : ToldByCourier(rows[a], CourierFacts(raw, a))

(***************************************************************************)
(* D-16, the two readings of delivered: a row rolls up to DELIVERED        *)
(* exactly if it has a delivery date, exactly if the courier of its own    *)
(* parcel once said so, whenever the activation came.                      *)
(***************************************************************************)
DeliveredAsTold(s, C) ==
    LET said == \E e \in C : e.status = "DELIVERED" IN
    (s.pipeline = "DELIVERED" <=> said) /\ (s.delivered # 0 <=> said)
DeliveredOnce == \A a \in Shown : DeliveredAsTold(rows[a], CourierFacts(raw, a))

(***************************************************************************)
(* What can be withdrawn shows its latest word: a dispatch is live, or     *)
(* marked as replaced, exactly if the last fact about it by occurred_at is *)
(* not the withdrawal, whichever of the two arrived last.                  *)
(***************************************************************************)
Axis(S, a) == {e \in S : e.topic \in {"ACTIVATED", "DEACTIVATED"} /\ e.asgn = a}
Marks(S, a) == {e \in S : e.topic \in Paired /\ e.replaced = a}
Withdrawable(s, X, M) ==
    /\ s.live <=> X # {} /\ LatestOf(X).topic = "ACTIVATED"
    /\ s.replacedBy # None <=> M # {} /\ LatestOf(M).topic = "REPLACEMENT"
WithdrawalsShow == \A a \in Shown : Withdrawable(rows[a], Axis(raw, a), Marks(raw, a))

-----------------------------------------------------------------------------
(* The strengthening: what an open ingest holds.                           *)

Ingests ==
    \A i \in Ingesters :
        LET t == tx[i]  S == raw \cup {t.fact} IN
        /\ t.fact = None => t.todo = {} /\ t.read = None /\ t.written = {}
        /\ t.fact # None => t.todo \cup t.written \subseteq Affected(S, t.fact)
        /\ t.read # None => t.read \in t.todo /\ (t.found => Assigned(S, t.read))
        /\ \A a \in t.written : Assigned(S, a)
        /\ t.alone /\ t.fact # None => \A j \in Ingesters \ {i} : tx[j].fact = None

(* An ingest that is alone has seen the log it will leave.                 *)
SeesAll ==
    \A i \in Ingesters :
        LET t == tx[i]  S == raw \cup {t.fact} IN
        t.fact # None /\ t.alone =>
            /\ t.read # None => (t.found <=> Assigned(S, t.read)) /\ t.rows[t.read] = Row(S, t.read)
            /\ \A a \in t.written : t.rows[a] = Row(S, a)
            /\ \A a \in Affected(S, t.fact) : a \in t.todo \cup t.written \/ ~Assigned(S, a)

RowsAreAssigned == \A a \in Asgns : rows[a] # None => Assigned(raw, a)

(***************************************************************************)
(* The inductive invariant: the rows are the folds of the log, and what    *)
(* the ingests that are open must hold for it to stay so.                  *)
(***************************************************************************)
Inv == TypeOK /\ Ingests /\ SeesAll /\ RowsAreAssigned /\ OnlineIsRebuild
=============================================================================
