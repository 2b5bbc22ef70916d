------------------------ MODULE AnalyticsRowsProofs ------------------------
(***************************************************************************)
(* Proofs about AnalyticsRows for any facts, dispatches and number of      *)
(* ingesting processes.  That rows are folds of the log needs nothing of   *)
(* the reducer: the fold is a function of the facts the selector returns,  *)
(* and a fact that does not affect a dispatch leaves that set as it was.   *)
(* What the columns show is proved of the fold by induction over its turns.*)
(***************************************************************************)
EXTENDS AnalyticsRows, TLAPS, WellFoundedInduction

USE FactsAssumption

-----------------------------------------------------------------------------
(* What a fact affects.                                                    *)

LEMMA FactFields ==
  ASSUME NEW e \in Facts
  PROVE  /\ e.topic \in Topics /\ e.at \in 1..Last /\ e.asgn \in Asgns \cup {None}
         /\ e.replaced \in Asgns \cup {None} /\ e.asgns \subseteq Asgns /\ e # None
         /\ e.shpt \in Shpts \cup {None} /\ e.status \in Statuses \cup {None}
         /\ e.collateral \in BOOLEAN /\ (e.topic \in Keyed => e.asgn \in Asgns)
BY DEF Fact

LEMMA AffectedCases ==
  ASSUME NEW S, NEW e \in Facts
  PROVE  /\ e.topic \in Keyed => Affected(S, e) = {e.asgn} /\ e.asgn \in Asgns
         /\ e.topic \in Paired => Affected(S, e) = {e.asgn, e.replaced} \ {None}
         /\ e.topic \in Listed => Affected(S, e) = e.asgns
         /\ e.topic = "SHIPMENT" /\ e.collateral => Affected(S, e) = e.asgns
         /\ e.topic = "SHIPMENT" /\ ~e.collateral =>
              Affected(S, e) = {f.asgn : f \in {g \in S : g.topic = "PRINT_FOR" /\ g.shpt = e.shpt}}
         /\ e.topic \in Keyed \cup Paired \cup Listed \cup {"SHIPMENT"}
<1>1. e.topic \in Keyed \cup Paired \cup Listed \cup {"SHIPMENT"}
  BY FactFields DEF Topics
<1>2. e.topic \in Keyed => Affected(S, e) = {e.asgn}
  BY DEF Affected, Keyed, Paired, Listed
<1>3. e.topic \in Paired => Affected(S, e) = {e.asgn, e.replaced} \ {None}
  BY DEF Affected, Keyed, Paired, Listed
<1>4. e.topic \in Listed => Affected(S, e) = e.asgns
  BY DEF Affected, Keyed, Paired, Listed
<1>5. e.topic = "SHIPMENT" /\ e.collateral => Affected(S, e) = e.asgns
  BY DEF Affected, Keyed, Paired, Listed
<1>6. e.topic = "SHIPMENT" /\ ~e.collateral =>
        Affected(S, e) = {f.asgn : f \in {g \in S : g.topic = "PRINT_FOR" /\ g.shpt = e.shpt}}
  BY DEF Affected, Keyed, Paired, Listed
<1>7. QED
  BY <1>1, <1>2, <1>3, <1>4, <1>5, <1>6

LEMMA AffectedType ==
  ASSUME NEW S \in SUBSET Facts, NEW e \in Facts
  PROVE  Affected(S, e) \subseteq Asgns
<1>1. \A f \in S : f.topic = "PRINT_FOR" => f.asgn \in Asgns
  BY DEF Keyed
<1>2. CASE e.topic \in Keyed \cup Paired \cup Listed \/ e.collateral
  BY <1>2, AffectedCases, FactFields DEF Keyed, Paired, Listed
<1>3. CASE e.topic = "SHIPMENT" /\ ~e.collateral
  BY <1>1, <1>3, AffectedCases
<1>4. QED
  BY <1>2, <1>3, AffectedCases

(* A longer log never affects fewer.                                       *)
LEMMA AffectedGrows ==
  ASSUME NEW S, NEW T, S \subseteq T, NEW e \in Facts
  PROVE  Affected(S, e) \subseteq Affected(T, e)
<1>1. CASE e.topic \in Keyed \cup Paired \cup Listed \/ e.collateral
  BY <1>1, AffectedCases
<1>2. CASE e.topic = "SHIPMENT" /\ ~e.collateral
  BY <1>2, AffectedCases
<1>3. QED
  BY <1>1, <1>2, AffectedCases

(* The selector and affectedAsgns agree: a fact that does not affect a     *)
(* dispatch does not change what is folded for it.                         *)
LEMMA Unaffected ==
  ASSUME NEW S \in SUBSET Facts, NEW e \in Facts, NEW a \in Asgns,
         ~Mixed(a), a \notin Affected(S \cup {e}, e)
  PROVE  Row(S \cup {e}, a) = Row(S, a)
<1> DEFINE T == S \cup {e}
<1>1. ~(e.topic \in Keyed /\ e.asgn = a)
  BY AffectedCases
<1>2. ~(e.topic \in Paired /\ a \in {e.asgn, e.replaced})
  BY AffectedCases
<1>3. ~(e.topic \in Listed \cup {"SHIPMENT"} /\ a \in e.asgns)
  BY AffectedCases
<1>4. ParcelsOf(T, a) = ParcelsOf(S, a)
  BY <1>1 DEF ParcelsOf, Keyed
<1>5. ~(e.topic = "SHIPMENT" /\ e.shpt \in ParcelsOf(S, a))
  <2>1. SUFFICES ASSUME e.topic = "SHIPMENT", e.shpt \in ParcelsOf(S, a) PROVE FALSE
    OBVIOUS
  <2>2. PICK f \in S : f.topic = "PRINT_FOR" /\ f.asgn = a /\ f.shpt = e.shpt
    BY <2>1 DEF ParcelsOf
  <2>3. CASE e.collateral
    BY <2>1, <2>2, <2>3 DEF Mixed
  <2>4. CASE ~e.collateral
    BY <2>1, <2>2, <2>4, AffectedCases
  <2>5. QED
    BY <2>3, <2>4
<1>6. Relevant(T, a) = Relevant(S, a)
  BY <1>1, <1>2, <1>3, <1>4, <1>5 DEF Relevant
<1>7. Assigned(T, a) <=> Assigned(S, a)
  BY <1>1 DEF Assigned, Keyed
<1>8. QED
  BY <1>6, <1>7 DEF Row

LEMMA RowType ==
  ASSUME NEW S \in SUBSET Facts, NEW a \in Asgns
  PROVE  Row(S, a) \in Rows /\ None \in Rows
BY DEF Rows

-----------------------------------------------------------------------------
(* What a step does to an ingest.                                          *)

Tx == [fact : Facts \cup {None}, todo : SUBSET Asgns, read : Asgns \cup {None},
       found : BOOLEAN, written : SUBSET Asgns, rows : [Asgns -> Rows], alone : BOOLEAN]

LEMMA IdleType == Idle \in Tx
BY DEF Idle, Tx, Rows

LEMMA TxType == TypeOK <=> /\ raw \subseteq Facts /\ rows \in [Asgns -> Rows]
                           /\ watermark \in [Tracked -> 0..Last]
                           /\ tx \in [Ingesters -> Tx] /\ stale \subseteq Asgns
BY DEF TypeOK, Tx

LEMMA BeginValues ==
  ASSUME TypeOK, NEW i \in Ingesters, NEW e \in Facts, Begin(i, e)
  PROVE  LET t == tx'[i] IN
         /\ t.fact = e /\ t.todo = Affected(raw \cup {e}, e) /\ t.read = None /\ t.written = {}
         /\ t.alone => \A j \in Ingesters : tx[j].fact = None
         /\ t \in Tx
         /\ \A j \in Ingesters \ {i} :
              /\ tx[j].fact = None => tx'[j] = tx[j]
              /\ tx[j].fact # None => tx'[j] = [tx[j] EXCEPT !.alone = FALSE]
         /\ tx' \in [Ingesters -> Tx]
<1> DEFINE alone == \A j \in Ingesters : ~Busy(j)
           new == [Idle EXCEPT !.fact = e, !.todo = Affected(raw \cup {e}, e), !.alone = alone]
<1>1. tx' = [j \in Ingesters |-> IF j = i THEN new ELSE IF Busy(j) THEN [tx[j] EXCEPT !.alone = FALSE] ELSE tx[j]]
  BY DEF Begin
<1>2. alone \in BOOLEAN /\ Affected(raw \cup {e}, e) \in SUBSET Asgns
  BY AffectedType DEF TypeOK
<1>3. alone => \A j \in Ingesters : tx[j].fact = None
  BY DEF Busy
<1> HIDE DEF alone
<1>4. /\ new \in Tx /\ new.fact = e /\ new.todo = Affected(raw \cup {e}, e) /\ new.read = None
      /\ new.written = {} /\ new.alone = alone
  BY <1>2, IdleType DEF Tx, Idle
<1> HIDE DEF new
<1>5. \A j \in Ingesters : tx[j] \in Tx
  BY TxType
<1>6. \A j \in Ingesters : [tx[j] EXCEPT !.alone = FALSE] \in Tx
  BY <1>5 DEF Tx
<1>7. tx' \in [Ingesters -> Tx]
  BY <1>1, <1>4, <1>5, <1>6
<1>8. QED
  BY <1>1, <1>3, <1>4, <1>7 DEF Busy

LEMMA RefoldValues ==
  ASSUME TypeOK, NEW i \in Ingesters, NEW a \in Asgns, Refold(i, a)
  PROVE  LET S == raw \cup {tx[i].fact}  t == tx'[i] IN
         /\ tx[i].fact \in Facts /\ a \in tx[i].todo
         /\ \A j \in Ingesters \ {i} : tx'[j] = tx[j]
         /\ t.fact = tx[i].fact /\ t.todo = tx[i].todo /\ t.written = tx[i].written /\ t.alone = tx[i].alone
         /\ t.read = a /\ (t.found <=> Assigned(S, a)) /\ t.rows[a] = Row(S, a)
         /\ \A b \in Asgns \ {a} : t.rows[b] = tx[i].rows[b]
         /\ tx' \in [Ingesters -> Tx]
<1> DEFINE S == raw \cup {tx[i].fact}
           found == Assigned(S, a)
           row == Row(S, a)
<1>1. tx' = [tx EXCEPT ![i].read = a, ![i].found = found, ![i].rows[a] = row] /\ a \in tx[i].todo
  BY DEF Refold
<1>2. tx[i].fact \in Facts
  BY DEF Refold, Busy, TypeOK
<1>3. row \in Rows /\ found \in BOOLEAN
  BY <1>2, RowType DEF TypeOK, Assigned
<1>4. found <=> Assigned(S, a)
  OBVIOUS
<1> HIDE DEF found, row
<1>5. tx \in [Ingesters -> Tx]
  BY TxType
<1>6. tx' \in [Ingesters -> Tx]
  <2> DEFINE new == [tx[i] EXCEPT !.read = a, !.found = found, !.rows = [@ EXCEPT ![a] = row]]
  <2>1. tx[i] \in Tx
    BY <1>5
  <2>2. [tx[i].rows EXCEPT ![a] = row] \in [Asgns -> Rows]
    BY <1>3, <2>1 DEF Tx
  <2>3. new \in Tx
    BY <1>3, <2>1, <2>2 DEF Tx
  <2>4. tx' = [tx EXCEPT ![i] = new]
    BY <1>1, <1>5
  <2> HIDE DEF new
  <2>5. QED
    BY <1>5, <2>3, <2>4
<1>7. /\ \A j \in Ingesters \ {i} : tx'[j] = tx[j]
      /\ tx'[i].fact = tx[i].fact /\ tx'[i].todo = tx[i].todo /\ tx'[i].written = tx[i].written
      /\ tx'[i].alone = tx[i].alone /\ tx'[i].read = a /\ tx'[i].found = found /\ tx'[i].rows[a] = row
      /\ \A b \in Asgns \ {a} : tx'[i].rows[b] = tx[i].rows[b]
  BY <1>1, <1>5 DEF Tx
<1>8. QED
  BY <1>1, <1>2, <1>4, <1>6, <1>7 DEF row

LEMMA UpsertValues ==
  ASSUME TypeOK, NEW i \in Ingesters, Upsert(i)
  PROVE  LET t == tx'[i] IN
         /\ tx[i].read \in Asgns
         /\ \A j \in Ingesters \ {i} : tx'[j] = tx[j]
         /\ t.fact = tx[i].fact /\ t.todo = tx[i].todo \ {tx[i].read} /\ t.read = None
         /\ t.written = IF tx[i].found THEN tx[i].written \cup {tx[i].read} ELSE tx[i].written
         /\ t.rows = tx[i].rows /\ t.alone = tx[i].alone
         /\ tx' \in [Ingesters -> Tx]
<1> DEFINE a == tx[i].read
<1>1. tx' = [tx EXCEPT ![i].read = None, ![i].todo = @ \ {a},
                       ![i].written = IF tx[i].found THEN @ \cup {a} ELSE @]
  BY DEF Upsert
<1>2. a \in Asgns
  BY DEF Upsert, TypeOK
<1>3. tx \in [Ingesters -> Tx]
  BY TxType
<1> DEFINE w == IF tx[i].found THEN tx[i].written \cup {a} ELSE tx[i].written
           new == [tx[i] EXCEPT !.read = None, !.todo = @ \ {a}, !.written = w]
<1>4. tx' = [tx EXCEPT ![i] = new]
  BY <1>1, <1>3
<1>5. tx[i] \in Tx
  BY <1>3
<1>6. w \in SUBSET Asgns
  BY <1>2, <1>5 DEF Tx
<1> HIDE DEF w
<1>7. /\ new \in Tx /\ new.fact = tx[i].fact /\ new.todo = tx[i].todo \ {a} /\ new.read = None
      /\ new.written = w /\ new.rows = tx[i].rows /\ new.alone = tx[i].alone
  BY <1>5, <1>6 DEF Tx
<1> HIDE DEF new
<1>8. /\ \A j \in Ingesters \ {i} : tx'[j] = tx[j]
      /\ tx'[i] = new /\ tx' \in [Ingesters -> Tx]
  BY <1>3, <1>4, <1>7
<1>9. QED
  BY <1>2, <1>7, <1>8 DEF w

LEMMA EndValues ==
  ASSUME TypeOK, NEW i \in Ingesters, Commit(i) \/ Abort(i)
  PROVE  /\ tx[i].fact \in Facts
         /\ \A j \in Ingesters \ {i} : tx'[j] = tx[j]
         /\ tx'[i].fact = None /\ tx'[i].todo = {} /\ tx'[i].read = None /\ tx'[i].written = {}
         /\ tx' \in [Ingesters -> Tx]
<1>1. tx' = [tx EXCEPT ![i] = Idle] /\ tx[i].fact # None
  BY DEF Commit, Abort, Busy
<1>2. tx \in [Ingesters -> Tx]
  BY TxType
<1>3. QED
  BY <1>1, <1>2, IdleType DEF Idle, TypeOK

LEMMA NextCases ==
  ASSUME [Next]_vars
  PROVE  \/ \E i \in Ingesters, e \in Facts : Begin(i, e)
         \/ \E i \in Ingesters, a \in Asgns : Refold(i, a)
         \/ \E i \in Ingesters : Upsert(i)
         \/ \E i \in Ingesters : Commit(i)
         \/ \E i \in Ingesters : Abort(i)
         \/ RebuildDispatchRows
         \/ UNCHANGED vars
BY DEF Next

LEMMA TypeStep == TypeOK /\ [Next]_vars => TypeOK'
<1> SUFFICES ASSUME TypeOK, [Next]_vars
             PROVE  /\ raw' \subseteq Facts /\ rows' \in [Asgns -> Rows]
                    /\ watermark' \in [Tracked -> 0..Last]
                    /\ tx' \in [Ingesters -> Tx] /\ stale' \subseteq Asgns
  BY TxType DEF TypeOK, Tx
<1> DEFINE Rest == raw' = raw /\ rows' = rows /\ watermark' = watermark /\ stale' = stale
<1>1. Rest => /\ raw' \subseteq Facts /\ rows' \in [Asgns -> Rows]
              /\ watermark' \in [Tracked -> 0..Last] /\ stale' \subseteq Asgns
  BY DEF TypeOK
<1>2. ASSUME NEW i \in Ingesters, NEW e \in Facts, Begin(i, e) PROVE Rest /\ tx' \in [Ingesters -> Tx]
  BY <1>2, BeginValues DEF Begin
<1>3. ASSUME NEW i \in Ingesters, NEW a \in Asgns, Refold(i, a) PROVE Rest /\ tx' \in [Ingesters -> Tx]
  BY <1>3, RefoldValues DEF Refold
<1>4. ASSUME NEW i \in Ingesters, Upsert(i) PROVE Rest /\ tx' \in [Ingesters -> Tx]
  BY <1>4, UpsertValues DEF Upsert
<1>5. ASSUME NEW i \in Ingesters, Abort(i) PROVE Rest /\ tx' \in [Ingesters -> Tx]
  BY <1>5, EndValues DEF Abort
<1>6. ASSUME NEW i \in Ingesters, Commit(i)
      PROVE  /\ raw' \subseteq Facts /\ rows' \in [Asgns -> Rows]
             /\ watermark' \in [Tracked -> 0..Last]
             /\ tx' \in [Ingesters -> Tx] /\ stale' \subseteq Asgns
  <2> DEFINE t == tx[i]
  <2>1. t.fact \in Facts /\ tx' \in [Ingesters -> Tx]
    BY <1>6, EndValues
  <2>2. /\ raw' = raw \cup {t.fact}
        /\ rows' = [a \in Asgns |-> IF a \in t.written THEN t.rows[a] ELSE rows[a]]
        /\ watermark' = [k \in Tracked |-> IF k = t.fact.topic THEN t.fact.at ELSE watermark[k]]
        /\ stale' \subseteq stale \cup Affected(raw \cup {t.fact}, t.fact)
    BY <1>6 DEF Commit
  <2>3. raw' \subseteq Facts
    BY <2>1, <2>2 DEF TypeOK
  <2>4. t.rows \in [Asgns -> Rows]
    BY DEF TypeOK
  <2>5. t.fact.at \in 0..Last
    BY <2>1, FactFields
  <2>6. stale' \subseteq Asgns
    BY <2>1, <2>2, AffectedType DEF TypeOK
  <2> HIDE DEF t
  <2>7. rows' \in [Asgns -> Rows]
    BY <2>2, <2>4 DEF TypeOK
  <2>8. watermark' \in [Tracked -> 0..Last]
    BY <2>2, <2>5 DEF TypeOK
  <2>9. QED
    BY <2>1, <2>3, <2>6, <2>7, <2>8
<1>7. ASSUME RebuildDispatchRows
      PROVE  /\ raw' \subseteq Facts /\ rows' \in [Asgns -> Rows]
             /\ watermark' \in [Tracked -> 0..Last]
             /\ tx' \in [Ingesters -> Tx] /\ stale' \subseteq Asgns
  <2>1. \A a \in Asgns : Row(raw, a) \in Rows
    BY RowType DEF TypeOK
  <2>2. QED
    BY <1>7, <2>1, TxType DEF RebuildDispatchRows, TypeOK
<1>8. CASE UNCHANGED vars
  BY <1>8, TxType DEF vars, TypeOK
<1> HIDE DEF Rest
<1>9. QED
  BY <1>1, <1>2, <1>3, <1>4, <1>5, <1>6, <1>7, <1>8, NextCases

-----------------------------------------------------------------------------
(* What an ingest holds.                                                   *)

(* Ingests and SeesAll, for one ingest.                                    *)
Held(i) ==
    LET t == tx[i]  S == raw \cup {t.fact} IN
    /\ t.fact = None => t.todo = {} /\ t.read = None /\ t.written = {}
    /\ t.fact # None => t.todo \cup t.written \subseteq Affected(S, t.fact)
    /\ t.read # None => t.read \in t.todo /\ (t.found => Assigned(S, t.read))
    /\ \A a \in t.written : Assigned(S, a)
    /\ t.alone /\ t.fact # None => \A j \in Ingesters \ {i} : tx[j].fact = None
Sees(i) ==
    LET t == tx[i]  S == raw \cup {t.fact} IN
    t.fact # None /\ t.alone =>
        /\ t.read # None => (t.found <=> Assigned(S, t.read)) /\ t.rows[t.read] = Row(S, t.read)
        /\ \A a \in t.written : t.rows[a] = Row(S, a)
        /\ \A a \in Affected(S, t.fact) : a \in t.todo \cup t.written \/ ~Assigned(S, a)

LEMMA Each == /\ Ingests <=> \A i \in Ingesters : Held(i)
              /\ SeesAll <=> \A i \in Ingesters : Sees(i)
BY DEF Ingests, SeesAll, Held, Sees

LEMMA AssignedGrows ==
  ASSUME NEW S, NEW T, S \subseteq T, NEW a, Assigned(S, a)
  PROVE  Assigned(T, a)
BY DEF Assigned

LEMMA Untouched ==
  ASSUME NEW k \in Ingesters, raw' = raw, tx'[k] = tx[k]
  PROVE  /\ Sees(k) => Sees(k)'
         /\ Held(k) /\ (\A j \in Ingesters : tx'[j].fact = tx[j].fact) => Held(k)'
BY DEF Held, Sees

LEMMA RefoldOthers ==
  ASSUME TypeOK, NEW i \in Ingesters, NEW a \in Asgns, Refold(i, a), NEW k \in Ingesters \ {i}
  PROVE  tx'[k] = tx[k]
BY DEF Refold, TypeOK

LEMMA UpsertOthers ==
  ASSUME TypeOK, NEW i \in Ingesters, Upsert(i), NEW k \in Ingesters \ {i}
  PROVE  tx'[k] = tx[k]
BY UpsertValues

LEMMA EndOthers ==
  ASSUME TypeOK, NEW i \in Ingesters, Commit(i) \/ Abort(i)
  PROVE  tx'[i].fact = None /\ \A k \in Ingesters \ {i} : tx'[k] = tx[k]
BY EndValues

(* An ingest that was open when another began is alone no longer.           *)
LEMMA BeginOther ==
  ASSUME TypeOK, NEW i \in Ingesters, NEW e \in Facts, Begin(i, e),
         NEW k \in Ingesters \ {i}, tx[k].fact # None
  PROVE  /\ tx'[k].fact = tx[k].fact /\ tx'[k].todo = tx[k].todo /\ tx'[k].read = tx[k].read
         /\ tx'[k].found = tx[k].found /\ tx'[k].written = tx[k].written /\ ~tx'[k].alone
<1>1. tx'[k] = [tx[k] EXCEPT !.alone = FALSE]
  BY BeginValues
<1>2. tx[k] \in Tx
  BY TxType
<1>3. QED
  BY <1>1, <1>2 DEF Tx

LEMMA IngestsStep == TypeOK /\ Ingests /\ [Next]_vars => Ingests'
<1> SUFFICES ASSUME TypeOK, \A i \in Ingesters : Held(i), [Next]_vars, NEW k \in Ingesters
             PROVE  Held(k)'
  BY Each DEF Ingests, Held
<1>0. tx[k].fact \in Facts \cup {None}
  BY DEF TypeOK
<1>1. ASSUME NEW i \in Ingesters, NEW e \in Facts, Begin(i, e) PROVE Held(k)'
  <2>1. raw' = raw
    BY <1>1 DEF Begin
  <2>2. CASE k = i
    <3>1. \A j \in Ingesters \ {i} : tx'[i].alone => tx'[j].fact = None
      BY <1>1, BeginValues
    <3>2. QED
      <4>1. /\ tx'[k].fact = e /\ tx'[k].todo = Affected(raw' \cup {e}, e) /\ tx'[k].read = None
            /\ tx'[k].written = {}
        BY <1>1, <2>1, <2>2, BeginValues
      <4>2. e # None
        BY FactFields
      <4>3. QED
        BY <2>2, <3>1, <4>1, <4>2 DEF Held
  <2>3. CASE k # i /\ tx[k].fact = None
    <3>1. tx'[k] = tx[k]
      BY <1>1, <2>3, BeginValues
    <3>2. QED
      BY <2>1, <2>3, <3>1 DEF Held
  <2>4. CASE k # i /\ tx[k].fact # None
    <3>1. /\ tx'[k].fact = tx[k].fact /\ tx'[k].todo = tx[k].todo /\ tx'[k].read = tx[k].read
          /\ tx'[k].found = tx[k].found /\ tx'[k].written = tx[k].written /\ ~tx'[k].alone
      BY <1>1, <2>4, BeginOther
    <3>2. QED
      BY <2>1, <3>1 DEF Held
  <2>5. QED
    BY <2>2, <2>3, <2>4
<1>2. ASSUME NEW i \in Ingesters, NEW a \in Asgns, Refold(i, a) PROVE Held(k)'
  <2>1. raw' = raw
    BY <1>2 DEF Refold
  <2>2. \A j \in Ingesters : tx'[j].fact = tx[j].fact
    BY <1>2, RefoldValues
  <2>3. CASE k = i
    <3>1. /\ tx[k].fact \in Facts /\ a \in tx[k].todo /\ tx'[k].todo = tx[k].todo
          /\ tx'[k].written = tx[k].written /\ tx'[k].alone = tx[k].alone /\ tx'[k].read = a
          /\ tx'[k].found => Assigned(raw \cup {tx[k].fact}, a)
      BY <1>2, <2>3, RefoldValues
    <3>2. QED
      BY <2>1, <2>2, <3>1, FactFields DEF Held
  <2>4. CASE k # i
    <3>1. tx'[k] = tx[k]
      BY <1>2, <2>4, RefoldOthers
    <3>2. QED
      BY <2>1, <2>2, <3>1, Untouched
  <2>5. QED
    BY <2>3, <2>4
<1>3. ASSUME NEW i \in Ingesters, Upsert(i) PROVE Held(k)'
  <2>1. raw' = raw
    BY <1>3 DEF Upsert
  <2>2. \A j \in Ingesters : tx'[j].fact = tx[j].fact
    BY <1>3, UpsertValues
  <2>3. CASE k = i
    <3>1. tx[i].read # None /\ tx[i].read \in tx[i].todo
      BY <1>3 DEF Upsert, Held
    <3>2. tx[i].fact # None
      BY <3>1 DEF Held
    <3>3. /\ tx'[k].todo = tx[k].todo \ {tx[k].read} /\ tx'[k].read = None /\ tx'[k].alone = tx[k].alone
          /\ tx'[k].written = IF tx[k].found THEN tx[k].written \cup {tx[k].read} ELSE tx[k].written
      BY <1>3, <2>3, UpsertValues
    <3>4. /\ tx[k].todo \cup tx[k].written \subseteq Affected(raw \cup {tx[k].fact}, tx[k].fact)
          /\ tx[k].found => Assigned(raw \cup {tx[k].fact}, tx[k].read)
          /\ \A a \in tx[k].written : Assigned(raw \cup {tx[k].fact}, a)
          /\ tx[k].alone => \A j \in Ingesters \ {k} : tx[j].fact = None
      BY <2>3, <3>1, <3>2 DEF Held
    <3>5. \A a \in tx'[k].written : Assigned(raw \cup {tx[k].fact}, a)
      BY <3>3, <3>4
    <3>6. tx'[k].todo \cup tx'[k].written \subseteq Affected(raw \cup {tx[k].fact}, tx[k].fact)
      <4>1. tx[k].read \in tx[k].todo
        BY <2>3, <3>1
      <4>2. tx'[k].todo \subseteq tx[k].todo /\ tx'[k].written \subseteq tx[k].todo \cup tx[k].written
        BY <3>3, <4>1
      <4>3. QED
        BY <3>4, <4>2
    <3>7. raw' = raw /\ tx'[k].fact = tx[k].fact /\ tx[k].fact # None
      BY <2>1, <2>2, <2>3, <3>2
    <3>8. tx'[k].alone => \A j \in Ingesters \ {k} : tx'[j].fact = None
      BY <2>2, <3>3, <3>4
    <3>9. QED
      BY <3>3, <3>5, <3>6, <3>7, <3>8 DEF Held
  <2>4. CASE k # i
    <3>1. tx'[k] = tx[k]
      BY <1>3, <2>4, UpsertOthers
    <3>2. QED
      BY <2>1, <2>2, <3>1, Untouched
  <2>5. QED
    BY <2>3, <2>4
<1>4. ASSUME NEW i \in Ingesters, Commit(i) \/ Abort(i) PROVE Held(k)'
  <2>1. raw \subseteq raw'
    BY <1>4 DEF Commit, Abort
  <2>2. CASE k = i
    BY <1>4, <2>2, EndValues DEF Held
  <2>3. CASE k # i
    <3>1. tx'[k] = tx[k]
      BY <1>4, <2>3, EndOthers
    <3>2. raw \cup {tx[k].fact} \subseteq raw' \cup {tx[k].fact}
      BY <2>1
    <3>3. tx[k].fact # None => Affected(raw \cup {tx[k].fact}, tx[k].fact)
                                 \subseteq Affected(raw' \cup {tx[k].fact}, tx[k].fact)
      BY <1>0, <3>2, AffectedGrows
    <3>4. \A a : Assigned(raw \cup {tx[k].fact}, a) => Assigned(raw' \cup {tx[k].fact}, a)
      BY <3>2, AssignedGrows
    <3>5. tx[k].alone /\ tx[k].fact # None => \A j \in Ingesters \ {k} : tx'[j].fact = None
      <4>1. \A j \in Ingesters \ {i} : tx'[j] = tx[j]
        BY <1>4, EndOthers
      <4>2. tx'[i].fact = None
        BY <1>4, EndOthers
      <4>3. Held(k)
        OBVIOUS
      <4>4. QED
        BY <4>1, <4>2, <4>3 DEF Held
    <3>6. Held(k)
      OBVIOUS
    <3>7. \A a \in tx[k].written : Assigned(raw' \cup {tx[k].fact}, a)
      BY <3>4, <3>6 DEF Held
    <3>8. tx[k].read # None => /\ tx[k].read \in tx[k].todo
                               /\ tx[k].found => Assigned(raw' \cup {tx[k].fact}, tx[k].read)
      BY <3>4, <3>6 DEF Held
    <3>9. tx[k].fact # None => tx[k].todo \cup tx[k].written \subseteq Affected(raw' \cup {tx[k].fact}, tx[k].fact)
      BY <3>3, <3>6 DEF Held
    <3>10. tx[k].fact = None => tx[k].todo = {} /\ tx[k].read = None /\ tx[k].written = {}
      BY <3>6 DEF Held
    <3>11. QED
      BY <3>1, <3>5, <3>7, <3>8, <3>9, <3>10 DEF Held
  <2>4. QED
    BY <2>2, <2>3
<1>5. CASE RebuildDispatchRows \/ UNCHANGED vars
  <2>1. raw' = raw /\ tx' = tx
    BY <1>5 DEF RebuildDispatchRows, vars
  <2>2. Held(k)
    OBVIOUS
  <2>3. QED
    BY <2>1, <2>2 DEF Held
<1>6. QED
  BY <1>1, <1>2, <1>3, <1>4, <1>5, NextCases

LEMMA SeesStep == TypeOK /\ Ingests /\ SeesAll /\ [Next]_vars => SeesAll'
<1> SUFFICES ASSUME TypeOK, \A i \in Ingesters : Held(i), \A i \in Ingesters : Sees(i), [Next]_vars,
                    NEW k \in Ingesters
             PROVE  Sees(k)'
  BY Each DEF SeesAll, Sees
<1>1. ASSUME NEW i \in Ingesters, NEW e \in Facts, Begin(i, e) PROVE Sees(k)'
  <2>1. raw' = raw
    BY <1>1 DEF Begin
  <2>2. CASE k = i
    <3>1. /\ tx'[k].fact = e /\ tx'[k].todo = Affected(raw' \cup {e}, e) /\ tx'[k].read = None
          /\ tx'[k].written = {}
      BY <1>1, <2>1, <2>2, BeginValues
    <3>2. QED
      BY <3>1 DEF Sees
  <2>3. CASE k # i /\ tx[k].fact = None
    <3>1. tx'[k] = tx[k]
      BY <1>1, <2>3, BeginValues
    <3>2. QED
      BY <2>3, <3>1 DEF Sees
  <2>4. CASE k # i /\ tx[k].fact # None
    <3>1. ~tx'[k].alone
      BY <1>1, <2>4, BeginOther
    <3>2. QED
      BY <3>1 DEF Sees
  <2>5. QED
    BY <2>2, <2>3, <2>4
<1>2. ASSUME NEW i \in Ingesters, NEW a \in Asgns, Refold(i, a) PROVE Sees(k)'
  <2>1. raw' = raw
    BY <1>2 DEF Refold
  <2>2. CASE k = i
    <3>1. /\ tx'[k].fact = tx[k].fact /\ tx'[k].todo = tx[k].todo /\ tx'[k].written = tx[k].written
          /\ tx'[k].alone = tx[k].alone /\ tx'[k].read = a
          /\ tx'[k].found <=> Assigned(raw \cup {tx[k].fact}, a)
          /\ tx'[k].rows[a] = Row(raw \cup {tx[k].fact}, a)
          /\ \A b \in Asgns \ {a} : tx'[k].rows[b] = tx[k].rows[b]
      BY <1>2, <2>2, RefoldValues
    <3>2. tx[k].written \subseteq Asgns
      BY DEF TypeOK
    <3>3. Sees(k) /\ (\A b \in tx[k].written : b # a => tx'[k].rows[b] = tx[k].rows[b])
      BY <3>1, <3>2
    <3>4. QED
      BY <2>1, <3>1, <3>3 DEF Sees
  <2>3. CASE k # i
    <3>1. tx'[k] = tx[k]
      BY <1>2, <2>3, RefoldOthers
    <3>2. QED
      BY <2>1, <3>1, Untouched
  <2>4. QED
    BY <2>2, <2>3
<1>3. ASSUME NEW i \in Ingesters, Upsert(i) PROVE Sees(k)'
  <2>1. raw' = raw
    BY <1>3 DEF Upsert
  <2>2. CASE k = i
    <3>1. tx[i].read # None
      BY <1>3 DEF Upsert
    <3>2. /\ tx'[k].fact = tx[k].fact /\ tx'[k].todo = tx[k].todo \ {tx[k].read} /\ tx'[k].read = None
          /\ tx'[k].written = IF tx[k].found THEN tx[k].written \cup {tx[k].read} ELSE tx[k].written
          /\ tx'[k].rows = tx[k].rows /\ tx'[k].alone = tx[k].alone
      BY <1>3, <2>2, UpsertValues
    <3> DEFINE S == raw \cup {tx[k].fact}
    <3>3. ASSUME tx[k].fact # None, tx[k].alone
          PROVE  /\ tx[k].found <=> Assigned(S, tx[k].read)
                 /\ tx[k].rows[tx[k].read] = Row(S, tx[k].read)
                 /\ \A a \in tx[k].written : tx[k].rows[a] = Row(S, a)
                 /\ \A a \in Affected(S, tx[k].fact) : a \in tx[k].todo \cup tx[k].written \/ ~Assigned(S, a)
      BY <2>2, <3>1, <3>3 DEF Sees
    <3>4. raw' \cup {tx'[k].fact} = S
      BY <2>1, <3>2
    <3> HIDE DEF S
    <3>5. ASSUME tx[k].fact # None, tx[k].alone
          PROVE  /\ \A a \in tx'[k].written : tx'[k].rows[a] = Row(S, a)
                 /\ \A a \in Affected(S, tx'[k].fact) : a \in tx'[k].todo \cup tx'[k].written \/ ~Assigned(S, a)
      BY <3>2, <3>3, <3>5
    <3>6. QED
      BY <3>2, <3>4, <3>5 DEF Sees
  <2>3. CASE k # i
    <3>1. tx'[k] = tx[k]
      BY <1>3, <2>3, UpsertOthers
    <3>2. QED
      BY <2>1, <3>1, Untouched
  <2>4. QED
    BY <2>2, <2>3
<1>4. ASSUME NEW i \in Ingesters, Commit(i) \/ Abort(i) PROVE Sees(k)'
  <2>1. tx[i].fact # None
    BY <1>4 DEF Commit, Abort, Busy
  <2>2. CASE k = i
    <3>1. tx'[k].fact = None
      BY <1>4, <2>2, EndValues
    <3>2. QED
      BY <3>1 DEF Sees
  <2>3. CASE k # i
    <3>1. ~(tx[k].alone /\ tx[k].fact # None)
      BY <2>1, <2>3 DEF Held
    <3>2. QED
      BY <1>4, <2>3, <3>1, EndValues DEF Sees
  <2>4. QED
    BY <2>2, <2>3
<1>5. CASE RebuildDispatchRows \/ UNCHANGED vars
  <2>1. raw' = raw /\ tx' = tx
    BY <1>5 DEF RebuildDispatchRows, vars
  <2>2. Sees(k)
    OBVIOUS
  <2>3. QED
    BY <2>1, <2>2 DEF Sees
<1>6. QED
  BY <1>1, <1>2, <1>3, <1>4, <1>5, NextCases

-----------------------------------------------------------------------------
(* The rows.                                                               *)

(* What a commit does to the log and to a row.                             *)
LEMMA CommitRow ==
  ASSUME TypeOK, Ingests, SeesAll, RowsAreAssigned, NEW i \in Ingesters, Commit(i), NEW a \in Asgns
  PROVE  LET t == tx[i]  S == raw \cup {t.fact} IN
         /\ raw' = S /\ t.fact \in Facts
         /\ rows'[a] # None => Assigned(S, a)
         /\ a \notin Affected(S, t.fact) => rows'[a] = rows[a]
         /\ a \notin stale' => a \notin stale \/ a \in Affected(S, t.fact)
         /\ a \in Affected(S, t.fact) => a \in stale' \/ rows'[a] = Row(S, a)
<1> DEFINE t == tx[i]
           S == raw \cup {t.fact}
<1>1. /\ raw' = S /\ t.fact \in Facts /\ t.todo = {}
      /\ rows'[a] = IF a \in t.written THEN t.rows[a] ELSE rows[a]
      /\ stale' = IF t.alone THEN stale \ Affected(S, t.fact) ELSE stale \cup Affected(S, t.fact)
  BY EndValues DEF Commit
<1>2. Held(i) /\ Sees(i) /\ t.fact # None
  BY <1>1, Each, FactFields
<1>3. t.written \subseteq Affected(S, t.fact) /\ \A b \in t.written : Assigned(S, b)
  BY <1>2 DEF Held
<1>4. rows[a] # None => Assigned(S, a)
  <2>1. rows[a] # None => Assigned(raw, a)
    BY DEF RowsAreAssigned
  <2>2. QED
    BY <2>1, AssignedGrows
<1>5. ASSUME a \in Affected(S, t.fact), a \notin stale' PROVE rows'[a] = Row(S, a)
  <2>1. t.alone
    BY <1>1, <1>5
  <2>2. /\ \A b \in t.written : t.rows[b] = Row(S, b)
        /\ a \in t.written \/ ~Assigned(S, a)
    BY <1>1, <1>2, <1>5, <2>1 DEF Sees
  <2>3. ~Assigned(S, a) => a \notin t.written /\ rows[a] = None
    BY <1>3, <1>4
  <2>4. QED
    BY <1>1, <2>2, <2>3 DEF Row
<1>6. QED
  BY <1>1, <1>3, <1>4, <1>5

LEMMA AssignedStep ==
  TypeOK /\ Ingests /\ SeesAll /\ RowsAreAssigned /\ [Next]_vars => RowsAreAssigned'
<1> SUFFICES ASSUME TypeOK, Ingests, SeesAll, RowsAreAssigned, [Next]_vars, NEW a \in Asgns, rows'[a] # None
             PROVE  Assigned(raw', a)
  BY DEF RowsAreAssigned, Assigned
<1>1. CASE UNCHANGED <<raw, rows>>
  BY <1>1 DEF RowsAreAssigned
<1>2. ASSUME NEW i \in Ingesters, Commit(i) PROVE Assigned(raw', a)
  BY <1>2, CommitRow
<1>3. CASE RebuildDispatchRows
  BY <1>3 DEF RebuildDispatchRows, Row
<1>4. QED
  BY <1>1, <1>2, <1>3, NextCases DEF Begin, Refold, Upsert, Abort, vars

LEMMA OnlineStep ==
  TypeOK /\ Ingests /\ SeesAll /\ RowsAreAssigned /\ OnlineIsRebuild /\ [Next]_vars => OnlineIsRebuild'
<1> SUFFICES ASSUME TypeOK, Ingests, SeesAll, RowsAreAssigned, OnlineIsRebuild, [Next]_vars,
                    NEW a \in Asgns \ stale', ~Mixed(a)
             PROVE  rows'[a] = Row(raw', a)
  BY DEF OnlineIsRebuild, Mixed
<1>1. CASE UNCHANGED <<raw, rows, stale>>
  BY <1>1 DEF OnlineIsRebuild
<1>2. ASSUME NEW i \in Ingesters, Commit(i) PROVE rows'[a] = Row(raw', a)
  <2> DEFINE S == raw \cup {tx[i].fact}
  <2>1. CASE a \in Affected(S, tx[i].fact)
    BY <1>2, <2>1, CommitRow
  <2>2. CASE a \notin Affected(S, tx[i].fact)
    <3>1. raw' = S /\ tx[i].fact \in Facts /\ rows'[a] = rows[a] /\ a \notin stale
      BY <1>2, <2>2, CommitRow
    <3>2. rows[a] = Row(raw, a)
      BY <3>1 DEF OnlineIsRebuild
    <3>3. Row(S, a) = Row(raw, a)
      BY <2>2, <3>1, Unaffected DEF TypeOK
    <3>4. QED
      BY <3>1, <3>2, <3>3
  <2>3. QED
    BY <2>1, <2>2
<1>3. CASE RebuildDispatchRows
  BY <1>3 DEF RebuildDispatchRows
<1>4. QED
  BY <1>1, <1>2, <1>3, NextCases DEF Begin, Refold, Upsert, Abort, vars

-----------------------------------------------------------------------------
(* The reducer, column by column.                                          *)

(* The effect of a fact on the columns of a row, topic by topic.           *)
Effect(p, e, t) ==
    /\ t \in DispatchRowState
    /\ t.id = IF e.topic = "ASSIGNMENT" THEN e.asgn ELSE p.id
    /\ t.group = IF e.topic = "ASSIGNMENT" THEN Group[e.asgn] ELSE p.group
    /\ LET own == e.topic = "SHIPMENT" /\ (~e.collateral \/ p.group = "COLLATERAL") IN
       /\ t.courier = IF own THEN e.status ELSE p.courier
       /\ t.pipeline = "DELIVERED" <=> p.pipeline = "DELIVERED" \/ (own /\ e.status = "DELIVERED")
       /\ t.delivered = IF own /\ e.status = "DELIVERED" THEN e.at ELSE p.delivered
    /\ t.live = IF e.topic = "ACTIVATED" THEN TRUE ELSE IF e.topic = "DEACTIVATED" THEN FALSE ELSE p.live
    /\ t.replacedBy = IF e.topic \in Paired /\ e.replaced = p.id
                        THEN IF e.topic = "REPLACEMENT" THEN e.asgn ELSE None
                        ELSE p.replacedBy

LEMMA DeliveredIsLast ==
  /\ PIPELINE_RANK["DELIVERED"] = 5
  /\ \A p \in PipelineStates : PIPELINE_RANK[p] \in 0..5 /\ (p # "DELIVERED" => PIPELINE_RANK[p] < 5)
<1>1. PIPELINE_RANK[""] = 0
  BY DEF PIPELINE_RANK, PipelineStates
<1>2. PIPELINE_RANK["RECEIVED"] = 1
  BY DEF PIPELINE_RANK, PipelineStates
<1>3. PIPELINE_RANK["BATCHED"] = 2
  BY DEF PIPELINE_RANK, PipelineStates
<1>4. PIPELINE_RANK["SENT_TO_VENDOR"] = 3
  BY DEF PIPELINE_RANK, PipelineStates
<1>5. PIPELINE_RANK["DISPATCHED"] = 4
  BY DEF PIPELINE_RANK, PipelineStates
<1>6. PIPELINE_RANK["DELIVERED"] = 5
  BY DEF PIPELINE_RANK, PipelineStates
<1>7. ASSUME NEW p \in PipelineStates
      PROVE  PIPELINE_RANK[p] \in 0..5 /\ (p # "DELIVERED" => PIPELINE_RANK[p] < 5)
  <2>1. \/ p = "" \/ p = "RECEIVED" \/ p = "BATCHED" \/ p = "SENT_TO_VENDOR" \/ p = "DISPATCHED"
        \/ p = "DELIVERED"
    BY DEF PipelineStates
  <2>2. PIPELINE_RANK[p] \in {0, 1, 2, 3, 4, 5} /\ (p # "DELIVERED" => PIPELINE_RANK[p] \in {0, 1, 2, 3, 4})
    BY <1>1, <1>2, <1>3, <1>4, <1>5, <1>6, <2>1, Zenon
  <2>3. QED
    BY <2>2
<1>8. QED
  BY <1>6, <1>7

LEMMA Reached ==
  ASSUME NEW p \in DispatchRowState, NEW stage \in PipelineStates
  PROVE  /\ Reach(p, stage) \in DispatchRowState
         /\ Reach(p, stage).pipeline = "DELIVERED" <=> p.pipeline = "DELIVERED" \/ stage = "DELIVERED"
         /\ Reach(p, stage).id = p.id /\ Reach(p, stage).group = p.group
         /\ Reach(p, stage).courier = p.courier /\ Reach(p, stage).delivered = p.delivered
         /\ Reach(p, stage).live = p.live /\ Reach(p, stage).replacedBy = p.replacedBy
<1>1. p.pipeline \in PipelineStates
  BY DEF DispatchRowState
<1>2. PIPELINE_RANK[stage] > PIPELINE_RANK[p.pipeline] => p.pipeline # "DELIVERED"
  BY <1>1, DeliveredIsLast
<1>3. ~(PIPELINE_RANK[stage] > PIPELINE_RANK[p.pipeline]) /\ stage = "DELIVERED" => p.pipeline = "DELIVERED"
  BY <1>1, DeliveredIsLast
<1>4. CASE PIPELINE_RANK[stage] > PIPELINE_RANK[p.pipeline]
  BY <1>2, <1>4 DEF Reach, DispatchRowState
<1>5. CASE ~(PIPELINE_RANK[stage] > PIPELINE_RANK[p.pipeline])
  BY <1>3, <1>5 DEF Reach
<1>6. QED
  BY <1>4, <1>5

LEMMA ShipmentEffect ==
  ASSUME NEW p \in DispatchRowState, NEW e \in Facts, e.topic = "SHIPMENT"
  PROVE  Effect(p, e, FoldShipment(p, e))
<1>1. e.shpt \in Shpts \cup {None} /\ e.status \in Statuses \cup {None} /\ e.at \in 0..Last
  BY FactFields
<1>2. CASE e.collateral /\ p.group # "COLLATERAL"
  <2>1. FoldShipment(p, e) = [p EXCEPT !.collateralParcel = e.shpt]
    BY <1>2 DEF FoldShipment
  <2>2. QED
    BY <1>1, <1>2, <2>1 DEF Effect, DispatchRowState, Paired
<1>3. CASE ~(e.collateral /\ p.group # "COLLATERAL")
  <2> DEFINE own == IF e.collateral THEN [p EXCEPT !.parcel = e.shpt] ELSE p
             moved == [own EXCEPT !.courier = e.status]
             dated == [moved EXCEPT !.delivered = e.at]
  <2>1. /\ own \in DispatchRowState
        /\ own.id = p.id /\ own.group = p.group /\ own.pipeline = p.pipeline
        /\ own.delivered = p.delivered /\ own.live = p.live /\ own.replacedBy = p.replacedBy
    BY <1>1 DEF DispatchRowState
  <2> HIDE DEF own
  <2>2. /\ moved \in DispatchRowState /\ moved.courier = e.status
        /\ moved.id = p.id /\ moved.group = p.group /\ moved.pipeline = p.pipeline
        /\ moved.delivered = p.delivered /\ moved.live = p.live /\ moved.replacedBy = p.replacedBy
    BY <1>1, <2>1 DEF DispatchRowState
  <2> HIDE DEF moved
  <2>3. /\ dated \in DispatchRowState /\ dated.courier = e.status /\ dated.delivered = e.at
        /\ dated.id = p.id /\ dated.group = p.group /\ dated.pipeline = p.pipeline
        /\ dated.live = p.live /\ dated.replacedBy = p.replacedBy
    BY <1>1, <2>2 DEF DispatchRowState
  <2> HIDE DEF dated
  <2>4. FoldShipment(p, e) = CASE e.status = "DISPATCHED_BY_VENDOR" -> Reach(moved, "DISPATCHED")
                               [] e.status = "DELIVERED" -> Reach(dated, "DELIVERED")
                               [] OTHER -> moved
    BY <1>3 DEF FoldShipment, CourierMoved, own, moved, dated
  <2>5. CASE e.status = "DISPATCHED_BY_VENDOR"
    <3>1. FoldShipment(p, e) = Reach(moved, "DISPATCHED")
      BY <2>4, <2>5
    <3>2. "DISPATCHED" \in PipelineStates
      BY DEF PipelineStates
    <3>3. QED
      BY <1>3, <2>2, <2>5, <3>1, <3>2, Reached DEF Effect, Paired
  <2>6. CASE e.status = "DELIVERED"
    <3>1. FoldShipment(p, e) = Reach(dated, "DELIVERED")
      BY <2>4, <2>6
    <3>2. "DELIVERED" \in PipelineStates
      BY DEF PipelineStates
    <3>3. QED
      BY <1>3, <2>3, <2>6, <3>1, <3>2, Reached DEF Effect, Paired
  <2>7. CASE e.status \notin {"DISPATCHED_BY_VENDOR", "DELIVERED"}
    <3>1. FoldShipment(p, e) = moved
      BY <2>4, <2>7
    <3>2. QED
      BY <1>3, <2>2, <2>7, <3>1 DEF Effect, Paired
  <2>8. QED
    BY <2>5, <2>6, <2>7
<1>4. QED
  BY <1>2, <1>3

LEMMA ReplacementEffect ==
  ASSUME NEW p \in DispatchRowState, NEW e \in Facts, e.topic \in Paired
  PROVE  Effect(p, e, FoldReplacement(p, e))
<1>1. e.asgn \in Asgns \cup {None} /\ e.replaced \in Asgns \cup {None}
  BY FactFields
<1> DEFINE child == IF e.asgn = p.id /\ e.topic = "REPLACEMENT" THEN [p EXCEPT !.original = e.replaced] ELSE p
           by == IF e.topic = "REPLACEMENT" THEN e.asgn ELSE None
<1>2. /\ child \in DispatchRowState
      /\ child.id = p.id /\ child.group = p.group /\ child.courier = p.courier
      /\ child.pipeline = p.pipeline /\ child.delivered = p.delivered /\ child.live = p.live
      /\ child.replacedBy = p.replacedBy
  BY <1>1 DEF DispatchRowState
<1>3. by \in Asgns \cup {None}
  BY <1>1
<1>4. FoldReplacement(p, e) = IF e.replaced # p.id THEN child ELSE [child EXCEPT !.replacedBy = by]
  BY DEF FoldReplacement
<1>5. e.topic \notin {"ASSIGNMENT", "SHIPMENT", "ACTIVATED", "DEACTIVATED"}
  BY DEF Paired
<1> HIDE DEF child
<1>6. CASE e.replaced # p.id
  BY <1>2, <1>4, <1>5, <1>6 DEF Effect
<1>7. CASE e.replaced = p.id
  <2> HIDE DEF by
  <2>1. /\ [child EXCEPT !.replacedBy = by] \in DispatchRowState
        /\ [child EXCEPT !.replacedBy = by].replacedBy = by
        /\ [child EXCEPT !.replacedBy = by].id = p.id /\ [child EXCEPT !.replacedBy = by].group = p.group
        /\ [child EXCEPT !.replacedBy = by].courier = p.courier
        /\ [child EXCEPT !.replacedBy = by].pipeline = p.pipeline
        /\ [child EXCEPT !.replacedBy = by].delivered = p.delivered
        /\ [child EXCEPT !.replacedBy = by].live = p.live
    BY <1>2, <1>3 DEF DispatchRowState
  <2>2. QED
    BY <1>4, <1>5, <1>7, <2>1 DEF Effect, by
<1>8. QED
  BY <1>6, <1>7

LEMMA FactEffect ==
  ASSUME NEW p \in DispatchRowState, NEW e \in Facts
  PROVE  Effect(p, e, ApplyFact(p, e))
<1> DEFINE named == [p EXCEPT !.id = e.asgn, !.group = Group[e.asgn]]
<1>1. e.topic \in Topics /\ p # None
  BY FactFields, ProvenanceAssumption
<1>2. e.asgn \in Asgns \cup {None} /\ e.shpt \in Shpts \cup {None} /\ (e.topic \in Keyed => e.asgn \in Asgns)
  BY FactFields
<1>3. CASE e.topic = "ASSIGNMENT"
  <2>1. ApplyFact(p, e) = Reach(named, "RECEIVED") /\ e.asgn \in Asgns
    BY <1>1, <1>2, <1>3 DEF ApplyFact, Keyed, Paired
  <2>2. /\ named \in DispatchRowState /\ named.id = e.asgn /\ named.group = Group[e.asgn]
        /\ named.courier = p.courier /\ named.pipeline = p.pipeline /\ named.delivered = p.delivered
        /\ named.live = p.live /\ named.replacedBy = p.replacedBy
    BY <2>1 DEF DispatchRowState
  <2> HIDE DEF named
  <2>3. "RECEIVED" \in PipelineStates
    BY DEF PipelineStates
  <2>4. QED
    BY <1>3, <2>1, <2>2, <2>3, Reached DEF Effect, Paired
<1>4. CASE e.topic \in {"ACTIVATED", "DEACTIVATED"}
  <2>1. CASE e.topic = "ACTIVATED"
    <3>1. ApplyFact(p, e) = [p EXCEPT !.live = TRUE]
      BY <1>1, <2>1 DEF ApplyFact, Paired
    <3>2. QED
      BY <2>1, <3>1 DEF Effect, Paired, DispatchRowState
  <2>2. CASE e.topic = "DEACTIVATED"
    <3>1. ApplyFact(p, e) = [p EXCEPT !.live = FALSE]
      BY <1>1, <2>2 DEF ApplyFact, Paired
    <3>2. QED
      BY <2>2, <3>1 DEF Effect, Paired, DispatchRowState
  <2>3. QED
    BY <1>4, <2>1, <2>2
<1>5. CASE e.topic \in Paired
  <2>1. ApplyFact(p, e) = FoldReplacement(p, e)
    BY <1>1, <1>5 DEF ApplyFact, Paired
  <2>2. QED
    BY <1>5, <2>1, ReplacementEffect
<1>6. CASE e.topic = "PRINT_FOR"
  <2>1. ApplyFact(p, e) = [p EXCEPT !.parcel = e.shpt]
    BY <1>1, <1>6 DEF ApplyFact, Paired
  <2>2. /\ ApplyFact(p, e) \in DispatchRowState
        /\ ApplyFact(p, e).id = p.id /\ ApplyFact(p, e).group = p.group
        /\ ApplyFact(p, e).courier = p.courier /\ ApplyFact(p, e).pipeline = p.pipeline
        /\ ApplyFact(p, e).delivered = p.delivered /\ ApplyFact(p, e).live = p.live
        /\ ApplyFact(p, e).replacedBy = p.replacedBy
    BY <1>2, <2>1 DEF DispatchRowState
  <2>3. QED
    BY <1>6, <2>2 DEF Effect, Paired
<1>7. CASE e.topic = "BATCH"
  <2>1. ApplyFact(p, e) = Reach(p, "BATCHED") /\ "BATCHED" \in PipelineStates
    BY <1>1, <1>7 DEF ApplyFact, Paired, PipelineStates
  <2>2. QED
    BY <1>7, <2>1, Reached DEF Effect, Paired
<1>8. CASE e.topic = "DISPATCH"
  <2>1. ApplyFact(p, e) = IF e.status \in DOMAIN Stage THEN Reach(p, Stage[e.status]) ELSE p
    BY <1>1, <1>8 DEF ApplyFact, Paired
  <2>2. e.status \in DOMAIN Stage => Stage[e.status] \in PipelineStates \ {"DELIVERED"}
    BY DEF Stage, PipelineStates
  <2>3. QED
    BY <1>8, <2>1, <2>2, Reached DEF Effect, Paired
<1>9. CASE e.topic = "SHIPMENT"
  <2>1. ApplyFact(p, e) = FoldShipment(p, e)
    BY <1>1, <1>9 DEF ApplyFact, Paired
  <2>2. QED
    BY <1>9, <2>1, ShipmentEffect
<1>10. QED
  BY <1>1, <1>3, <1>4, <1>5, <1>6, <1>7, <1>8, <1>9 DEF Topics, Keyed, Listed

-----------------------------------------------------------------------------
(* The columns of a row that has folded the facts up to a place in time.   *)

Until(X, n) == {e \in X : e.at <= n}
Named(S, a, n) == \E e \in S : e.topic = "ASSIGNMENT" /\ e.asgn = a /\ e.at <= n
Shows(s, C, X, M) == ToldByCourier(s, C) /\ DeliveredAsTold(s, C) /\ Withdrawable(s, X, M)
Folded(s, S, a, n) ==
    /\ s \in DispatchRowState
    /\ Shows(s, Until(CourierFacts(S, a), n), Until(Axis(S, a), n), Until(Marks(S, a), n))
    /\ IF Named(S, a, n) THEN s.id = a /\ s.group = Group[a] ELSE s.id \in {a, None} /\ s.group = None
State(s, S, a, n) ==
    IF s = None THEN \A e \in Relevant(S, a) : e.at > n ELSE Folded(s, S, a, n)

LEMMA LatestIsNew ==
  ASSUME NEW Q \in SUBSET Facts, NEW e \in Facts, \A f \in Q : f.at < e.at
  PROVE  LatestOf(Q \cup {e}) = e
<1>1. e.at \in Nat /\ \A f \in Q : f.at \in Nat
  BY FactFields
<1>2. \A f \in Q \cup {e} : f.at <= e.at
  BY <1>1
<1>3. \A g \in Q \cup {e} : (\A f \in Q \cup {e} : f.at <= g.at) => g = e
  BY <1>1
<1>4. QED
  BY <1>2, <1>3 DEF LatestOf

(* At one place in time there is one fact, so a set of facts grows by it or*)
(* not at all.                                                             *)
LEMMA Grown ==
  ASSUME NEW X \in SUBSET Facts, NEW e \in Facts, e.at \in 1..Last
  PROVE  /\ e \notin X => Until(X, e.at) = Until(X, e.at - 1)
         /\ e \in X => Until(X, e.at) = Until(X, e.at - 1) \cup {e} /\ LatestOf(Until(X, e.at)) = e
<1>1. \A f \in X : f.at \in Nat /\ (f.at = e.at => f = e)
  BY FactFields
<1>2. \A f \in X : f # e => (f.at <= e.at <=> f.at <= e.at - 1)
  BY <1>1
<1>3. e \notin X => Until(X, e.at) = Until(X, e.at - 1)
  BY <1>2 DEF Until
<1>4. e \in X => Until(X, e.at) = Until(X, e.at - 1) \cup {e}
  BY <1>2 DEF Until
<1>5. \A f \in Until(X, e.at - 1) : f.at < e.at
  BY <1>1 DEF Until
<1>6. Until(X, e.at - 1) \in SUBSET Facts
  BY DEF Until
<1>7. LatestOf(Until(X, e.at - 1) \cup {e}) = e
  BY <1>5, <1>6, LatestIsNew
<1>8. QED
  BY <1>3, <1>4, <1>7

LEMMA NoneGrown ==
  ASSUME NEW X \in SUBSET Facts, NEW n \in 1..Last, \A f \in X : f.at # n
  PROVE  Until(X, n) = Until(X, n - 1)
<1>1. \A f \in X : f.at \in Nat
  BY FactFields
<1>2. QED
  BY <1>1 DEF Until

LEMMA AllRelevant ==
  ASSUME NEW S, NEW a \in Asgns
  PROVE  /\ CourierFacts(S, a) \subseteq Relevant(S, a) /\ Axis(S, a) \subseteq Relevant(S, a)
         /\ Marks(S, a) \subseteq Relevant(S, a) /\ Relevant(S, a) \subseteq S
         /\ \A e \in S : e.topic = "ASSIGNMENT" /\ e.asgn = a => e \in Relevant(S, a)
<1>1. CourierFacts(S, a) \subseteq Relevant(S, a)
  BY DEF CourierFacts, Relevant
<1>2. Axis(S, a) \subseteq Relevant(S, a)
  BY DEF Axis, Relevant, Keyed
<1>3. Marks(S, a) \subseteq Relevant(S, a)
  BY DEF Marks, Relevant
<1>4. QED
  BY <1>1, <1>2, <1>3 DEF Relevant, Keyed

(* The first fact about a dispatch starts from an empty row.               *)
LEMMA FreshFolded ==
  ASSUME NEW S \in SUBSET Facts, NEW a \in Asgns, Assigned(S, a),
         NEW e \in Relevant(S, a), \A f \in Relevant(S, a) : f.at > e.at - 1
  PROVE  Folded(Fresh(e), S, a, e.at - 1)
<1> DEFINE n == e.at - 1
           s == Fresh(e)
<1>0. e \in Facts /\ n \in Nat /\ \A f \in Relevant(S, a) : f \in Facts /\ ~(f.at <= n)
  <2>1. \A f \in Relevant(S, a) : f \in Facts
    BY AllRelevant
  <2>2. \A f \in Relevant(S, a) : f.at \in Nat /\ f.at >= 1
    BY <2>1, FactFields
  <2>3. QED
    BY <2>1, <2>2
<1>1. Until(CourierFacts(S, a), n) = {} /\ Until(Axis(S, a), n) = {} /\ Until(Marks(S, a), n) = {}
  BY <1>0, AllRelevant DEF Until
<1>2. ~Named(S, a, n)
  BY <1>0, AllRelevant DEF Named
<1>3. e.asgn \in {a, None}
  <2>1. CASE e.topic \in Paired /\ e.asgn # a
    <3>1. e.replaced = a
      BY <2>1 DEF Relevant, Keyed, Paired, Listed
    <3>2. PICK g \in S : g.topic = "ASSIGNMENT" /\ g.asgn = a
      BY DEF Assigned
    <3>3. g.at < e.at
      BY <1>0, <2>1, <3>1, <3>2, ProvenanceAssumption
    <3>4. g \in Relevant(S, a) /\ g.at \in Nat /\ e.at \in Nat
      BY <1>0, <3>2, AllRelevant, FactFields
    <3>5. QED
      BY <1>0, <3>3, <3>4
  <2>2. CASE e.topic \in Listed \cup {"SHIPMENT"}
    BY <1>0, <2>2, ProvenanceAssumption
  <2>3. CASE e.topic \in Keyed
    BY <2>3 DEF Relevant, Keyed, Paired, Listed
  <2>4. QED
    BY <1>0, <2>1, <2>2, <2>3, FactFields DEF Topics
<1>4. /\ s \in DispatchRowState /\ s.id \in {a, None} /\ s.group = None /\ s.courier = None
      /\ s.pipeline # "DELIVERED" /\ s.delivered = 0 /\ s.live = FALSE /\ s.replacedBy = None
  <2>1. /\ s.id = e.asgn /\ s.group = None /\ s.courier = None /\ s.pipeline = ""
        /\ s.delivered = 0 /\ s.live = FALSE /\ s.replacedBy = None
    BY DEF Fresh
  <2>2. e.asgn \in Asgns \cup {None} /\ "" \in PipelineStates /\ 0 \in 0..Last /\ FALSE \in BOOLEAN
    BY <1>3 DEF PipelineStates
  <2>3. s \in DispatchRowState
    BY <2>2 DEF Fresh, DispatchRowState
  <2>4. QED
    BY <1>3, <2>1, <2>3
<1> HIDE DEF s
<1>5. Shows(s, {}, {}, {})
  BY <1>4 DEF Shows, ToldByCourier, DeliveredAsTold, Withdrawable
<1>6. QED
  BY <1>1, <1>2, <1>4, <1>5 DEF Folded, s, n

(* Which facts move the courier's columns, and which the replacement's.    *)
LEMMA OwnFacts ==
  ASSUME NEW S \in SUBSET Facts, NEW a \in Asgns, Assigned(S, a),
         NEW e \in Relevant(S, a), NEW p, Folded(p, S, a, e.at - 1)
  PROVE  /\ e \in CourierFacts(S, a) <=>
              e.topic = "SHIPMENT" /\ (~e.collateral \/ p.group = "COLLATERAL")
         /\ e \in Marks(S, a) <=> e.topic \in Paired /\ e.replaced = p.id
<1>0. e \in Facts /\ e \in S
  BY AllRelevant
<1>1. PICK g \in S : g.topic = "ASSIGNMENT" /\ g.asgn = a
  BY DEF Assigned
<1>2. ASSUME g.at < e.at PROVE p.id = a /\ p.group = Group[a]
  <2>1. g.at \in Nat /\ e.at \in Nat
    BY <1>0, FactFields
  <2>2. Named(S, a, e.at - 1)
    BY <1>1, <1>2, <2>1 DEF Named
  <2>3. QED
    BY <2>2 DEF Folded
<1>3. p.group = "COLLATERAL" => Group[a] = "COLLATERAL"
  BY ProvenanceAssumption DEF Folded
<1>4. p.id \in {a, None}
  BY DEF Folded
<1>5. ASSUME e \in CourierFacts(S, a)
      PROVE  e.topic = "SHIPMENT" /\ (~e.collateral \/ p.group = "COLLATERAL")
  <2>1. CASE e.collateral
    <3>1. e.topic = "SHIPMENT" /\ a \in e.asgns /\ Group[a] = "COLLATERAL"
      BY <1>5, <2>1 DEF CourierFacts
    <3>2. g.at < e.at
      BY <1>0, <1>1, <3>1, ProvenanceAssumption
    <3>3. QED
      BY <1>2, <3>1, <3>2
  <2>2. CASE ~e.collateral
    BY <1>5, <2>2 DEF CourierFacts
  <2>3. QED
    BY <2>1, <2>2
<1>6. ASSUME e.topic = "SHIPMENT", ~e.collateral PROVE e \in CourierFacts(S, a)
  <2>1. e.asgns = {}
    BY <1>0, <1>6
  <2>2. e.shpt \in ParcelsOf(S, a)
    BY <1>6, <2>1 DEF Relevant, Keyed, Paired, Listed
  <2>3. QED
    BY <1>0, <1>6, <2>2 DEF CourierFacts
<1>7. ASSUME e.topic = "SHIPMENT", e.collateral, p.group = "COLLATERAL" PROVE e \in CourierFacts(S, a)
  <2>1. \A f \in S : ~(f.topic = "PRINT_FOR" /\ f.asgn = a)
    BY <1>3, <1>7, ProvenanceAssumption
  <2>2. ParcelsOf(S, a) = {}
    BY <2>1 DEF ParcelsOf
  <2>3. a \in e.asgns
    BY <1>7, <2>2 DEF Relevant, Keyed, Paired, Listed
  <2>4. QED
    BY <1>0, <1>3, <1>7, <2>3 DEF CourierFacts
<1>8. ASSUME e \in Marks(S, a) PROVE e.topic \in Paired /\ e.replaced = p.id
  <2>1. e.topic \in Paired /\ e.replaced = a
    BY <1>8 DEF Marks
  <2>2. g.at < e.at
    BY <1>0, <1>1, <2>1, ProvenanceAssumption
  <2>3. QED
    BY <1>2, <2>1, <2>2
<1>9. ASSUME e.topic \in Paired, e.replaced = p.id PROVE e \in Marks(S, a)
  <2>1. e.replaced \in Asgns
    BY <1>0, <1>9, ProvenanceAssumption
  <2>2. e.replaced = a
    BY <1>4, <1>9, <2>1
  <2>3. QED
    BY <1>0, <1>9, <2>2 DEF Marks
<1>10. QED
  BY <1>5, <1>6, <1>7, <1>8, <1>9

LEMMA CourierStep ==
  ASSUME NEW S \in SUBSET Facts, NEW a \in Asgns, NEW e \in Relevant(S, a), NEW p, NEW t, Effect(p, e, t),
         p \in DispatchRowState,
         e \in CourierFacts(S, a) <=> e.topic = "SHIPMENT" /\ (~e.collateral \/ p.group = "COLLATERAL"),
         ToldByCourier(p, Until(CourierFacts(S, a), e.at - 1)),
         DeliveredAsTold(p, Until(CourierFacts(S, a), e.at - 1))
  PROVE  /\ ToldByCourier(t, Until(CourierFacts(S, a), e.at))
         /\ DeliveredAsTold(t, Until(CourierFacts(S, a), e.at))
<1> DEFINE C == CourierFacts(S, a)
           B == Until(C, e.at - 1)
           D == Until(C, e.at)
<1>1. e \in Facts /\ C \in SUBSET Facts /\ e.at \in 1..Last
  BY AllRelevant, FactFields
<1>2. CASE e \in C
  <2>1. D = B \cup {e} /\ LatestOf(D) = e
    BY <1>1, <1>2, Grown
  <2>2. /\ t.courier = e.status
        /\ t.pipeline = "DELIVERED" <=> p.pipeline = "DELIVERED" \/ e.status = "DELIVERED"
        /\ t.delivered = IF e.status = "DELIVERED" THEN e.at ELSE p.delivered
    BY <1>2 DEF Effect
  <2> HIDE DEF B, C, D
  <2>3. ToldByCourier(t, D)
    BY <2>1, <2>2 DEF ToldByCourier
  <2>4. DeliveredAsTold(p, B)
    BY DEF B, C
  <2>5. (\E f \in D : f.status = "DELIVERED") <=> (\E f \in B : f.status = "DELIVERED") \/ e.status = "DELIVERED"
    BY <2>1
  <2>6. e.at # 0
    BY <1>1
  <2>7. DeliveredAsTold(t, D)
    BY <2>2, <2>4, <2>5, <2>6 DEF DeliveredAsTold
  <2>8. QED
    BY <2>3, <2>7 DEF C, D
<1>3. CASE e \notin C
  <2>1. D = B
    BY <1>1, <1>3, Grown
  <2>2. /\ t.courier = p.courier /\ t.delivered = p.delivered
        /\ t.pipeline = "DELIVERED" <=> p.pipeline = "DELIVERED"
    BY <1>3 DEF Effect
  <2>3. QED
    BY <2>1, <2>2 DEF ToldByCourier, DeliveredAsTold
<1>4. QED
  BY <1>2, <1>3

LEMMA WithdrawalStep ==
  ASSUME NEW S \in SUBSET Facts, NEW a \in Asgns, NEW e \in Relevant(S, a), NEW p, NEW t, Effect(p, e, t),
         p \in DispatchRowState,
         e \in Marks(S, a) <=> e.topic \in Paired /\ e.replaced = p.id,
         Withdrawable(p, Until(Axis(S, a), e.at - 1), Until(Marks(S, a), e.at - 1))
  PROVE  Withdrawable(t, Until(Axis(S, a), e.at), Until(Marks(S, a), e.at))
<1> DEFINE X == Axis(S, a)
           M == Marks(S, a)
<1>1. e \in Facts /\ e \in S /\ X \in SUBSET Facts /\ M \in SUBSET Facts /\ e.at \in 1..Last
  BY AllRelevant, FactFields
<1>2. t.live <=> Until(X, e.at) # {} /\ LatestOf(Until(X, e.at)).topic = "ACTIVATED"
  <2>1. CASE e \in X
    <3>1. Until(X, e.at) # {} /\ LatestOf(Until(X, e.at)) = e
      <4>1. Until(X, e.at) = Until(X, e.at - 1) \cup {e} /\ LatestOf(Until(X, e.at)) = e
        BY <1>1, <2>1, Grown
      <4>2. QED
        BY <4>1
    <3>2. e.topic \in {"ACTIVATED", "DEACTIVATED"}
      BY <2>1 DEF Axis
    <3>3. t.live <=> e.topic = "ACTIVATED"
      BY <3>2 DEF Effect
    <3>4. QED
      BY <3>1, <3>3
  <2>2. CASE e \notin X
    <3>1. Until(X, e.at) = Until(X, e.at - 1)
      BY <1>1, <2>2, Grown
    <3>2. e.topic \notin {"ACTIVATED", "DEACTIVATED"}
      BY <1>1, <2>2 DEF Axis, Relevant, Keyed, Paired, Listed
    <3>3. t.live = p.live
      BY <3>2 DEF Effect
    <3>4. QED
      BY <3>1, <3>3 DEF Withdrawable
  <2>3. QED
    BY <2>1, <2>2
<1>3. t.replacedBy # None <=> Until(M, e.at) # {} /\ LatestOf(Until(M, e.at)).topic = "REPLACEMENT"
  <2>1. CASE e \in M
    <3>1. Until(M, e.at) # {} /\ LatestOf(Until(M, e.at)) = e
      <4>1. Until(M, e.at) = Until(M, e.at - 1) \cup {e} /\ LatestOf(Until(M, e.at)) = e
        BY <1>1, <2>1, Grown
      <4>2. QED
        BY <4>1
    <3>2. t.replacedBy = IF e.topic = "REPLACEMENT" THEN e.asgn ELSE None
      BY <2>1 DEF Effect
    <3>3. e.asgn # None
      BY <1>1, <2>1, ProvenanceAssumption
    <3>4. QED
      BY <3>1, <3>2, <3>3
  <2>2. CASE e \notin M
    <3>1. Until(M, e.at) = Until(M, e.at - 1)
      BY <1>1, <2>2, Grown
    <3>2. t.replacedBy = p.replacedBy
      BY <2>2 DEF Effect
    <3>3. QED
      BY <3>1, <3>2 DEF Withdrawable
  <2>3. QED
    BY <2>1, <2>2
<1>4. QED
  BY <1>2, <1>3 DEF Withdrawable

LEMMA FoldedStep ==
  ASSUME NEW S \in SUBSET Facts, NEW a \in Asgns, Assigned(S, a),
         NEW e \in Relevant(S, a), NEW p, Folded(p, S, a, e.at - 1)
  PROVE  Folded(ApplyFact(p, e), S, a, e.at)
<1> DEFINE t == ApplyFact(p, e)
<1>1. e \in Facts /\ e \in S /\ e.at \in 1..Last /\ p \in DispatchRowState
  BY AllRelevant, FactFields DEF Folded
<1>2. Effect(p, e, t)
  BY <1>1, FactEffect
<1> HIDE DEF t
<1>3. Shows(t, Until(CourierFacts(S, a), e.at), Until(Axis(S, a), e.at), Until(Marks(S, a), e.at))
  BY <1>1, <1>2, OwnFacts, CourierStep, WithdrawalStep DEF Folded, Shows
<1>4. IF Named(S, a, e.at) THEN t.id = a /\ t.group = Group[a] ELSE t.id \in {a, None} /\ t.group = None
  <2>1. CASE e.topic = "ASSIGNMENT"
    <3>1. e.asgn = a
      BY <2>1 DEF Relevant, Keyed, Paired, Listed
    <3>2. Named(S, a, e.at)
      BY <1>1, <2>1, <3>1 DEF Named
    <3>3. QED
      BY <1>2, <2>1, <3>1, <3>2 DEF Effect
  <2>2. CASE e.topic # "ASSIGNMENT"
    <3>1. \A f \in S : f # e => (f.at <= e.at <=> f.at <= e.at - 1)
      <4>1. \A f \in S : f.at \in Nat /\ f.at = e.at => f = e
        BY <1>1
      <4>2. \A f \in S : f.at \in Nat
        BY FactFields
      <4>3. QED
        BY <1>1, <4>1, <4>2
    <3>2. Named(S, a, e.at) <=> Named(S, a, e.at - 1)
      BY <2>2, <3>1 DEF Named
    <3>3. t.id = p.id /\ t.group = p.group
      BY <1>2, <2>2 DEF Effect
    <3>4. QED
      BY <3>2, <3>3 DEF Folded
  <2>3. QED
    BY <2>1, <2>2
<1>5. t \in DispatchRowState
  BY <1>2 DEF Effect
<1>6. QED
  BY <1>3, <1>4, <1>5 DEF Folded, t

-----------------------------------------------------------------------------
(* The fold, by induction over the places in time.                         *)

(* What foldAsgn does at one place in time.                                *)
Turn(R, n, prior) ==
    LET now == {e \in R : e.at = n} IN
    IF now = {} THEN prior ELSE ApplyFact(prior, CHOOSE e \in now : TRUE)

LEMMA StateStep ==
  ASSUME NEW S \in SUBSET Facts, NEW a \in Asgns, Assigned(S, a),
         NEW n \in 1..Last, NEW s, State(s, S, a, n - 1)
  PROVE  State(Turn(Relevant(S, a), n, s), S, a, n)
<1> DEFINE R == Relevant(S, a)
<1>0. R \in SUBSET Facts /\ \A e \in R : e.at \in Nat
  BY AllRelevant, FactFields
<1>1. CASE \A e \in R : e.at # n
  <2>1. Turn(R, n, s) = s
    BY <1>1 DEF Turn
  <2>2. /\ Until(CourierFacts(S, a), n) = Until(CourierFacts(S, a), n - 1)
        /\ Until(Axis(S, a), n) = Until(Axis(S, a), n - 1)
        /\ Until(Marks(S, a), n) = Until(Marks(S, a), n - 1)
    BY <1>0, <1>1, AllRelevant, NoneGrown
  <2>3. \A e \in R : e.at <= n <=> e.at <= n - 1
    BY <1>0, <1>1
  <2>4. Named(S, a, n) <=> Named(S, a, n - 1)
    BY <2>3, AllRelevant DEF Named
  <2>5. CASE s = None
    <3>1. \A e \in R : e.at > n
      BY <1>0, <1>1, <2>5 DEF State
    <3>2. QED
      BY <2>1, <2>5, <3>1 DEF State
  <2>6. CASE s # None
    BY <2>1, <2>2, <2>4, <2>6 DEF State, Folded
  <2>7. QED
    BY <2>5, <2>6
<1>2. ASSUME NEW e \in R, e.at = n PROVE State(Turn(R, n, s), S, a, n)
  <2>1. {f \in R : f.at = n} = {e}
    BY <1>0, <1>2
  <2>2. Turn(R, n, s) = ApplyFact(s, e)
    BY <2>1 DEF Turn
  <2> DEFINE p == IF s = None THEN Fresh(e) ELSE s
  <2>3. Folded(p, S, a, n - 1)
    <3>1. CASE s = None
      BY <1>2, <3>1, FreshFolded DEF State
    <3>2. CASE s # None
      BY <3>2 DEF State
    <3>3. QED
      BY <3>1, <3>2
  <2>4. p # None
    BY <2>3, ProvenanceAssumption DEF Folded
  <2>5. ApplyFact(s, e) = ApplyFact(p, e)
    BY <2>4 DEF ApplyFact
  <2> HIDE DEF p
  <2>6. Folded(ApplyFact(p, e), S, a, n)
    BY <1>2, <2>3, FoldedStep
  <2>7. ApplyFact(p, e) # None
    BY <2>6, ProvenanceAssumption DEF Folded
  <2>8. QED
    BY <2>2, <2>5, <2>6, <2>7 DEF State
<1>3. QED
  BY <1>1, <1>2

LEMMA NatMin ==
  ASSUME NEW T, T \subseteq Nat, T # {}
  PROVE  \E x \in T : \A y \in T : x <= y
<1> DEFINE Less == {ss \in Nat \X Nat : ss[1] < ss[2]}
<1>1. IsWellFoundedOn(Less, Nat)
  BY NatLessThanWellFounded DEF OpToRel
<1>2. \A x, y \in Nat : x < y => <<x, y>> \in Less
  OBVIOUS
<1> HIDE DEF Less
<1>3. PICK x \in T : \A y \in T : ~(<<y, x>> \in Less)
  BY <1>1, WFMin
<1>4. \A y \in T : ~(y < x)
  BY <1>2, <1>3
<1>5. x \in Nat /\ \A y \in T : y \in Nat
  BY <1>3
<1>6. QED
  BY <1>3, <1>4, <1>5

(* Induction, for a set in place of a predicate.                           *)
LEMMA NatInSet ==
  ASSUME NEW S, 0 \in S, \A n \in Nat : n \in S => n + 1 \in S
  PROVE  Nat \subseteq S
<1> SUFFICES ASSUME Nat \ S # {} PROVE FALSE
  OBVIOUS
<1>1. PICK x \in Nat \ S : \A y \in Nat \ S : x <= y
  BY NatMin
<1>2. x # 0 /\ x - 1 \in Nat /\ x - 1 < x
  BY <1>1
<1>3. x - 1 \in S
  BY <1>1, <1>2
<1>4. QED
  BY <1>2, <1>3

(* The recursion of Fold has a solution, built turn by turn.               *)
Turns(s, R, m) == s = [n \in 0..m |-> IF n = 0 THEN None ELSE Turn(R, n, s[n - 1])]

LEMMA TurnsExist ==
  ASSUME NEW R
  PROVE  \E s : Turns(s, R, Last)
<1> DEFINE S == {m \in Nat : \E s : Turns(s, R, m)}
<1>1. 0 \in S
  <2>1. Turns([n \in 0..0 |-> None], R, 0)
    BY DEF Turns
  <2>2. QED
    BY <2>1
<1>2. ASSUME NEW m \in Nat, m \in S PROVE m + 1 \in S
  <2>1. PICK s : Turns(s, R, m)
    BY <1>2
  <2> DEFINE v == Turn(R, m + 1, s[m])
             t == [n \in 0..(m + 1) |-> IF n = m + 1 THEN v ELSE s[n]]
  <2> HIDE DEF v
  <2>2. \A n \in 0..m : s[n] = IF n = 0 THEN None ELSE Turn(R, n, s[n - 1])
    BY <2>1 DEF Turns
  <2>3. \A n \in 0..m : t[n] = s[n]
    OBVIOUS
  <2>4. t[m + 1] = Turn(R, m + 1, t[m])
    BY <2>3 DEF v
  <2>5. \A n \in 0..(m + 1) : t[n] = IF n = 0 THEN None ELSE Turn(R, n, t[n - 1])
    <3>1. \A n \in 1..m : n - 1 \in 0..m
      OBVIOUS
    <3>2. QED
      BY <2>2, <2>3, <2>4, <3>1
  <2>6. Turns(t, R, m + 1)
    BY <2>5 DEF Turns
  <2>7. m + 1 \in Nat
    OBVIOUS
  <2> HIDE DEF t
  <2>8. QED
    BY <2>6, <2>7
<1> HIDE DEF S
<1>3. Last \in S
  BY <1>1, <1>2, NatInSet
<1>4. QED
  BY <1>3 DEF S

LEMMA FoldIsTurns ==
  ASSUME NEW R
  PROVE  \E s : Turns(s, R, Last) /\ Fold(R) = s[Last]
<1>1. Fold(R) = (CHOOSE s : Turns(s, R, Last))[Last]
  BY DEF Fold, Turns, Turn
<1>2. QED
  BY <1>1, TurnsExist

LEMMA RowState ==
  ASSUME NEW S \in SUBSET Facts, NEW a \in Asgns, Assigned(S, a)
  PROVE  State(Row(S, a), S, a, Last)
<1>1. PICK s : Turns(s, Relevant(S, a), Last) /\ Fold(Relevant(S, a)) = s[Last]
  BY FoldIsTurns
<1> DEFINE N == {n \in Nat : n <= Last => State(s[n], S, a, n)}
<1>2. s[0] = None /\ \A n \in 1..Last : s[n] = Turn(Relevant(S, a), n, s[n - 1])
  BY <1>1 DEF Turns
<1>3. 0 \in N
  <2>1. \A e \in Relevant(S, a) : e.at > 0
    BY AllRelevant, FactFields
  <2>2. State(s[0], S, a, 0)
    BY <1>2, <2>1 DEF State
  <2>3. QED
    BY <2>2
<1>4. ASSUME NEW n \in Nat, n \in N PROVE n + 1 \in N
  <2>1. SUFFICES ASSUME n + 1 <= Last PROVE State(s[n + 1], S, a, n + 1)
    OBVIOUS
  <2>2. n + 1 \in 1..Last /\ (n + 1) - 1 = n /\ n <= Last
    BY <2>1
  <2>3. State(s[n], S, a, n)
    BY <1>4, <2>2
  <2>4. s[n + 1] = Turn(Relevant(S, a), n + 1, s[n])
    BY <1>2, <2>2
  <2>5. State(Turn(Relevant(S, a), n + 1, s[n]), S, a, n + 1)
    BY <2>2, <2>3, StateStep
  <2>6. QED
    BY <2>4, <2>5
<1> HIDE DEF N
<1>5. Last \in N
  BY <1>3, <1>4, NatInSet
<1>6. State(s[Last], S, a, Last)
  BY <1>5 DEF N
<1>7. QED
  BY <1>1, <1>6 DEF Row

-----------------------------------------------------------------------------
(* The columns of the rows.                                                *)

LEMMA RowShows ==
  ASSUME NEW S \in SUBSET Facts, NEW a \in Asgns, Row(S, a) # None
  PROVE  Shows(Row(S, a), CourierFacts(S, a), Axis(S, a), Marks(S, a))
<1>1. Assigned(S, a)
  BY DEF Row
<1>2. Folded(Row(S, a), S, a, Last)
  BY <1>1, RowState DEF State
<1>3. \A X \in SUBSET Facts : Until(X, Last) = X
  BY FactFields DEF Until
<1>4. /\ CourierFacts(S, a) \in SUBSET Facts /\ Axis(S, a) \in SUBSET Facts
      /\ Marks(S, a) \in SUBSET Facts
  BY AllRelevant
<1>5. QED
  BY <1>2, <1>3, <1>4 DEF Folded

(* A fact that does not affect a dispatch is none its columns rest on, also*)
(* when its device shares a parcel.                                        *)
LEMMA UnaffectedColumns ==
  ASSUME NEW S \in SUBSET Facts, NEW e \in Facts, NEW a \in Asgns, a \notin Affected(S \cup {e}, e)
  PROVE  /\ CourierFacts(S \cup {e}, a) = CourierFacts(S, a)
         /\ Axis(S \cup {e}, a) = Axis(S, a) /\ Marks(S \cup {e}, a) = Marks(S, a)
<1> DEFINE T == S \cup {e}
<1>1. ~(e.topic \in Keyed /\ e.asgn = a)
  BY AffectedCases
<1>2. ~(e.topic \in Paired /\ e.replaced = a)
  BY AffectedCases
<1>3. ~(e.topic = "SHIPMENT" /\ e.collateral /\ a \in e.asgns)
  BY AffectedCases
<1>4. ParcelsOf(T, a) = ParcelsOf(S, a)
  BY <1>1 DEF ParcelsOf, Keyed
<1>5. ~(e.topic = "SHIPMENT" /\ ~e.collateral /\ e.shpt \in ParcelsOf(S, a))
  <2>1. SUFFICES ASSUME e.topic = "SHIPMENT", ~e.collateral, e.shpt \in ParcelsOf(S, a) PROVE FALSE
    OBVIOUS
  <2>2. PICK f \in S : f.topic = "PRINT_FOR" /\ f.asgn = a /\ f.shpt = e.shpt
    BY <2>1 DEF ParcelsOf
  <2>3. QED
    BY <2>1, <2>2, AffectedCases
<1>6. CourierFacts(T, a) = CourierFacts(S, a)
  BY <1>3, <1>4, <1>5 DEF CourierFacts
<1>7. Axis(T, a) = Axis(S, a)
  BY <1>1 DEF Axis, Keyed
<1>8. Marks(T, a) = Marks(S, a)
  BY <1>2 DEF Marks
<1>9. QED
  BY <1>6, <1>7, <1>8

Columns == CourierIsLatest /\ DeliveredOnce /\ WithdrawalsShow

LEMMA ColumnsShow ==
  Columns <=> \A a \in Asgns : a \notin stale /\ rows[a] # None =>
                 Shows(rows[a], CourierFacts(raw, a), Axis(raw, a), Marks(raw, a))
BY DEF Columns, CourierIsLatest, DeliveredOnce, WithdrawalsShow, Shown, Shows

LEMMA ColumnsStep ==
  TypeOK /\ Ingests /\ SeesAll /\ RowsAreAssigned /\ Columns /\ [Next]_vars => Columns'
<1> SUFFICES ASSUME TypeOK, Ingests, SeesAll, RowsAreAssigned, Columns, [Next]_vars,
                    NEW a \in Asgns, a \notin stale', rows'[a] # None
             PROVE  Shows(rows'[a], CourierFacts(raw', a), Axis(raw', a), Marks(raw', a))
  BY DEF Columns, CourierIsLatest, DeliveredOnce, WithdrawalsShow, Shown, Shows
<1>1. CASE UNCHANGED <<raw, rows, stale>>
  BY <1>1, ColumnsShow
<1>2. ASSUME NEW i \in Ingesters, Commit(i)
      PROVE  Shows(rows'[a], CourierFacts(raw', a), Axis(raw', a), Marks(raw', a))
  <2> DEFINE S == raw \cup {tx[i].fact}
  <2>1. raw' = S /\ tx[i].fact \in Facts /\ S \in SUBSET Facts
    BY <1>2, CommitRow DEF TypeOK
  <2>2. CASE a \in Affected(S, tx[i].fact)
    <3>1. rows'[a] = Row(S, a)
      BY <1>2, <2>2, CommitRow
    <3>2. QED
      BY <2>1, <3>1, RowShows
  <2>3. CASE a \notin Affected(S, tx[i].fact)
    <3>1. rows'[a] = rows[a] /\ a \notin stale
      BY <1>2, <2>3, CommitRow
    <3>2. Shows(rows[a], CourierFacts(raw, a), Axis(raw, a), Marks(raw, a))
      BY <3>1, ColumnsShow
    <3>3. /\ CourierFacts(S, a) = CourierFacts(raw, a)
          /\ Axis(S, a) = Axis(raw, a) /\ Marks(S, a) = Marks(raw, a)
      BY <2>1, <2>3, UnaffectedColumns DEF TypeOK
    <3>4. QED
      BY <2>1, <3>1, <3>2, <3>3
  <2>4. QED
    BY <2>2, <2>3
<1>3. CASE RebuildDispatchRows
  <2>1. raw' = raw /\ rows'[a] = Row(raw, a) /\ raw \in SUBSET Facts
    BY <1>3 DEF RebuildDispatchRows, TypeOK
  <2>2. QED
    BY <2>1, RowShows
<1>4. QED
  BY <1>1, <1>2, <1>3, NextCases DEF Begin, Refold, Upsert, Abort, vars

-----------------------------------------------------------------------------
(* The theorems.                                                           *)

LEMMA InitInv == Init => Inv
<1> SUFFICES ASSUME Init PROVE Inv
  OBVIOUS
<1>1. TypeOK
  BY IdleType, TxType, RowType DEF Init, Rows
<1>2. \A i \in Ingesters : tx[i].fact = None /\ tx[i].todo = {} /\ tx[i].read = None /\ tx[i].written = {}
  BY DEF Init, Idle
<1>3. Ingests /\ SeesAll
  BY <1>2 DEF Ingests, SeesAll
<1>4. \A a \in Asgns : rows[a] = None /\ Row(raw, a) = None
  BY DEF Init, Row, Assigned
<1>5. QED
  BY <1>1, <1>3, <1>4 DEF Inv, RowsAreAssigned, OnlineIsRebuild

(***************************************************************************)
(* The inductive invariant of the ingests and their rows, for any facts,   *)
(* any reducer and any number of processes.                                *)
(***************************************************************************)
THEOREM Invariance == Spec => []Inv
<1>1. Inv /\ [Next]_vars => Inv'
  BY TypeStep, IngestsStep, SeesStep, AssignedStep, OnlineStep DEF Inv
<1>2. QED
  BY InitInv, <1>1, PTL DEF Spec

(***************************************************************************)
(* D98 for any arrival order, redelivery and crash: a row is what a        *)
(* rebuild would make it, unless its device shares a parcel with           *)
(* collateral or its last ingest was not alone.                            *)
(***************************************************************************)
THEOREM OnlineIsRebuildHolds == Spec => []OnlineIsRebuild
<1>1. Inv => OnlineIsRebuild
  BY DEF Inv
<1>2. QED
  BY Invariance, <1>1, PTL

LEMMA ColumnsHold == Spec => []Columns
<1>1. Init => Columns
  BY ColumnsShow DEF Init
<1>2. Inv /\ Columns /\ [Next]_vars => Columns'
  BY ColumnsStep DEF Inv
<1>3. QED
  BY <1>1, <1>2, Invariance, PTL DEF Spec

(***************************************************************************)
(* For any facts of the provenance assumed, in any order of arrival: a row *)
(* whose last ingest was alone shows the latest word of the courier of its *)
(* own parcel, a shared parcel included.                                   *)
(***************************************************************************)
THEOREM CourierIsLatestHolds == Spec => []CourierIsLatest
<1>1. Columns => CourierIsLatest
  BY DEF Columns
<1>2. QED
  BY ColumnsHold, <1>1, PTL

(***************************************************************************)
(* It is DELIVERED, and has a delivery date, exactly if that courier said  *)
(* so at some time, whatever activations say and whenever they come.       *)
(***************************************************************************)
THEOREM DeliveredOnceHolds == Spec => []DeliveredOnce
<1>1. Columns => DeliveredOnce
  BY DEF Columns
<1>2. QED
  BY ColumnsHold, <1>1, PTL

(***************************************************************************)
(* It is live, or marked as replaced, exactly if the last fact about that  *)
(* is not its withdrawal.                                                  *)
(***************************************************************************)
THEOREM WithdrawalsShowHold == Spec => []WithdrawalsShow
<1>1. Columns => WithdrawalsShow
  BY DEF Columns
<1>2. QED
  BY ColumnsHold, <1>1, PTL
=============================================================================
