------------------------- MODULE OrderIntakeProofs -------------------------
(***************************************************************************)
(* Proofs about OrderIntake for any files, holds, corrections and VPAs.    *)
(***************************************************************************)
EXTENDS OrderIntake, FiniteSetTheorems, TLAPS

USE RowsAssumption

LEMMA TypeInit == Init => TypeOK
<1> SUFFICES ASSUME Init PROVE TypeOK
  OBVIOUS
<1>1. tx \in [Files \cup Keys -> [open : BOOLEAN, seed : SUBSET Vpas, target : Ids \cup {None},
                                  row : Corrections \cup {None}, alone : BOOLEAN]]
  BY DEF Init, NotRun
<1>2. said \in [Vpas -> Seq(Names)]
  BY DEF Init
<1>3. QED
  BY <1>1, <1>2 DEF Init, TypeOK

LEMMA KnownAreVpas == ASSUME TypeOK, NEW i PROVE KnownVpas(i) \subseteq Vpas
<1>1. ASSUME NEW j \in Accepted PROVE pending[j].row.vpa \in Vpas
  <2>1. pending[j] \in Pending
    BY <1>1 DEF TypeOK, Accepted
  <2>2. QED
    BY <2>1 DEF Pending, Row
<1>2. QED
  BY <1>1 DEF KnownVpas

LEMMA RowsOfType == ASSUME NEW f \in Files, NEW r \in RowsOf(f)
                    PROVE  r \in Row /\ r \in Rows /\ r.id \in Ids /\ r.no \in Nat /\ r.vpa \in Vpas /\ r.file = f
BY DEF RowsOf, Row

LEMMA AcceptType == ASSUME TypeOK, NEW k, NEW r \in Row, tx[k].alone \in BOOLEAN
                    PROVE  Accept(k, r) \in Pending /\ Accept(k, r) # None
<1> DEFINE raced == ~tx[k].alone
<1>1. raced \in BOOLEAN /\ clock \in Nat
  BY DEF TypeOK
<1>2. Accept(k, r) = [row |-> r, when |-> clock, raced |-> raced]
  BY DEF Accept
<1> HIDE DEF raced
<1>3. Accept(k, r) \in Pending
  BY <1>1, <1>2 DEF Pending
<1>4. QED
  BY <1>3

LEMMA HoldType == Hold \in Held /\ Hold # None /\ Hold.resolution = None
BY DEF Hold, Held

LEMMA StartedType ==
  ASSUME TypeOK, NEW k \in Files \cup Keys, NEW seed \in SUBSET Vpas, NEW target \in Ids \cup {None},
         NEW row \in Corrections \cup {None}, Started(k, seed, target, row)
  PROVE  TypeOK'
<1> DEFINE Alone == \A j \in DOMAIN tx : ~tx[j].open
<1>1. Alone \in BOOLEAN
  OBVIOUS
<1>2. tx' = [j \in DOMAIN tx |->
                IF j = k THEN [open |-> TRUE, seed |-> seed, target |-> target, row |-> row, alone |-> Alone]
                ELSE IF tx[j].open THEN [tx[j] EXCEPT !.alone = FALSE] ELSE tx[j]]
  BY DEF Started
<1> HIDE DEF Alone
<1>3. tx' \in [Files \cup Keys -> [open : BOOLEAN, seed : SUBSET Vpas, target : Ids \cup {None},
                                   row : Corrections \cup {None}, alone : BOOLEAN]]
  <2>1. ASSUME NEW j \in Files \cup Keys
        PROVE  tx'[j] \in [open : BOOLEAN, seed : SUBSET Vpas, target : Ids \cup {None},
                           row : Corrections \cup {None}, alone : BOOLEAN]
    <3>1. tx[j] \in [open : BOOLEAN, seed : SUBSET Vpas, target : Ids \cup {None},
                     row : Corrections \cup {None}, alone : BOOLEAN]
      BY DEF TypeOK
    <3>2. tx'[j] = IF j = k THEN [open |-> TRUE, seed |-> seed, target |-> target, row |-> row, alone |-> Alone]
                   ELSE IF tx[j].open THEN [tx[j] EXCEPT !.alone = FALSE] ELSE tx[j]
      BY <1>2 DEF TypeOK
    <3>3. CASE j = k
      BY <1>1, <3>2, <3>3
    <3>4. CASE j # k /\ ~tx[j].open
      BY <3>1, <3>2, <3>4
    <3>5. CASE j # k /\ tx[j].open
      <4>1. tx'[j] = [tx[j] EXCEPT !.alone = FALSE]
        BY <3>2, <3>5
      <4>2. QED
        BY <3>1, <4>1
    <3>6. QED
      BY <3>3, <3>4, <3>5
  <2>2. QED
    BY <1>2, <2>1 DEF TypeOK
<1>4. UNCHANGED <<pending, held, spent, clock, said, projected, tenant, heard, known, joined, orders>>
  BY DEF Started, identity, projections
<1>5. QED
  BY <1>3, <1>4 DEF TypeOK

LEMMA EndedType ==
  ASSUME TypeOK, NEW k \in Files \cup Keys, Ended(k)
  PROVE  tx' \in [Files \cup Keys -> [open : BOOLEAN, seed : SUBSET Vpas, target : Ids \cup {None},
                                      row : Corrections \cup {None}, alone : BOOLEAN]]
BY DEF TypeOK, Ended, NotRun

(* What the commit of a file does.                                         *)
LEMMA UploadFacts ==
  ASSUME TypeOK, RowsInPlace, SeedsCurrent, NEW f \in Files, UploadCommit(f)
  PROVE  /\ tx[f].open /\ Ended(f) /\ spent' = spent \cup {f} /\ clock' = clock + 1
         /\ UNCHANGED <<said, projected, tenant, heard, known, joined, orders>>
         /\ pending' \in [Ids -> Pending \cup {None}] /\ held' \in [Ids -> Held \cup {None}]
         /\ \A r \in RowsOf(f) : pending[r.id] = None /\ held[r.id] = None
         /\ \A r \in RowsOf(f) :
              \/ /\ r.valid /\ ~Repeats(f, r)
                 /\ pending'[r.id] = Accept(f, r) /\ held'[r.id] = None
              \/ /\ ~(r.valid /\ ~Repeats(f, r))
                 /\ pending'[r.id] = None /\ held'[r.id] = Hold
         /\ \A i \in Ids : i \notin {r.id : r \in RowsOf(f)} => pending'[i] = pending[i] /\ held'[i] = held[i]
<1> DEFINE goes == {r \in RowsOf(f) : r.valid /\ ~Repeats(f, r)}
           fresh == {r \in goes : pending[r.id] = None}
           stays == {r \in RowsOf(f) \ goes : held[r.id] = None}
<1>1. /\ tx[f].open /\ Ended(f) /\ spent' = spent \cup {f} /\ clock' = clock + 1
      /\ UNCHANGED <<said, projected, tenant, heard, known, joined, orders>>
      /\ pending' = [i \in Ids |-> IF \E r \in fresh : r.id = i
                                   THEN Accept(f, CHOOSE r \in fresh : r.id = i) ELSE pending[i]]
      /\ held' = [i \in Ids |-> IF \E r \in stays : r.id = i THEN Hold ELSE held[i]]
  BY DEF UploadCommit, identity, projections
<1>2. \A r \in RowsOf(f) : r \in Rows /\ r \in Row /\ r.id \in Ids /\ r.file = f
  BY RowsOfType
<1>3. \A r \in RowsOf(f) : pending[r.id] = None /\ held[r.id] = None
  BY <1>1, <1>2 DEF SeedsCurrent, RowsInPlace
<1>4. \A r, s \in RowsOf(f) : r.id = s.id => r = s
  BY <1>2
<1>5. fresh = goes /\ stays = RowsOf(f) \ goes
  BY <1>3
<1>6. tx[f].alone \in BOOLEAN
  BY DEF TypeOK
<1> HIDE DEF goes, fresh, stays
<1>7. goes \subseteq RowsOf(f)
  BY DEF goes
<1>8. ASSUME NEW r \in goes PROVE pending'[r.id] = Accept(f, r) /\ held'[r.id] = None
  <2>1. (CHOOSE s \in fresh : s.id = r.id) = r
    BY <1>4, <1>5, <1>7
  <2>2. ~\E s \in stays : s.id = r.id
    BY <1>4, <1>5, <1>7
  <2>3. QED
    BY <2>1, <2>2, <1>1, <1>2, <1>3, <1>5, <1>7
<1>9. ASSUME NEW r \in RowsOf(f) \ goes PROVE pending'[r.id] = None /\ held'[r.id] = Hold
  <2>1. ~\E s \in fresh : s.id = r.id
    BY <1>4, <1>5, <1>7
  <2>2. QED
    BY <2>1, <1>1, <1>2, <1>3, <1>5
<1>10. ASSUME NEW i \in Ids, i \notin {r.id : r \in RowsOf(f)} PROVE pending'[i] = pending[i] /\ held'[i] = held[i]
  BY <1>1, <1>5, <1>7, <1>10
<1>11. ASSUME NEW i \in Ids PROVE pending'[i] \in Pending \cup {None} /\ held'[i] \in Held \cup {None}
  <2>1. CASE i \notin {r.id : r \in RowsOf(f)}
    BY <2>1, <1>10 DEF TypeOK
  <2>2. CASE \E r \in RowsOf(f) : r.id = i
    BY <2>2, <1>2, <1>6, <1>8, <1>9, AcceptType, HoldType
  <2>3. QED
    BY <2>1, <2>2
<1>12. pending' \in [Ids -> Pending \cup {None}] /\ held' \in [Ids -> Held \cup {None}]
  BY <1>1, <1>11
<1>13. \A r \in RowsOf(f) : r \in goes <=> r.valid /\ ~Repeats(f, r)
  BY DEF goes
<1>14. QED
  BY <1>1, <1>3, <1>8, <1>9, <1>10, <1>12, <1>13

(* What the commit of a correction does.                                   *)
LEMMA CureFacts ==
  ASSUME TypeOK, CuresAimed, NEW k \in Keys, CureCommit(k),
         NEW r, r = tx[k].row, NEW h, h = tx[k].target
  PROVE  /\ tx[k].open /\ Ended(k) /\ spent' = spent \cup {k} /\ clock' = clock + 1
         /\ UNCHANGED <<said, projected, tenant, heard, known, joined, orders>>
         /\ r \in Row /\ r.id \in Ids /\ h \in Ids /\ held[h] # None
         /\ pending' \in [Ids -> Pending \cup {None}] /\ held' \in [Ids -> Held \cup {None}]
         /\ \/ /\ pending[r.id] = None /\ ~(r.soundbox /\ r.vpa \in tx[k].seed)
               /\ pending' = [pending EXCEPT ![r.id] = Accept(k, r)]
               /\ \A i \in Ids : held'[i] = IF i = h /\ IsOpen(h) THEN [resolution |-> "cured", by |-> r.id]
                                            ELSE held[i]
            \/ /\ pending' = pending
               /\ r.id = h => held' = held
               /\ r.id # h => \A i \in Ids : i # r.id => held'[i] = held[i]
               /\ r.id # h => held'[r.id] \in {held[r.id], Hold}
<1> DEFINE goes == r.valid /\ ~(r.soundbox /\ r.vpa \in tx[k].seed)
           accepted == goes /\ pending[r.id] = None
<1>1. /\ tx[k].open /\ Ended(k) /\ spent' = spent \cup {k} /\ clock' = clock + 1
      /\ UNCHANGED <<said, projected, tenant, heard, known, joined, orders>>
      /\ pending' = IF accepted THEN [pending EXCEPT ![r.id] = Accept(k, r)] ELSE pending
      /\ held' = [i \in Ids |->
                    IF i = h /\ accepted /\ IsOpen(h) THEN [resolution |-> "cured", by |-> r.id]
                    ELSE IF i = r.id /\ ~goes /\ held[i] = None THEN Hold ELSE held[i]]
  BY DEF CureCommit, identity, projections
<1>2. r \in Row /\ r.id \in Ids /\ h \in Ids /\ held[h] # None
  BY <1>1 DEF CuresAimed, Row
<1>3. tx[k].alone \in BOOLEAN
  BY DEF TypeOK
<1>4. Accept(k, r) \in Pending /\ Hold \in Held /\ [resolution |-> "cured", by |-> r.id] \in Held
  BY <1>2, <1>3, AcceptType, HoldType DEF Held
<1>5. pending' \in [Ids -> Pending \cup {None}] /\ held' \in [Ids -> Held \cup {None}]
  BY <1>1, <1>2, <1>4 DEF TypeOK
<1>6. CASE accepted
  <2>1. \A i \in Ids : held'[i] = IF i = h /\ IsOpen(h) THEN [resolution |-> "cured", by |-> r.id] ELSE held[i]
    BY <1>1, <1>6
  <2>2. QED
    BY <2>1, <1>1, <1>2, <1>5, <1>6
<1>7. CASE ~accepted
  <2>1. \A i \in Ids : held'[i] = IF i = r.id /\ ~goes /\ held[i] = None THEN Hold ELSE held[i]
    BY <1>1, <1>7
  <2>2. r.id = h => held' = held
    <3>1. r.id = h => \A i \in Ids : held'[i] = held[i]
      BY <2>1, <1>2
    <3>2. QED
      BY <3>1, <1>5 DEF TypeOK
  <2>3. QED
    BY <2>1, <2>2, <1>1, <1>2, <1>5, <1>7
<1>8. QED
  BY <1>6, <1>7

LEMMA TypeStep == Inv /\ [Next]_vars => TypeOK'
<1> SUFFICES ASSUME Inv, [Next]_vars PROVE TypeOK'
  OBVIOUS
<1>1. TypeOK /\ RowsInPlace /\ SeedsCurrent /\ CuresAimed
  BY DEF Inv
<1>2. ASSUME NEW f \in Files, UploadRead(f) PROVE TypeOK'
  BY <1>1, <1>2, StartedType, KnownAreVpas DEF UploadRead
<1>3. ASSUME NEW f \in Files, UploadCommit(f) PROVE TypeOK'
  <2>1. spent' \subseteq Files \cup Keys /\ clock' \in Nat
    BY <1>1, <1>3, UploadFacts DEF TypeOK
  <2>2. QED
    BY <1>1, <1>3, <2>1, UploadFacts, EndedType DEF TypeOK
<1>4. ASSUME NEW k \in Keys, NEW h \in Ids, NEW r \in Corrections, CureRead(k, h, r) PROVE TypeOK'
  BY <1>1, <1>4, StartedType, KnownAreVpas DEF CureRead
<1>5. ASSUME NEW k \in Keys, NEW h \in Ids, Close(k, h) PROVE TypeOK'
  <2>1. held' \in [Ids -> Held \cup {None}]
    <3>1. held[h] \in Held
      BY <1>1, <1>5 DEF TypeOK, Close
    <3>2. [held[h] EXCEPT !.resolution = "closed"] \in Held
      BY <3>1 DEF Held
    <3>3. QED
      BY <1>1, <1>5, <3>2 DEF Close, TypeOK
  <2>2. QED
    BY <1>1, <1>5, <2>1 DEF Close, TypeOK, identity, projections
<1>6. ASSUME NEW k \in Keys, CureCommit(k) PROVE TypeOK'
  <2> DEFINE r == tx[k].row
             h == tx[k].target
  <2>1. /\ Ended(k) /\ spent' = spent \cup {k} /\ clock' = clock + 1
        /\ UNCHANGED <<said, projected, tenant, heard, known, joined, orders>>
        /\ pending' \in [Ids -> Pending \cup {None}] /\ held' \in [Ids -> Held \cup {None}]
    <3> HIDE DEF r, h
    <3>1. r = tx[k].row /\ h = tx[k].target
      BY DEF r, h
    <3>2. QED
      BY <1>1, <1>6, <3>1, CureFacts
  <2>2. QED
    BY <1>1, <2>1, EndedType DEF TypeOK
<1>7. ASSUME NEW k \in Files \cup Keys, Abort(k) PROVE TypeOK'
  BY <1>1, <1>7, EndedType DEF Abort, TypeOK, identity, projections
<1>8. ASSUME NEW i \in Ids, ProjectRow(i) PROVE TypeOK'
  <2>1. pending[i] \in Pending /\ i \in Accepted
    BY <1>1, <1>8 DEF ProjectRow, Accepted, TypeOK
  <2>2. pending[i].row.name \in Names /\ pending[i].row.vpa \in Vpas
    BY <2>1 DEF Pending, Row
  <2>3. said' \in [Vpas -> Seq(Names)]
    BY <1>1, <1>8, <2>2 DEF ProjectRow, TypeOK
  <2>4. QED
    BY <1>1, <1>8, <2>1, <2>3 DEF ProjectRow, TypeOK, tms, projections
<1>9. ASSUME NEW i \in Ids, CreateAssignment(i) PROVE TypeOK'
  <2>1. i \in projected
    BY <1>9 DEF CreateAssignment
  <2>2. CASE orders' = orders
    BY <1>1, <1>9, <2>1, <2>2 DEF CreateAssignment, TypeOK, tms, identity
  <2>3. CASE orders' = [orders EXCEPT ![i] = [legs |-> LegsOf(pending[i].row), name |-> known[pending[i].row.vpa]]]
            /\ LegsOf(pending[i].row) # {}
    <3>1. known[pending[i].row.vpa] \in Names
      <4>1. known \in [Vpas -> Names \cup {None}] /\ known[pending[i].row.vpa] # None
        BY <1>1, <1>9 DEF TypeOK, CreateAssignment
      <4>2. CASE pending[i] \in Pending
        BY <4>1, <4>2 DEF Pending, Row
      <4>3. CASE pending[i] = None
        BY <1>1, <4>3, <2>1 DEF RowsInPlace, Accepted
      <4>4. QED
        BY <1>1, <4>2, <4>3 DEF TypeOK
    <3>2. LegsOf(pending[i].row) \in SUBSET {"SOUNDBOX", "COLLATERAL"}
      BY DEF LegsOf
    <3>3. orders' \in [Ids -> [legs : SUBSET {"SOUNDBOX", "COLLATERAL"}, name : Names] \cup {None}]
      BY <1>1, <2>3, <3>1, <3>2 DEF TypeOK
    <3>4. QED
      BY <1>1, <1>9, <3>3 DEF CreateAssignment, TypeOK, tms, identity
  <2>4. QED
    BY <1>9, <2>2, <2>3 DEF CreateAssignment
<1>10. ASSUME NEW v \in Vpas, NEW n \in DOMAIN said[v], ProjectMerchant(v, n) PROVE TypeOK'
  <2>1. said[v] \in Seq(Names) /\ n \in Nat \ {0} /\ said[v][n] \in Names
    BY <1>1 DEF TypeOK
  <2>2. QED
    BY <1>1, <1>10, <2>1 DEF ProjectMerchant, TypeOK, tms, identity
<1>11. CASE ProjectTenant
  BY <1>1, <1>11 DEF ProjectTenant, TypeOK, tms, projections
<1>12. CASE UNCHANGED vars
  BY <1>1, <1>12 DEF vars, tms, identity, projections, TypeOK
<1>13. ASSUME NEW m \in Manual, CreateMerchant(m[1], m[2]) PROVE TypeOK'
  <2>1. m[1] \in Vpas /\ m[2] \in Names
    OBVIOUS
  <2>2. <<m[2]>> \in Seq(Names)
    BY <2>1
  <2>3. said' \in [Vpas -> Seq(Names)]
    BY <1>1, <1>13, <2>1, <2>2 DEF CreateMerchant, TypeOK
  <2>4. QED
    BY <1>1, <1>13, <2>3 DEF CreateMerchant, TypeOK, tms, projections
<1>14. QED
  BY <1>2, <1>3, <1>4, <1>5, <1>6, <1>7, <1>8, <1>9, <1>10, <1>11, <1>12, <1>13 DEF Next

-----------------------------------------------------------------------------
(* An ingest that begins writes nothing yet; it ends the solitude of those *)
(* that are open.                                                          *)
LEMMA StartedFacts ==
  ASSUME TypeOK, NEW k \in Files \cup Keys, NEW seed, NEW target, NEW row, Started(k, seed, target, row)
  PROVE  /\ UNCHANGED <<pending, held, spent, clock, projected>>
         /\ ~tx[k].open /\ k \notin spent
         /\ tx'[k].open /\ tx'[k].seed = seed /\ tx'[k].target = target /\ tx'[k].row = row
         /\ tx'[k].alone => \A j \in Files \cup Keys : ~tx[j].open
         /\ \A j \in (Files \cup Keys) \ {k} :
              /\ tx'[j].open = tx[j].open /\ tx'[j].seed = tx[j].seed
              /\ tx'[j].target = tx[j].target /\ tx'[j].row = tx[j].row
              /\ tx[j].open => ~tx'[j].alone
<1> DEFINE Alone == \A j \in DOMAIN tx : ~tx[j].open
<1>1. tx' = [j \in DOMAIN tx |->
                IF j = k THEN [open |-> TRUE, seed |-> seed, target |-> target, row |-> row, alone |-> Alone]
                ELSE IF tx[j].open THEN [tx[j] EXCEPT !.alone = FALSE] ELSE tx[j]]
  BY DEF Started
<1>2. DOMAIN tx = Files \cup Keys
  BY DEF TypeOK
<1>3. tx'[k].alone = Alone
  BY <1>1, <1>2
<1>4. Alone => \A j \in Files \cup Keys : ~tx[j].open
  BY <1>2
<1> HIDE DEF Alone
<1>5. ASSUME NEW j \in (Files \cup Keys) \ {k}
      PROVE  /\ tx'[j].open = tx[j].open /\ tx'[j].seed = tx[j].seed
             /\ tx'[j].target = tx[j].target /\ tx'[j].row = tx[j].row
             /\ tx[j].open => ~tx'[j].alone
  <2>1. tx[j] \in [open : BOOLEAN, seed : SUBSET Vpas, target : Ids \cup {None},
                   row : Corrections \cup {None}, alone : BOOLEAN]
    BY DEF TypeOK
  <2>2. CASE tx[j].open
    <3>1. tx'[j] = [tx[j] EXCEPT !.alone = FALSE]
      BY <1>1, <1>2, <2>2
    <3>2. QED
      BY <2>1, <3>1
  <2>3. CASE ~tx[j].open
    BY <1>1, <1>2, <2>3
  <2>4. QED
    BY <2>2, <2>3
<1>6. tx'[k].open /\ tx'[k].seed = seed /\ tx'[k].target = target /\ tx'[k].row = row
  BY <1>1, <1>2
<1>7. QED
  BY <1>3, <1>4, <1>5, <1>6 DEF Started, identity

(* The part of the invariant that only the tables carry.                   *)
LEMMA TablesStill ==
  ASSUME RowsInPlace, NoSecondSoundboxInTurn, HoldsAnswered, RowsAccountedFor,
         UNCHANGED <<pending, held, spent, clock>>, projected' \subseteq Accepted
  PROVE  RowsInPlace' /\ NoSecondSoundboxInTurn' /\ HoldsAnswered' /\ RowsAccountedFor'
BY DEF RowsInPlace, NoSecondSoundboxInTurn, HoldsAnswered, RowsAccountedFor, Accepted, Before

LEMMA StartedStep ==
  ASSUME Inv, NEW k \in Files \cup Keys, NEW seed, NEW target, NEW row, Started(k, seed, target, row),
         k \in Files => KnownVpas(None) \subseteq seed,
         k \in Keys => /\ row \in Corrections /\ target \in Ids /\ held[target] # None
                       /\ Aimed(target, row) /\ KnownVpas(row.id) \subseteq seed
  PROVE  /\ RowsInPlace' /\ SeedsCurrent' /\ CuresAimed'
         /\ NoSecondSoundboxInTurn' /\ HoldsAnswered' /\ RowsAccountedFor'
<1>1. TypeOK /\ RowsInPlace /\ SeedsCurrent /\ CuresAimed /\ NoSecondSoundboxInTurn /\ HoldsAnswered /\ RowsAccountedFor
  BY DEF Inv
<1>2. /\ UNCHANGED <<pending, held, spent, clock, projected>>
      /\ ~tx[k].open /\ k \notin spent
      /\ tx'[k].open /\ tx'[k].seed = seed /\ tx'[k].target = target /\ tx'[k].row = row
      /\ tx'[k].alone => \A j \in Files \cup Keys : ~tx[j].open
      /\ \A j \in (Files \cup Keys) \ {k} :
           /\ tx'[j].open = tx[j].open /\ tx'[j].seed = tx[j].seed
           /\ tx'[j].target = tx[j].target /\ tx'[j].row = tx[j].row
           /\ tx[j].open => ~tx'[j].alone
  BY <1>1, StartedFacts
<1>3. Accepted' = Accepted
  BY <1>2 DEF Accepted
<1>4. RowsInPlace' /\ NoSecondSoundboxInTurn' /\ HoldsAnswered' /\ RowsAccountedFor'
  BY <1>1, <1>2, TablesStill DEF RowsInPlace
<1>5. SeedsCurrent'
  <2> SUFFICES ASSUME NEW j \in Files \cup Keys, tx'[j].open
               PROVE  /\ j \notin spent'
                      /\ tx'[j].alone => \A i \in Files \cup Keys : tx'[i].open => i = j
                      /\ tx'[j].alone => \A i \in Accepted' :
                            pending'[i].row.vpa \in tx'[j].seed \/ (j \in Keys /\ i = tx'[j].row.id)
    BY DEF SeedsCurrent
  <2>1. CASE j = k
    <3>1. \A i \in Accepted : pending[i].row.vpa \in seed \/ (k \in Keys /\ i = row.id)
      <4>1. None \notin Accepted
        BY DEF Accepted
      <4>2. QED
        BY <4>1 DEF KnownVpas
    <3>2. QED
      BY <1>2, <1>3, <2>1, <3>1
  <2>2. CASE j # k
    BY <1>1, <1>2, <1>3, <2>2 DEF SeedsCurrent
  <2>3. QED
    BY <2>1, <2>2
<1>6. CuresAimed'
  <2> SUFFICES ASSUME NEW j \in Keys, tx'[j].open
               PROVE  /\ tx'[j].row \in Corrections /\ tx'[j].target \in Ids /\ held'[tx'[j].target] # None
                      /\ \/ tx'[j].row.id = tx'[j].target
                         \/ /\ tx'[j].row.id \notin {s.id : s \in Rows}
                            /\ held'[tx'[j].row.id] = None /\ pending'[tx'[j].row.id] = None
                            /\ \A i \in Keys \ {j} : tx'[i].open => tx'[i].row.id # tx'[j].row.id
    BY DEF CuresAimed
  <2>1. CASE j = k
    BY <1>2, <2>1 DEF Aimed
  <2>2. CASE j # k
    <3>1. tx[j].open /\ tx'[j].row = tx[j].row /\ tx'[j].target = tx[j].target
      BY <1>2, <2>2
    <3>2. CASE tx[j].row.id = tx[j].target
      BY <1>1, <1>2, <3>1, <3>2 DEF CuresAimed
    <3>3. CASE tx[j].row.id # tx[j].target
      <4>1. k \in Keys => row.id # tx[j].row.id
        <5> SUFFICES ASSUME k \in Keys, row.id = tx[j].row.id PROVE FALSE
          OBVIOUS
        <5>1. row.id = target
          BY <3>1 DEF Aimed
        <5>2. held[row.id] # None /\ held[tx[j].row.id] = None
          BY <1>1, <3>1, <3>3, <5>1 DEF CuresAimed
        <5>3. QED
          BY <5>2
      <4>2. QED
        BY <1>1, <1>2, <3>1, <3>3, <4>1 DEF CuresAimed
    <3>4. QED
      BY <3>2, <3>3
  <2>3. QED
    BY <2>1, <2>2
<1>7. QED
  BY <1>4, <1>5, <1>6

LEMMA EndedFacts ==
  ASSUME TypeOK, NEW k \in Files \cup Keys, Ended(k)
  PROVE  ~tx'[k].open /\ \A j \in (Files \cup Keys) \ {k} : tx'[j] = tx[j]
BY DEF Ended, TypeOK, NotRun

-----------------------------------------------------------------------------
(* The commit of a file.                                                   *)
LEMMA UploadStep ==
  ASSUME Inv, NEW f \in Files, UploadCommit(f)
  PROVE  /\ RowsInPlace' /\ SeedsCurrent' /\ CuresAimed'
         /\ NoSecondSoundboxInTurn' /\ HoldsAnswered' /\ RowsAccountedFor'
<1> DEFINE Mine == {r.id : r \in RowsOf(f)}
<1>1. TypeOK /\ RowsInPlace /\ SeedsCurrent /\ CuresAimed /\ NoSecondSoundboxInTurn /\ HoldsAnswered /\ RowsAccountedFor
  BY DEF Inv
<1>2. /\ tx[f].open /\ Ended(f) /\ spent' = spent \cup {f} /\ clock' = clock + 1 /\ projected' = projected
      /\ \A r \in RowsOf(f) : pending[r.id] = None /\ held[r.id] = None
      /\ \A r \in RowsOf(f) :
           \/ /\ r.valid /\ ~Repeats(f, r)
              /\ pending'[r.id] = Accept(f, r) /\ held'[r.id] = None
           \/ /\ ~(r.valid /\ ~Repeats(f, r))
              /\ pending'[r.id] = None /\ held'[r.id] = Hold
      /\ \A i \in Ids : i \notin Mine => pending'[i] = pending[i] /\ held'[i] = held[i]
  BY <1>1, UploadFacts
<1>3. /\ \A r \in RowsOf(f) : r \in Rows /\ r \in Row /\ r.id \in Ids /\ r.file = f /\ r.no \in Nat
      /\ \A r \in Rows : r.file = f => r \in RowsOf(f)
      /\ \A r \in Rows : r.file # f => r.id \notin Mine /\ r.id \in Ids
  BY RowsOfType DEF RowsOf, Row
<1>4. \A r \in RowsOf(f) : Accept(f, r) # None /\ Accept(f, r).row = r /\ Accept(f, r).when = clock
                         /\ (Accept(f, r).raced <=> ~tx[f].alone)
  <2>1. tx[f].alone \in BOOLEAN
    BY <1>1 DEF TypeOK
  <2>2. QED
    BY <1>1, <1>3, <2>1, AcceptType DEF Accept
<1>5. /\ ~tx'[f].open
      /\ \A j \in (Files \cup Keys) \ {f} : tx'[j] = tx[j]
  BY <1>1, <1>2, EndedFacts
<1>6. Hold # None /\ Hold.resolution = None
  BY HoldType
<1>7. clock \in Nat
  BY <1>1 DEF TypeOK
<1> HIDE DEF Mine
<1>8. /\ \A i \in Mine : \E r \in RowsOf(f) : i = r.id
      /\ \A r \in RowsOf(f) : r.id \in Mine
      /\ Mine \subseteq Ids
  BY <1>3 DEF Mine
<1>9. ASSUME NEW i \in Ids
      PROVE  /\ i \in Accepted /\ i \notin Mine => pending'[i] = pending[i] /\ i \in Accepted'
             /\ i \in Accepted' /\ i \notin Mine => pending'[i] = pending[i] /\ i \in Accepted
             /\ i \in Mine => i \notin Accepted
  BY <1>2, <1>8 DEF Accepted
<1>10. RowsInPlace'
  <2>1. ASSUME NEW i \in Accepted' PROVE pending'[i].row.id = i /\ pending'[i].when < clock'
    <3>1. i \in Ids
      BY DEF Accepted
    <3>2. CASE i \in Mine
      <4>1. PICK r \in RowsOf(f) : i = r.id
        BY <1>8, <3>2
      <4>2. pending'[i] = Accept(f, r)
        BY <1>2, <4>1 DEF Accepted
      <4>3. QED
        BY <1>2, <1>4, <1>7, <4>1, <4>2
    <3>3. CASE i \notin Mine
      <4>1. i \in Accepted /\ pending'[i] = pending[i] /\ pending[i] \in Pending
        BY <1>1, <1>9, <3>1, <3>3 DEF Accepted, TypeOK
      <4>2. pending[i].when \in Nat
        BY <4>1 DEF Pending
      <4>3. QED
        BY <1>1, <1>2, <1>7, <4>1, <4>2 DEF RowsInPlace
    <3>4. QED
      BY <3>2, <3>3
  <2>2. projected' \subseteq Accepted'
    BY <1>1, <1>2, <1>9 DEF RowsInPlace, Accepted
  <2>3. ASSUME NEW r \in Rows, r.file \notin spent' PROVE pending'[r.id] = None /\ held'[r.id] = None
    BY <1>1, <1>2, <1>3, <2>3 DEF RowsInPlace
  <2>4. QED
    BY <2>1, <2>2, <2>3 DEF RowsInPlace
<1>11. SeedsCurrent'
  <2> SUFFICES ASSUME NEW j \in Files \cup Keys, tx'[j].open
               PROVE  /\ j \notin spent'
                      /\ tx'[j].alone => FALSE
    BY DEF SeedsCurrent
  <2>1. j # f /\ tx'[j] = tx[j]
    BY <1>5
  <2>2. QED
    BY <1>1, <1>2, <2>1 DEF SeedsCurrent
<1>12. CuresAimed'
  <2> SUFFICES ASSUME NEW j \in Keys, tx'[j].open
               PROVE  /\ tx'[j].row \in Corrections /\ tx'[j].target \in Ids /\ held'[tx'[j].target] # None
                      /\ \/ tx'[j].row.id = tx'[j].target
                         \/ /\ tx'[j].row.id \notin {s.id : s \in Rows}
                            /\ held'[tx'[j].row.id] = None /\ pending'[tx'[j].row.id] = None
                            /\ \A i \in Keys \ {j} : tx'[i].open => tx'[i].row.id # tx'[j].row.id
    BY DEF CuresAimed
  <2>1. \A i \in Keys : tx'[i] = tx[i]
    BY <1>5
  <2>2. tx[j].row.id \in Ids
    BY <1>1, <2>1 DEF CuresAimed, Row
  <2>3. held'[tx[j].target] # None
    BY <1>1, <1>2, <1>8, <2>1 DEF CuresAimed
  <2>4. tx[j].row.id \notin {s.id : s \in Rows} => tx[j].row.id \notin Mine
    BY <1>3, <1>8
  <2>5. QED
    BY <1>1, <1>2, <2>1, <2>2, <2>3, <2>4 DEF CuresAimed
<1>13. NoSecondSoundboxInTurn'
  <2> SUFFICES ASSUME NEW i \in Accepted', NEW j \in Accepted', i # j, pending'[i].row.vpa = pending'[j].row.vpa,
                      pending'[j].row.soundbox, ~pending'[j].raced
               PROVE  ~Before(i, j)'
    BY DEF NoSecondSoundboxInTurn
  <2>1. i \in Ids /\ j \in Ids
    BY DEF Accepted
  <2>2. CASE j \in Mine
    <3>1. PICK r \in RowsOf(f) : j = r.id
      BY <1>8, <2>2
    <3>2. pending'[j] = Accept(f, r) /\ ~Repeats(f, r)
      BY <1>2, <3>1 DEF Accepted
    <3>3. r.soundbox /\ tx[f].alone
      BY <1>1, <1>4, <3>2 DEF TypeOK
    <3>4. CASE i \in Mine
      <4>1. PICK s \in RowsOf(f) : i = s.id
        BY <1>8, <3>4
      <4>2. pending'[i] = Accept(f, s)
        BY <1>2, <4>1 DEF Accepted
      <4>3. s.vpa = r.vpa
        BY <1>4, <3>2, <4>2
      <4>4. ~(s.no < r.no)
        BY <3>2, <3>3, <4>3 DEF Repeats
      <4>5. QED
        BY <1>4, <1>7, <3>2, <4>2, <4>4 DEF Before
    <3>5. CASE i \notin Mine
      <4>1. i \in Accepted /\ pending'[i] = pending[i]
        BY <1>9, <2>1, <3>5
      <4>2. pending[i].row.vpa \in tx[f].seed
        BY <1>1, <1>2, <3>3, <4>1 DEF SeedsCurrent
      <4>3. QED
        BY <1>4, <3>2, <3>3, <4>1, <4>2 DEF Repeats
    <3>6. QED
      BY <3>4, <3>5
  <2>3. CASE j \notin Mine
    <3>1. j \in Accepted /\ pending'[j] = pending[j] /\ pending[j] \in Pending
      BY <1>1, <1>9, <2>1, <2>3 DEF Accepted, TypeOK
    <3>2. pending[j].when \in Nat /\ pending[j].when < clock
      BY <1>1, <3>1 DEF Pending, RowsInPlace
    <3>3. CASE i \in Mine
      <4>1. pending'[i].when = clock
        BY <1>2, <1>4, <1>8, <3>3 DEF Accepted
      <4>2. QED
        BY <1>7, <3>1, <3>2, <4>1 DEF Before
    <3>4. CASE i \notin Mine
      BY <1>1, <1>9, <2>1, <3>1, <3>4 DEF Before, NoSecondSoundboxInTurn
    <3>5. QED
      BY <3>3, <3>4
  <2>4. QED
    BY <2>2, <2>3
<1>14. HoldsAnswered'
  <2> SUFFICES ASSUME NEW h \in Ids, held'[h] # None
               PROVE  /\ held'[h].resolution = "cured" => held'[h].by \in Accepted'
                      /\ held'[h].resolution = None => h \notin Accepted'
    BY DEF HoldsAnswered
  <2>1. CASE h \in Mine
    BY <1>2, <1>6, <1>8, <2>1 DEF Accepted
  <2>2. CASE h \notin Mine
    <3>1. held'[h] = held[h] /\ pending'[h] = pending[h]
      BY <1>2, <2>2
    <3>2. Accepted \subseteq Accepted'
      BY <1>9 DEF Accepted
    <3>3. QED
      BY <1>1, <1>9, <2>2, <3>1, <3>2 DEF HoldsAnswered, Accepted
  <2>3. QED
    BY <2>1, <2>2
<1>15. RowsAccountedFor'
  <2> SUFFICES ASSUME NEW r \in Rows, r.file \in spent' PROVE r.id \in Accepted' \/ held'[r.id] # None
    BY DEF RowsAccountedFor
  <2>1. CASE r.file = f
    BY <1>2, <1>3, <1>4, <1>6, <2>1 DEF Accepted
  <2>2. CASE r.file # f
    BY <1>1, <1>2, <1>3, <1>9, <2>2 DEF RowsAccountedFor
  <2>3. QED
    BY <2>1, <2>2
<1>16. QED
  BY <1>10, <1>11, <1>12, <1>13, <1>14, <1>15

-----------------------------------------------------------------------------
(* The commit of a correction.                                             *)
LEMMA CureStep ==
  ASSUME Inv, NEW k \in Keys, CureCommit(k)
  PROVE  /\ RowsInPlace' /\ SeedsCurrent' /\ CuresAimed'
         /\ NoSecondSoundboxInTurn' /\ HoldsAnswered' /\ RowsAccountedFor'
<1> DEFINE r == tx[k].row
           h == tx[k].target
           Cured == [resolution |-> "cured", by |-> r.id]
<1>1. TypeOK /\ RowsInPlace /\ SeedsCurrent /\ CuresAimed /\ NoSecondSoundboxInTurn /\ HoldsAnswered /\ RowsAccountedFor
  BY DEF Inv
<1>2. r = tx[k].row /\ h = tx[k].target
  OBVIOUS
<1> HIDE DEF r, h
<1>3. /\ tx[k].open /\ Ended(k) /\ spent' = spent \cup {k} /\ clock' = clock + 1 /\ projected' = projected
      /\ r \in Row /\ r.id \in Ids /\ h \in Ids /\ held[h] # None
      /\ \/ /\ pending[r.id] = None /\ ~(r.soundbox /\ r.vpa \in tx[k].seed)
            /\ pending' = [pending EXCEPT ![r.id] = Accept(k, r)]
            /\ \A i \in Ids : held'[i] = IF i = h /\ IsOpen(h) THEN Cured ELSE held[i]
         \/ /\ pending' = pending
            /\ r.id = h => held' = held
            /\ r.id # h => \A i \in Ids : i # r.id => held'[i] = held[i]
            /\ r.id # h => held'[r.id] \in {held[r.id], Hold}
  BY <1>1, <1>2, CureFacts
<1>4. \/ r.id = h
      \/ /\ r.id \notin {s.id : s \in Rows} /\ held[r.id] = None /\ pending[r.id] = None
         /\ \A j \in Keys \ {k} : tx[j].open => tx[j].row.id # r.id
  BY <1>1, <1>2, <1>3 DEF CuresAimed
<1>5. ~tx'[k].open /\ \A j \in (Files \cup Keys) \ {k} : tx'[j] = tx[j]
  BY <1>1, <1>3, EndedFacts
<1>6. /\ Accept(k, r) # None /\ Accept(k, r).row = r /\ Accept(k, r).when = clock
      /\ (Accept(k, r).raced <=> ~tx[k].alone) /\ clock \in Nat
  <2>1. tx[k].alone \in BOOLEAN /\ clock \in Nat
    BY <1>1 DEF TypeOK
  <2>2. QED
    BY <1>1, <1>3, <2>1, AcceptType DEF Accept
<1>7. Hold # None /\ Hold.resolution = None /\ Cured.resolution = "cured" /\ Cured.by = r.id
  BY HoldType
<1>8. Cured # None
  BY <1>3 DEF Held
<1> HIDE DEF Cured
<1>9. \A i \in Accepted : i \in Ids /\ i \in Accepted' /\ pending'[i] = pending[i]
  BY <1>1, <1>3 DEF Accepted, TypeOK
<1>10. \A i \in Accepted' : \/ i \in Accepted /\ pending'[i] = pending[i]
                            \/ /\ i = r.id /\ i \notin Accepted /\ pending'[i] = Accept(k, r)
                               /\ ~(r.soundbox /\ r.vpa \in tx[k].seed)
                               /\ \A j \in Ids : held'[j] = IF j = h /\ IsOpen(h) THEN Cured ELSE held[j]
  BY <1>1, <1>3 DEF Accepted, TypeOK
(* Only a hold at the target or at an unused id changes.                   *)
<1>11. \A i \in Ids : \/ held'[i] = held[i]
                      \/ i = h /\ held[i] # None /\ held[i].resolution = None /\ held'[i] = Cured /\ r.id \in Accepted'
                      \/ i = r.id /\ r.id # h /\ held'[i] = Hold /\ pending' = pending
  BY <1>1, <1>3, <1>6 DEF IsOpen, Accepted, TypeOK
<1>12. RowsInPlace'
  <2>1. ASSUME NEW i \in Accepted' PROVE pending'[i].row.id = i /\ pending'[i].when < clock'
    <3>1. CASE i \in Accepted /\ pending'[i] = pending[i]
      <4>1. pending[i] \in Pending
        BY <1>1, <3>1 DEF Accepted, TypeOK
      <4>2. pending[i].when \in Nat
        BY <4>1 DEF Pending
      <4>3. QED
        BY <1>1, <1>3, <1>6, <3>1, <4>2 DEF RowsInPlace
    <3>2. CASE i = r.id /\ pending'[i] = Accept(k, r)
      BY <1>3, <1>6, <3>2
    <3>3. QED
      BY <1>10, <3>1, <3>2
  <2>2. projected' \subseteq Accepted'
    BY <1>1, <1>3, <1>9 DEF RowsInPlace
  <2>3. ASSUME NEW s \in Rows, s.file \notin spent' PROVE pending'[s.id] = None /\ held'[s.id] = None
    <3>1. pending[s.id] = None /\ held[s.id] = None /\ s.id \in Ids
      BY <1>1, <1>3, <2>3 DEF RowsInPlace, Row
    <3>2. s.id # h /\ s.id # r.id
      BY <1>3, <1>4, <3>1
    <3>3. QED
      BY <1>1, <1>3, <1>11, <3>1, <3>2 DEF TypeOK
  <2>4. QED
    BY <2>1, <2>2, <2>3 DEF RowsInPlace
<1>13. SeedsCurrent'
  <2> SUFFICES ASSUME NEW j \in Files \cup Keys, tx'[j].open
               PROVE  /\ j \notin spent'
                      /\ tx'[j].alone => FALSE
    BY DEF SeedsCurrent
  <2>1. j # k /\ tx'[j] = tx[j]
    BY <1>5
  <2>2. QED
    BY <1>1, <1>3, <2>1 DEF SeedsCurrent
<1>14. CuresAimed'
  <2> SUFFICES ASSUME NEW j \in Keys, tx'[j].open
               PROVE  /\ tx'[j].row \in Corrections /\ tx'[j].target \in Ids /\ held'[tx'[j].target] # None
                      /\ \/ tx'[j].row.id = tx'[j].target
                         \/ /\ tx'[j].row.id \notin {s.id : s \in Rows}
                            /\ held'[tx'[j].row.id] = None /\ pending'[tx'[j].row.id] = None
                            /\ \A i \in Keys \ {j} : tx'[i].open => tx'[i].row.id # tx'[j].row.id
    BY DEF CuresAimed
  <2>1. j # k /\ tx'[j] = tx[j] /\ \A i \in Keys \ {j} : tx'[i].open => tx[i].open /\ tx'[i] = tx[i]
    BY <1>5
  <2>2. tx[j].row \in Corrections /\ tx[j].target \in Ids /\ held[tx[j].target] # None /\ tx[j].row.id \in Ids
    BY <1>1, <2>1 DEF CuresAimed, Row
  <2>3. held'[tx[j].target] # None
    BY <1>7, <1>8, <1>11, <2>2
  <2>4. CASE tx[j].row.id = tx[j].target
    BY <2>1, <2>2, <2>3, <2>4
  <2>5. CASE tx[j].row.id # tx[j].target
    <3>1. /\ tx[j].row.id \notin {s.id : s \in Rows}
          /\ held[tx[j].row.id] = None /\ pending[tx[j].row.id] = None
          /\ \A i \in Keys \ {j} : tx[i].open => tx[i].row.id # tx[j].row.id
      BY <1>1, <2>1, <2>5 DEF CuresAimed
    <3>2. tx[j].row.id # r.id /\ tx[j].row.id # h
      BY <1>2, <1>3, <2>1, <3>1
    <3>3. held'[tx[j].row.id] = None /\ pending'[tx[j].row.id] = None
      BY <1>1, <1>3, <1>11, <2>2, <3>1, <3>2 DEF TypeOK
    <3>4. QED
      BY <2>1, <2>2, <2>3, <3>1, <3>3
  <2>6. QED
    BY <2>4, <2>5
<1>15. NoSecondSoundboxInTurn'
  <2> SUFFICES ASSUME NEW i \in Accepted', NEW j \in Accepted', i # j, pending'[i].row.vpa = pending'[j].row.vpa,
                      pending'[j].row.soundbox, ~pending'[j].raced
               PROVE  ~Before(i, j)'
    BY DEF NoSecondSoundboxInTurn
  <2>1. CASE i \in Accepted /\ j \in Accepted
    BY <1>1, <1>9, <2>1 DEF NoSecondSoundboxInTurn, Before
  <2>2. CASE i \in Accepted /\ j \notin Accepted
    <3>1. j = r.id /\ pending'[j] = Accept(k, r) /\ ~(r.soundbox /\ r.vpa \in tx[k].seed) /\ pending'[i] = pending[i]
      BY <1>9, <1>10, <2>2
    <3>2. r.soundbox /\ tx[k].alone
      BY <1>1, <1>6, <3>1 DEF TypeOK
    <3>3. pending[i].row.vpa \in tx[k].seed
      BY <1>1, <1>2, <1>3, <2>2, <3>1, <3>2 DEF SeedsCurrent
    <3>4. QED
      BY <1>6, <3>1, <3>2, <3>3
  <2>3. CASE i \notin Accepted
    <3>1. i = r.id /\ pending'[i] = Accept(k, r) /\ j \in Accepted /\ pending'[j] = pending[j]
      BY <1>10, <2>3
    <3>2. pending[j] \in Pending
      BY <1>1, <3>1 DEF Accepted, TypeOK
    <3>3. pending[j].when \in Nat /\ pending[j].when < clock
      BY <1>1, <3>1, <3>2 DEF Pending, RowsInPlace
    <3>4. QED
      BY <1>6, <3>1, <3>3 DEF Before
  <2>4. QED
    BY <2>1, <2>2, <2>3
<1>16. HoldsAnswered'
  <2> SUFFICES ASSUME NEW i \in Ids, held'[i] # None
               PROVE  /\ held'[i].resolution = "cured" => held'[i].by \in Accepted'
                      /\ held'[i].resolution = None => i \notin Accepted'
    BY DEF HoldsAnswered
  <2>1. CASE held'[i] = held[i]
    <3>1. held[i].resolution = "cured" => held[i].by \in Accepted'
      BY <1>1, <1>9, <2>1 DEF HoldsAnswered
    <3>2. ASSUME held[i].resolution = None, i \in Accepted' PROVE FALSE
      <4>1. i \notin Accepted
        BY <1>1, <2>1, <3>2 DEF HoldsAnswered
      <4>2. i = r.id /\ \A j \in Ids : held'[j] = IF j = h /\ IsOpen(h) THEN Cured ELSE held[j]
        BY <1>10, <3>2, <4>1
      <4>3. r.id = h
        BY <1>4, <2>1, <4>2
      <4>4. held'[i] = Cured
        BY <1>3, <3>2, <4>2, <4>3 DEF IsOpen
      <4>5. QED
        BY <1>7, <2>1, <3>2, <4>4
    <3>3. QED
      BY <2>1, <3>1, <3>2
  <2>2. CASE held'[i] = Cured /\ r.id \in Accepted'
    BY <1>7, <2>2
  <2>3. CASE i = r.id /\ r.id # h /\ held'[i] = Hold /\ pending' = pending
    BY <1>4, <1>7, <2>3 DEF Accepted
  <2>4. QED
    BY <1>11, <2>1, <2>2, <2>3
<1>17. RowsAccountedFor'
  <2> SUFFICES ASSUME NEW s \in Rows, s.file \in spent' PROVE s.id \in Accepted' \/ held'[s.id] # None
    BY DEF RowsAccountedFor
  <2>1. s.file \in spent /\ s.id \in Ids
    BY <1>3 DEF Row
  <2>2. s.id \in Accepted \/ held[s.id] # None
    BY <1>1, <2>1 DEF RowsAccountedFor
  <2>3. QED
    BY <1>7, <1>8, <1>9, <1>11, <2>1, <2>2
<1>18. QED
  BY <1>12, <1>13, <1>14, <1>15, <1>16, <1>17

-----------------------------------------------------------------------------
(* The operator's other way out, and a crash.                              *)
LEMMA CloseStep ==
  ASSUME Inv, NEW k \in Keys, NEW h \in Ids, Close(k, h)
  PROVE  /\ RowsInPlace' /\ SeedsCurrent' /\ CuresAimed'
         /\ NoSecondSoundboxInTurn' /\ HoldsAnswered' /\ RowsAccountedFor'
<1>1. TypeOK /\ RowsInPlace /\ SeedsCurrent /\ CuresAimed /\ NoSecondSoundboxInTurn /\ HoldsAnswered /\ RowsAccountedFor
  BY DEF Inv
<1>2. /\ UNCHANGED <<pending, tx, clock, projected>> /\ spent' = spent \cup {k} /\ ~tx[k].open
      /\ Accepted' = Accepted
  BY DEF Close, identity, Accepted
<1>3. \A i \in Ids : \/ held'[i] = held[i]
                     \/ /\ held[i] # None /\ held'[i] # None
                        /\ held'[i].resolution = "closed" /\ held'[i].by = held[i].by
  <2>1. held[h] \in Held
    BY <1>1 DEF Close, TypeOK
  <2>2. [held[h] EXCEPT !.resolution = "closed"] \in Held
    BY <2>1 DEF Held
  <2>3. held' = held \/ held' = [held EXCEPT ![h] = [held[h] EXCEPT !.resolution = "closed"]]
    BY DEF Close
  <2>4. QED
    BY <1>1, <2>1, <2>2, <2>3 DEF Close, TypeOK, Held
<1>4. "closed" # None /\ "closed" # "cured"
  OBVIOUS
<1>5. \A s \in Rows : s.id \in Ids /\ (s.file \in spent' <=> s.file \in spent)
  BY <1>2 DEF Row
<1>6. RowsInPlace'
  BY <1>1, <1>2, <1>3, <1>5 DEF RowsInPlace
<1>7. SeedsCurrent'
  BY <1>1, <1>2 DEF SeedsCurrent
<1>8. CuresAimed'
  <2>1. \A j \in Keys : tx[j].open => tx[j].row.id \in Ids /\ tx[j].target \in Ids
    BY <1>1 DEF CuresAimed, Row
  <2>2. QED
    BY <1>1, <1>2, <1>3, <2>1 DEF CuresAimed
<1>9. NoSecondSoundboxInTurn'
  BY <1>1, <1>2 DEF NoSecondSoundboxInTurn, Before
<1>10. HoldsAnswered'
  BY <1>1, <1>2, <1>3, <1>4 DEF HoldsAnswered
<1>11. RowsAccountedFor'
  BY <1>1, <1>2, <1>3, <1>5 DEF RowsAccountedFor
<1>12. QED
  BY <1>6, <1>7, <1>8, <1>9, <1>10, <1>11

LEMMA AbortStep ==
  ASSUME Inv, NEW k \in Files \cup Keys, Abort(k)
  PROVE  /\ RowsInPlace' /\ SeedsCurrent' /\ CuresAimed'
         /\ NoSecondSoundboxInTurn' /\ HoldsAnswered' /\ RowsAccountedFor'
<1>1. TypeOK /\ RowsInPlace /\ SeedsCurrent /\ CuresAimed /\ NoSecondSoundboxInTurn /\ HoldsAnswered /\ RowsAccountedFor
  BY DEF Inv
<1>2. /\ UNCHANGED <<pending, held, spent, clock, projected>> /\ Accepted' = Accepted
      /\ ~tx'[k].open /\ \A j \in (Files \cup Keys) \ {k} : tx'[j] = tx[j]
  BY <1>1, EndedFacts DEF Abort, identity, Accepted
<1>3. RowsInPlace' /\ NoSecondSoundboxInTurn' /\ HoldsAnswered' /\ RowsAccountedFor'
  BY <1>1, <1>2, TablesStill DEF RowsInPlace
<1>4. SeedsCurrent'
  BY <1>1, <1>2 DEF SeedsCurrent
<1>5. CuresAimed'
  BY <1>1, <1>2 DEF CuresAimed
<1>6. QED
  BY <1>3, <1>4, <1>5

(* Identity and the projections leave the tables of the intake alone.      *)
LEMMA BeyondStep ==
  ASSUME Inv, UNCHANGED tms, projected' \subseteq Accepted
  PROVE  /\ RowsInPlace' /\ SeedsCurrent' /\ CuresAimed'
         /\ NoSecondSoundboxInTurn' /\ HoldsAnswered' /\ RowsAccountedFor'
<1>1. RowsInPlace /\ SeedsCurrent /\ CuresAimed /\ NoSecondSoundboxInTurn /\ HoldsAnswered /\ RowsAccountedFor
  BY DEF Inv
<1>2. UNCHANGED <<pending, held, spent, tx, clock>> /\ Accepted' = Accepted
  BY DEF tms, Accepted
<1>3. RowsInPlace' /\ NoSecondSoundboxInTurn' /\ HoldsAnswered' /\ RowsAccountedFor'
  BY <1>1, <1>2, TablesStill
<1>4. SeedsCurrent' /\ CuresAimed'
  BY <1>1, <1>2 DEF SeedsCurrent, CuresAimed
<1>5. QED
  BY <1>3, <1>4

LEMMA InvInit == Init => Inv
<1> SUFFICES ASSUME Init PROVE Inv
  OBVIOUS
<1>1. Accepted = {}
  BY DEF Init, Accepted
<1>2. \A k \in Files \cup Keys : ~tx[k].open
  BY DEF Init, NotRun
<1>3. \A i \in Ids : held[i] = None /\ pending[i] = None
  BY DEF Init
<1>4. spent = {} /\ projected = {}
  BY DEF Init
<1>5. RowsInPlace
  BY <1>1, <1>3, <1>4 DEF RowsInPlace, Row
<1>6. SeedsCurrent /\ CuresAimed
  BY <1>2 DEF SeedsCurrent, CuresAimed
<1>7. NoSecondSoundboxInTurn /\ HoldsAnswered /\ RowsAccountedFor
  BY <1>1, <1>3, <1>4 DEF NoSecondSoundboxInTurn, HoldsAnswered, RowsAccountedFor
<1>8. QED
  BY <1>5, <1>6, <1>7, TypeInit DEF Inv

(***************************************************************************)
(* The inductive invariant of the intake: whatever the files, the holds    *)
(* and the corrections, and however uploads, cures, closes and crashes     *)
(* interleave, the gate, the holds and the account of the rows stand.      *)
(***************************************************************************)
THEOREM Invariance == Spec => []Inv
<1>1. Inv /\ [Next]_vars => Inv'
  <2> DEFINE Rest == /\ RowsInPlace /\ SeedsCurrent /\ CuresAimed
                     /\ NoSecondSoundboxInTurn /\ HoldsAnswered /\ RowsAccountedFor
  <2> SUFFICES ASSUME Inv, [Next]_vars PROVE Rest'
    BY TypeStep DEF Inv
  <2>1. ASSUME NEW f \in Files, UploadRead(f) PROVE Rest'
    <3>1. f \notin Keys
      OBVIOUS
    <3>2. QED
      BY <2>1, <3>1, StartedStep DEF UploadRead
  <2>2. ASSUME NEW f \in Files, UploadCommit(f) PROVE Rest'
    BY <2>2, UploadStep
  <2>3. ASSUME NEW k \in Keys, NEW h \in Ids, NEW r \in Corrections, CureRead(k, h, r) PROVE Rest'
    <3>1. k \notin Files
      OBVIOUS
    <3>2. QED
      BY <2>3, <3>1, StartedStep DEF CureRead
  <2>4. ASSUME NEW k \in Keys, CureCommit(k) PROVE Rest'
    BY <2>4, CureStep
  <2>5. ASSUME NEW k \in Keys, NEW h \in Ids, Close(k, h) PROVE Rest'
    BY <2>5, CloseStep
  <2>6. ASSUME NEW k \in Files \cup Keys, Abort(k) PROVE Rest'
    BY <2>6, AbortStep
  <2>7. projected \subseteq Accepted
    BY DEF Inv, RowsInPlace
  <2>8. ASSUME NEW i \in Ids, ProjectRow(i) PROVE Rest'
    BY <2>7, <2>8, BeyondStep DEF ProjectRow
  <2>9. ASSUME NEW i \in Ids, CreateAssignment(i) PROVE Rest'
    BY <2>7, <2>9, BeyondStep DEF CreateAssignment, identity
  <2>10. ASSUME NEW v \in Vpas, NEW n \in DOMAIN said[v], ProjectMerchant(v, n) PROVE Rest'
    BY <2>7, <2>10, BeyondStep DEF ProjectMerchant, identity
  <2>11. CASE ProjectTenant
    BY <2>7, <2>11, BeyondStep DEF ProjectTenant
  <2>12. CASE UNCHANGED vars
    BY <2>7, <2>12, BeyondStep DEF vars, identity
  <2>13. ASSUME NEW m \in Manual, CreateMerchant(m[1], m[2]) PROVE Rest'
    BY <2>7, <2>13, BeyondStep DEF CreateMerchant
  <2> HIDE DEF Rest
  <2>14. QED
    BY <2>1, <2>2, <2>3, <2>4, <2>5, <2>6, <2>8, <2>9, <2>10, <2>11, <2>12, <2>13 DEF Next
<1>2. QED
  BY <1>1, InvInit, PTL DEF Spec

(***************************************************************************)
(* The soundbox gate (ingest.ts): no second soundbox for a VPA, but for a  *)
(* race.                                                                   *)
(***************************************************************************)
THEOREM GateHolds == Spec => []NoSecondSoundboxInTurn
<1>1. Inv => NoSecondSoundboxInTurn
  BY DEF Inv
<1>2. QED
  BY <1>1, Invariance, PTL

(***************************************************************************)
(* A hold reads cured only with its order (resolveQuarantineRow).          *)
(***************************************************************************)
THEOREM CureIsACure == Spec => []HoldsAnswered
<1>1. Inv => HoldsAnswered
  BY DEF Inv
<1>2. QED
  BY <1>1, Invariance, PTL

(***************************************************************************)
(* No row of an uploaded file is lost (commitBankFile), crash or no crash. *)
(***************************************************************************)
THEOREM NothingLost == Spec => []RowsAccountedFor
<1>1. Inv => RowsAccountedFor
  BY DEF Inv
<1>2. QED
  BY <1>1, Invariance, PTL

(* A set of positive naturals that holds every smaller one, and the same   *)
(* with one more number, is an interval up to that number.                 *)
LEMMA PrefixGrows ==
  ASSUME NEW n \in Nat \ {0}, NEW S \in SUBSET (Nat \ {0}), n \notin S,
         \A m \in S : \A i \in 1..m : i \in S,
         \A m \in S \cup {n} : \A i \in 1..m : i \in S \cup {n}
  PROVE  Cardinality(S \cup {n}) = n
<1>1. \A m \in S : m < n
  BY SMT
<1>2. S \cup {n} = 1..n
  <2>1. \A x \in S \cup {n} : x \in 1..n
    BY <1>1
  <2>2. \A x \in 1..n : x \in S \cup {n}
    OBVIOUS
  <2>3. QED
    BY <2>1, <2>2
<1>3. IsFiniteSet(1..n) /\ Cardinality(1..n) = IF 1 > n THEN 0 ELSE n - 1 + 1
  BY FS_Interval
<1>4. Cardinality(1..n) = n
  BY <1>3
<1>5. QED
  BY <1>2, <1>4

(***************************************************************************)
(* merchant_projection says what identity said last of what was heard, as  *)
(* long as nothing overtook anything (projectMerchantFact).                *)
(***************************************************************************)
THEOREM ProjectionIsFaithful == Spec => ProjectionFollows
<1>1. Inv /\ [Next]_vars =>
        \A v \in Vpas : InStep(v) /\ InStep(v)' /\ heard'[v] # heard[v] =>
            known'[v] = said[v][Cardinality(heard'[v])]
  <2> SUFFICES ASSUME Inv, [Next]_vars, NEW v \in Vpas, InStep(v), InStep(v)', heard'[v] # heard[v]
               PROVE  known'[v] = said[v][Cardinality(heard'[v])]
    OBVIOUS
  <2>1. TypeOK
    BY DEF Inv
  <2>2. PICK w \in Vpas : \E n \in DOMAIN said[w] : ProjectMerchant(w, n)
    <3>1. heard' # heard
      OBVIOUS
    <3>2. QED
      BY <3>1 DEF Next, vars, projections, UploadRead, UploadCommit, CureRead, CureCommit, Started, Close, Abort,
                  ProjectRow, CreateMerchant, CreateAssignment, ProjectTenant
  <2>7. PICK n \in DOMAIN said[w] : ProjectMerchant(w, n)
    BY <2>2
  <2>3. w = v /\ n \notin heard[v] /\ heard'[v] = heard[v] \cup {n} /\ known'[v] = said[v][n]
    BY <2>1, <2>7 DEF ProjectMerchant, TypeOK
  <2>4. n \in Nat \ {0} /\ heard[v] \subseteq Nat \ {0}
    BY <2>1, <2>2, <2>3 DEF TypeOK
  <2>5. Cardinality(heard'[v]) = n
    BY <2>3, <2>4, PrefixGrows DEF InStep
  <2>6. QED
    BY <2>3, <2>5
<1>2. QED
  BY <1>1, Invariance, PTL DEF Spec, ProjectionFollows
=============================================================================
