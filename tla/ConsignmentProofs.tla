------------------------- MODULE ConsignmentProofs -------------------------
(***************************************************************************)
(* Proofs about Consignment for any batch, inventory, AWBs, number of      *)
(* sheets and of their rows, and any number of corrections.                *)
(***************************************************************************)
EXTENDS Consignment, TLAPS

USE ConstantsAssumption

(* The steps that are not a sheet's.                                       *)
Quiet == UNCHANGED <<link, unitVars, tx, shptTold, linkTold, overlap, early>>

LEMMA NextCases ==
  ASSUME [Next]_vars
  PROVE  \/ Quiet
         \/ \E f \in Files : OpenSheet(f)
         \/ \E f \in Files, r \in Row : ReadRow(f, r)
         \/ \E f \in Files : WriteRow(f)
         \/ \E f \in Files : CommitSheet(f)
         \/ \E f \in Files : AbortSheet(f)
<1>1. CASE UNCHANGED vars
  BY <1>1 DEF vars, Quiet, entryVars, unitVars, factVars, history
<1>2. CASE Compose
  BY <1>2 DEF Compose, Quiet, history
<1>3. CASE SendBatchToVendor
  BY <1>3 DEF SendBatchToVendor, Quiet, history
<1>4. ASSUME NEW d \in Dispatches, NEW s \in DISPATCH_STATES, CorrectDispatchState(d, s) PROVE Quiet
  BY <1>4 DEF CorrectDispatchState, Quiet
<1>5. ASSUME NEW a \in Awbs, NEW s \in TERMINAL_SHIPMENT_STATUSES, SettleShpt(a, s) PROVE Quiet
  BY <1>5 DEF SettleShpt, Quiet, entryVars, factVars, history
<1>6. ASSUME NEW u \in Units, FlagDamage(u) \/ CancelDamage(u) PROVE Quiet
  BY <1>6 DEF FlagDamage, CancelDamage, Quiet, entryVars, factVars, history
<1>7. CASE CloseRead \/ CloseWrite
  BY <1>7 DEF CloseRead, CloseWrite, Quiet, entryVars, factVars, history
<1>8. QED
  BY <1>1, <1>2, <1>3, <1>4, <1>5, <1>6, <1>7 DEF Next, Sheet

(* Which action writes what.                                               *)
LEMMA Writers ==
  ASSUME [Next]_vars
  PROVE  /\ damaged' = damaged \/ \E u \in Units : FlagDamage(u) \/ CancelDamage(u)
         /\ closing' = closing \/ CloseRead \/ CloseWrite
         /\ batch' = batch \/ SendBatchToVendor \/ CloseWrite
         /\ overlap' = overlap \/ \E f \in Files : OpenSheet(f)
         /\ corrected' = corrected
              \/ \E d \in Dispatches, s \in DISPATCH_STATES : CorrectDispatchState(d, s)
         /\ shpt' = shpt \/ (\E f \in Files : CommitSheet(f))
              \/ \E a \in Awbs, s \in TERMINAL_SHIPMENT_STATUSES : SettleShpt(a, s)
         /\ dispatchState' = dispatchState \/ Compose \/ SendBatchToVendor
              \/ (\E d \in Dispatches, s \in DISPATCH_STATES : CorrectDispatchState(d, s))
              \/ \E f \in Files : CommitSheet(f)
<1>1. CASE UNCHANGED vars
  BY <1>1 DEF vars, entryVars, batchVars, history
<1>2. CASE Compose
  <2>1. UNCHANGED <<damaged, closing, batch, overlap, corrected, shpt>>
    BY <1>2 DEF Compose, batchVars, history
  <2>2. QED
    BY <1>2, <2>1
<1>3. CASE SendBatchToVendor
  <2>1. UNCHANGED <<damaged, closing, overlap, corrected, shpt>>
    BY <1>3 DEF SendBatchToVendor, history
  <2>2. QED
    BY <1>3, <2>1
<1>4. CASE \E d \in Dispatches, s \in DISPATCH_STATES : CorrectDispatchState(d, s)
  <2>1. UNCHANGED <<damaged, closing, batch, overlap, shpt>>
    BY <1>4 DEF CorrectDispatchState, batchVars
  <2>2. QED
    BY <1>4, <2>1
<1>5. CASE \E f \in Files : OpenSheet(f)
  <2>1. UNCHANGED <<damaged, closing, batch, corrected, shpt, dispatchState>>
    BY <1>5 DEF OpenSheet, batchVars, entryVars
  <2>2. QED
    BY <1>5, <2>1
<1>6. CASE \E f \in Files : (\E r \in Row : ReadRow(f, r)) \/ WriteRow(f) \/ AbortSheet(f)
  <2>1. UNCHANGED <<damaged, closing, batch, overlap, corrected, shpt, dispatchState>>
    <3>1. PICK f \in Files : (\E r \in Row : ReadRow(f, r)) \/ WriteRow(f) \/ AbortSheet(f)
      BY <1>6
    <3>2. UNCHANGED <<damaged, batchVars, shpt, entryVars, history>>
      <4>1. CASE \E r \in Row : ReadRow(f, r)
        BY <4>1 DEF ReadRow
      <4>2. CASE WriteRow(f)
        BY <4>2 DEF WriteRow
      <4>3. CASE AbortSheet(f)
        BY <4>3 DEF AbortSheet
      <4>4. QED
        BY <3>1, <4>1, <4>2, <4>3
    <3>3. QED
      BY <3>2 DEF batchVars, entryVars, history
  <2>2. QED
    BY <2>1
<1>7. CASE \E f \in Files : CommitSheet(f)
  <2>1. UNCHANGED <<damaged, closing, batch, overlap, corrected>>
    BY <1>7 DEF CommitSheet, batchVars
  <2>2. QED
    BY <1>7, <2>1
<1>8. CASE \E a \in Awbs, s \in TERMINAL_SHIPMENT_STATUSES : SettleShpt(a, s)
  <2>1. UNCHANGED <<damaged, closing, batch, overlap, corrected, dispatchState>>
    BY <1>8 DEF SettleShpt, batchVars, entryVars, history
  <2>2. QED
    BY <1>8, <2>1
<1>9. CASE \E u \in Units : FlagDamage(u) \/ CancelDamage(u)
  <2>1. UNCHANGED <<closing, batch, overlap, corrected, shpt, dispatchState>>
    BY <1>9 DEF FlagDamage, CancelDamage, batchVars, entryVars, history
  <2>2. QED
    BY <1>9, <2>1
<1>10. CASE CloseRead \/ CloseWrite
  <2>1. UNCHANGED <<damaged, overlap, corrected, shpt, dispatchState>> /\ (CloseRead => batch' = batch)
    BY <1>10 DEF CloseRead, CloseWrite, entryVars, history
  <2>2. QED
    BY <1>10, <2>1
<1>11. QED
  BY <1>1, <1>2, <1>3, <1>4, <1>5, <1>6, <1>7, <1>8, <1>9, <1>10 DEF Next, Sheet

-----------------------------------------------------------------------------
(* What the steps of a sheet do to it.                                     *)

LEMMA SheetType ==
  ASSUME TypeOK, NEW f \in Files
  PROVE  /\ tx[f].phase \in {"new", "open", "done"} /\ tx[f].row \in Row \cup {None}
         /\ tx[f].rows \in 0..MaxRows
         /\ tx[f].births \subseteq Awbs /\ tx[f].joined \subseteq Awbs
         /\ tx[f].pairs \subseteq Pair /\ tx[f].links \subseteq Link
         /\ tx[f].covered \subseteq Dispatches
BY DEF TypeOK

LEMMA OpenValues ==
  ASSUME TypeOK, NEW f \in Files, OpenSheet(f)
  PROVE  /\ \A g \in Files \ {f} : tx'[g] = tx[g]
         /\ tx'[f] = [tx[f] EXCEPT !.phase = "open"]
         /\ tx'[f].phase = "open" /\ tx'[f].row = tx[f].row /\ tx'[f].rows = tx[f].rows
         /\ tx'[f].births = tx[f].births /\ tx'[f].joined = tx[f].joined
         /\ tx'[f].pairs = tx[f].pairs /\ tx'[f].links = tx[f].links
         /\ tx'[f].covered = tx[f].covered
<1>1. tx' = [tx EXCEPT ![f].phase = "open"]
  BY DEF OpenSheet
<1>2. QED
  BY <1>1 DEF TypeOK

LEMMA ReadValues ==
  ASSUME TypeOK, NEW f \in Files, NEW r \in Row, ReadRow(f, r)
  PROVE  /\ \A g \in Files \ {f} : tx'[g] = tx[g]
         /\ tx'[f].phase = "open" /\ tx[f].phase = "open" /\ tx'[f].row = r /\ tx'[f].rows = tx[f].rows + 1
         /\ tx'[f].births = tx[f].births /\ tx'[f].joined = tx[f].joined
         /\ tx'[f].pairs = tx[f].pairs /\ tx'[f].links = tx[f].links
         /\ tx'[f].covered = tx[f].covered
<1>1. tx' = [tx EXCEPT ![f].row = r, ![f].rows = @ + 1] /\ tx[f].phase = "open"
  BY DEF ReadRow
<1>2. QED
  BY <1>1 DEF TypeOK

LEMMA WriteValues ==
  ASSUME TypeOK, NEW f \in Files, WriteRow(f)
  PROVE  LET r == tx[f].row
             births == IF shpt[r.awb] = "NONE" THEN tx[f].births \cup {r.awb} ELSE tx[f].births
             fresh == ~KeyTaken(f, r)
         IN /\ r \in Row /\ ~Waits(f, r)
            /\ \A g \in Files \ {f} : tx'[g] = tx[g]
            /\ tx'[f].phase = tx[f].phase /\ tx'[f].row = None /\ tx'[f].rows = tx[f].rows
            /\ tx'[f].births = births
            /\ tx'[f].joined = IF r.unit # None /\ r.awb \in births THEN tx[f].joined \cup {r.awb} ELSE tx[f].joined
            /\ tx'[f].pairs = IF r.unit # None /\ fresh THEN tx[f].pairs \cup {r} ELSE tx[f].pairs
            /\ tx'[f].links = IF r.unit = None /\ fresh
                              THEN tx[f].links \cup {[asgn |-> r.asgn, awb |-> r.awb]} ELSE tx[f].links
            /\ tx'[f].covered = IF Covers(r) THEN tx[f].covered \cup {r.asgn} ELSE tx[f].covered
<1> DEFINE r == tx[f].row
           births == IF shpt[r.awb] = "NONE" THEN tx[f].births \cup {r.awb} ELSE tx[f].births
           fresh == ~KeyTaken(f, r)
           j == IF r.unit # None /\ r.awb \in births THEN tx[f].joined \cup {r.awb} ELSE tx[f].joined
           p == IF r.unit # None /\ fresh THEN tx[f].pairs \cup {r} ELSE tx[f].pairs
           l == IF r.unit = None /\ fresh
                THEN tx[f].links \cup {[asgn |-> r.asgn, awb |-> r.awb]} ELSE tx[f].links
           c == IF Covers(r) THEN tx[f].covered \cup {r.asgn} ELSE tx[f].covered
<1>1. r # None /\ ~Waits(f, r)
  BY DEF WriteRow
<1>2. tx' = [tx EXCEPT ![f].row = None, ![f].births = births, ![f].joined = j,
                       ![f].pairs = p, ![f].links = l, ![f].covered = c]
  BY DEF WriteRow
<1>3. r \in Row
  BY <1>1 DEF TypeOK
<1> HIDE DEF births, fresh, j, p, l, c
<1>4. /\ \A g \in Files \ {f} : tx'[g] = tx[g]
      /\ tx'[f].phase = tx[f].phase /\ tx'[f].row = None /\ tx'[f].rows = tx[f].rows
      /\ tx'[f].births = births /\ tx'[f].joined = j /\ tx'[f].pairs = p
      /\ tx'[f].links = l /\ tx'[f].covered = c
  BY <1>2 DEF TypeOK
<1>5. QED
  BY <1>1, <1>3, <1>4 DEF births, fresh, j, p, l, c

(* The same, element by element.                                           *)
LEMMA WriteParts ==
  ASSUME TypeOK, NEW f \in Files, WriteRow(f)
  PROVE  /\ tx[f].row \in Row /\ tx[f].row # None /\ ~Waits(f, tx[f].row)
         /\ \A p : p \in tx'[f].pairs <=> \/ p \in tx[f].pairs
                                          \/ p = tx[f].row /\ p.unit # None /\ ~SeesPaired(f, p.unit)
         /\ \A l : l \in tx'[f].links <=>
              \/ l \in tx[f].links
              \/ /\ l = [asgn |-> tx[f].row.asgn, awb |-> tx[f].row.awb]
                 /\ tx[f].row.unit = None /\ ~SeesLink(f, tx[f].row.asgn)
         /\ \A d : d \in tx'[f].covered <=> \/ d \in tx[f].covered
                                            \/ d = tx[f].row.asgn /\ Covers(tx[f].row)
         /\ \A a : a \in tx'[f].births <=> \/ a \in tx[f].births
                                           \/ a = tx[f].row.awb /\ shpt[a] = "NONE"
         /\ \A a : a \in tx'[f].joined <=>
              \/ a \in tx[f].joined
              \/ a = tx[f].row.awb /\ tx[f].row.unit # None /\ a \in tx'[f].births
<1>1. tx[f].row # None
  BY DEF WriteRow
<1>2. KeyTaken(f, tx[f].row) <=> IF tx[f].row.unit # None THEN SeesPaired(f, tx[f].row.unit)
                                                          ELSE SeesLink(f, tx[f].row.asgn)
  BY DEF KeyTaken
<1>3. tx[f].row \in Row /\ ~Waits(f, tx[f].row)
  BY WriteValues
<1>4. \A p : p \in tx'[f].pairs <=> \/ p \in tx[f].pairs
                                    \/ p = tx[f].row /\ p.unit # None /\ ~SeesPaired(f, p.unit)
  <2>1. tx'[f].pairs = IF tx[f].row.unit # None /\ ~KeyTaken(f, tx[f].row)
                       THEN tx[f].pairs \cup {tx[f].row} ELSE tx[f].pairs
    BY WriteValues
  <2>2. QED
    BY <1>2, <2>1
<1>5. \A l : l \in tx'[f].links <=>
        \/ l \in tx[f].links
        \/ /\ l = [asgn |-> tx[f].row.asgn, awb |-> tx[f].row.awb]
           /\ tx[f].row.unit = None /\ ~SeesLink(f, tx[f].row.asgn)
  <2>1. tx'[f].links = IF tx[f].row.unit = None /\ ~KeyTaken(f, tx[f].row)
                       THEN tx[f].links \cup {[asgn |-> tx[f].row.asgn, awb |-> tx[f].row.awb]}
                       ELSE tx[f].links
    BY WriteValues
  <2>2. QED
    BY <1>2, <2>1
<1>6. \A d : d \in tx'[f].covered <=> \/ d \in tx[f].covered
                                      \/ d = tx[f].row.asgn /\ Covers(tx[f].row)
  <2>1. tx'[f].covered = IF Covers(tx[f].row) THEN tx[f].covered \cup {tx[f].row.asgn} ELSE tx[f].covered
    BY WriteValues
  <2>2. QED
    BY <2>1
<1>7. \A a : a \in tx'[f].births <=> \/ a \in tx[f].births
                                     \/ a = tx[f].row.awb /\ shpt[a] = "NONE"
  <2>1. tx'[f].births = IF shpt[tx[f].row.awb] = "NONE"
                        THEN tx[f].births \cup {tx[f].row.awb} ELSE tx[f].births
    BY WriteValues
  <2>2. QED
    BY <2>1
<1>8. \A a : a \in tx'[f].joined <=>
        \/ a \in tx[f].joined
        \/ a = tx[f].row.awb /\ tx[f].row.unit # None /\ a \in tx'[f].births
  <2>1. tx'[f].births = IF shpt[tx[f].row.awb] = "NONE"
                        THEN tx[f].births \cup {tx[f].row.awb} ELSE tx[f].births
    BY WriteValues
  <2>2. tx'[f].joined = IF tx[f].row.unit # None /\ tx[f].row.awb \in tx'[f].births
                        THEN tx[f].joined \cup {tx[f].row.awb} ELSE tx[f].joined
    BY <2>1, WriteValues
  <2>3. QED
    BY <2>2
<1>9. QED
  BY <1>1, <1>3, <1>4, <1>5, <1>6, <1>7, <1>8

LEMMA EndValues ==
  ASSUME TypeOK, NEW f \in Files, CommitSheet(f) \/ AbortSheet(f)
  PROVE  /\ \A g \in Files \ {f} : tx'[g] = tx[g]
         /\ tx[f].phase = "open"
         /\ CommitSheet(f) => tx'[f].phase = "done"
         /\ tx'[f].phase \in {"new", "done"}
         /\ tx'[f].row = None /\ tx'[f].rows = 0
         /\ tx'[f].births = {} /\ tx'[f].joined = {} /\ tx'[f].pairs = {}
         /\ tx'[f].links = {} /\ tx'[f].covered = {}
<1>1. CASE CommitSheet(f)
  <2>1. tx' = [tx EXCEPT ![f] = [NewSheet EXCEPT !.phase = "done"]] /\ tx[f].phase = "open"
    BY <1>1 DEF CommitSheet
  <2>2. QED
    BY <2>1 DEF TypeOK, NewSheet
<1>2. CASE AbortSheet(f) /\ ~CommitSheet(f)
  <2>1. tx' = [tx EXCEPT ![f] = NewSheet] /\ tx[f].phase = "open"
    BY <1>2 DEF AbortSheet
  <2>2. QED
    BY <1>2, <2>1 DEF TypeOK, NewSheet
<1>3. QED
  BY <1>1, <1>2

(* What a commit makes of the rows of its sheet.                           *)
LEMMA CommitValues ==
  ASSUME TypeOK, Held, NEW f \in Files, CommitSheet(f)
  PROVE  /\ \A p \in tx[f].pairs : asgnOf'[p.unit] = p.asgn /\ shptOf'[p.unit] = p.awb
         /\ \A u \in Units : (\A p \in tx[f].pairs : p.unit # u) =>
               asgnOf'[u] = asgnOf[u] /\ shptOf'[u] = shptOf[u]
         /\ \A l \in tx[f].links : link'[l.asgn] = l.awb
         /\ \A d \in Dispatches : (\A l \in tx[f].links : l.asgn # d) => link'[d] = link[d]
<1>1. ASSUME NEW p \in tx[f].pairs PROVE asgnOf'[p.unit] = p.asgn /\ shptOf'[p.unit] = p.awb
  <2>1. p.unit \in Units /\ tx[f].pairs \subseteq Pair
    BY SheetType DEF Pair
  <2>2. \A q \in tx[f].pairs : q.unit = p.unit => q = p
    BY DEF Held
  <2>3. (CHOOSE q \in tx[f].pairs : q.unit = p.unit) = p
    BY <2>2
  <2>4. QED
    BY <2>1, <2>3 DEF CommitSheet
<1>2. ASSUME NEW l \in tx[f].links PROVE link'[l.asgn] = l.awb
  <2>1. l.asgn \in Dispatches
    BY SheetType DEF Link
  <2>2. (CHOOSE k \in tx[f].links : k.asgn = l.asgn) = l
    BY DEF Held
  <2>3. QED
    BY <2>1, <2>2 DEF CommitSheet
<1>3. ASSUME NEW u \in Units, \A p \in tx[f].pairs : p.unit # u
      PROVE  asgnOf'[u] = asgnOf[u] /\ shptOf'[u] = shptOf[u]
  BY <1>3 DEF CommitSheet
<1>4. ASSUME NEW d \in Dispatches, \A l \in tx[f].links : l.asgn # d PROVE link'[d] = link[d]
  BY <1>4 DEF CommitSheet
<1>5. QED
  BY <1>1, <1>2, <1>3, <1>4

-----------------------------------------------------------------------------
(* Types.                                                                  *)

SheetRecord == [phase : {"new", "open", "done"}, row : Row \cup {None}, rows : 0..MaxRows,
                births : SUBSET Awbs, joined : SUBSET Awbs, pairs : SUBSET Pair,
                links : SUBSET Link, covered : SUBSET Dispatches]

LEMMA TypeInit == Init => TypeOK
<1> SUFFICES ASSUME Init PROVE TypeOK
  OBVIOUS
<1>1. tx \in [Files -> SheetRecord]
  <2>1. NewSheet \in SheetRecord
    BY DEF NewSheet, SheetRecord
  <2>2. QED
    BY <2>1 DEF Init
<1>2. told \in [Dispatches -> [DISPATCH_STATES -> 0..2]]
  BY DEF Init
<1>3. dispatchState \in [Dispatches -> DISPATCH_STATES \cup {"NULL"}] /\ link \in [Dispatches -> Awbs \cup {None}]
  BY DEF Init
<1>4. asgnOf \in [Units -> Dispatches \cup {None}] /\ shptOf \in [Units -> Awbs \cup {None}]
  BY DEF Init
<1>5. shpt \in [Awbs -> ShptStatuses \cup {"NONE"}]
  BY DEF Init
<1>6. batch \in BATCH_STATUSES /\ bound \in BOOLEAN /\ closing \in BOOLEAN /\ overlap \in BOOLEAN
  BY DEF Init, BATCH_STATUSES
<1>7. damaged = {} /\ shptTold = {} /\ linkTold = {} /\ early = {} /\ corrected = {} /\ corrections = 0
  BY DEF Init
<1>8. QED
  BY <1>1, <1>2, <1>3, <1>4, <1>5, <1>6, <1>7 DEF TypeOK, SheetRecord

LEMMA TellType ==
  ASSUME TypeOK, NEW ds, NEW s \in DISPATCH_STATES, Tell(ds, s)
  PROVE  told' \in [Dispatches -> [DISPATCH_STATES -> 0..2]]
<1>1. \A n \in 0..2 : Twice(n) \in 0..2
  BY DEF Twice
<1>2. ASSUME NEW d \in Dispatches
      PROVE  (IF d \in ds THEN [told[d] EXCEPT ![s] = Twice(@)] ELSE told[d]) \in [DISPATCH_STATES -> 0..2]
  <2>1. told[d] \in [DISPATCH_STATES -> 0..2]
    BY DEF TypeOK
  <2>2. Twice(told[d][s]) \in 0..2
    BY <1>1, <2>1
  <2>3. QED
    BY <2>1, <2>2
<1>3. QED
  BY <1>2 DEF Tell

LEMMA SheetStepType ==
  ASSUME TypeOK, NEW f \in Files, tx' \in [Files -> SheetRecord],
         UNCHANGED <<entryVars, batchVars, unitVars, damaged, shpt, factVars, corrections, early, corrected>>,
         overlap' \in BOOLEAN
  PROVE  TypeOK'
BY DEF TypeOK, SheetRecord, entryVars, batchVars, unitVars, factVars

LEMMA TypeStep == TypeOK /\ [Next]_vars => TypeOK'
<1> SUFFICES ASSUME TypeOK, [Next]_vars PROVE TypeOK'
  OBVIOUS
<1>1. CASE UNCHANGED vars
  BY <1>1 DEF TypeOK, vars, entryVars, batchVars, unitVars, factVars, history
<1>2. CASE Compose
  <2>1. told' \in [Dispatches -> [DISPATCH_STATES -> 0..2]]
    BY <1>2, TellType DEF Compose, DISPATCH_STATES
  <2>2. dispatchState' \in [Dispatches -> DISPATCH_STATES \cup {"NULL"}]
    BY <1>2 DEF Compose, DISPATCH_STATES
  <2>3. QED
    BY <1>2, <2>1, <2>2 DEF Compose, TypeOK, batchVars, unitVars, history
<1>3. CASE SendBatchToVendor
  <2>1. told' \in [Dispatches -> [DISPATCH_STATES -> 0..2]]
    BY <1>3, TellType DEF SendBatchToVendor, DISPATCH_STATES
  <2>2. dispatchState' \in [Dispatches -> DISPATCH_STATES \cup {"NULL"}]
    BY <1>3 DEF SendBatchToVendor, DISPATCH_STATES, TypeOK
  <2>3. batch' \in BATCH_STATUSES /\ bound' \in BOOLEAN
    BY <1>3 DEF SendBatchToVendor, BATCH_STATUSES
  <2>4. QED
    BY <1>3, <2>1, <2>2, <2>3 DEF SendBatchToVendor, TypeOK, unitVars, history
<1>4. ASSUME NEW d \in Dispatches, NEW s \in DISPATCH_STATES, CorrectDispatchState(d, s) PROVE TypeOK'
  <2>1. told' \in [Dispatches -> [DISPATCH_STATES -> 0..2]]
    BY <1>4, TellType DEF CorrectDispatchState
  <2>2. dispatchState' \in [Dispatches -> DISPATCH_STATES \cup {"NULL"}]
    BY <1>4 DEF CorrectDispatchState, TypeOK
  <2>3. corrections' \in 0..MaxCorrections /\ corrected' \subseteq Dispatches
    BY <1>4 DEF CorrectDispatchState, TypeOK
  <2>4. QED
    BY <1>4, <2>1, <2>2, <2>3 DEF CorrectDispatchState, TypeOK, batchVars, unitVars
<1>5. ASSUME NEW f \in Files, OpenSheet(f) PROVE TypeOK'
  <2>1. tx' \in [Files -> SheetRecord]
    <3>1. tx \in [Files -> SheetRecord]
      BY DEF TypeOK, SheetRecord
    <3>2. [tx[f] EXCEPT !.phase = "open"] \in SheetRecord
      BY <3>1 DEF SheetRecord
    <3>3. tx' = [tx EXCEPT ![f] = [tx[f] EXCEPT !.phase = "open"]]
      BY <1>5, <3>1 DEF OpenSheet
    <3>4. QED
      BY <3>1, <3>2, <3>3
  <2>2. overlap' \in BOOLEAN
    BY <1>5 DEF OpenSheet, TypeOK
  <2>3. QED
    BY <1>5, <2>1, <2>2, SheetStepType DEF OpenSheet
<1>6. ASSUME NEW f \in Files, NEW r \in Row, ReadRow(f, r) PROVE TypeOK'
  <2>1. tx[f].rows + 1 \in 0..MaxRows
    BY <1>6, SheetType DEF ReadRow
  <2>2. tx' \in [Files -> SheetRecord]
    <3>1. tx \in [Files -> SheetRecord]
      BY DEF TypeOK, SheetRecord
    <3>2. [tx[f] EXCEPT !.row = r, !.rows = @ + 1] \in SheetRecord
      BY <2>1, <3>1 DEF SheetRecord
    <3>3. tx' = [tx EXCEPT ![f] = [tx[f] EXCEPT !.row = r, !.rows = @ + 1]]
      BY <1>6, <3>1 DEF ReadRow
    <3>4. QED
      BY <3>1, <3>2, <3>3
  <2>3. QED
    BY <1>6, <2>2, SheetStepType DEF ReadRow, history, TypeOK
<1>7. ASSUME NEW f \in Files, WriteRow(f) PROVE TypeOK'
  <2> DEFINE r == tx[f].row
             births == IF shpt[r.awb] = "NONE" THEN tx[f].births \cup {r.awb} ELSE tx[f].births
             fresh == ~KeyTaken(f, r)
             j == IF r.unit # None /\ r.awb \in births THEN tx[f].joined \cup {r.awb} ELSE tx[f].joined
             p == IF r.unit # None /\ fresh THEN tx[f].pairs \cup {r} ELSE tx[f].pairs
             l == IF r.unit = None /\ fresh
                  THEN tx[f].links \cup {[asgn |-> r.asgn, awb |-> r.awb]} ELSE tx[f].links
             c == IF Covers(r) THEN tx[f].covered \cup {r.asgn} ELSE tx[f].covered
  <2>1. tx' = [tx EXCEPT ![f].row = None, ![f].births = births, ![f].joined = j,
                         ![f].pairs = p, ![f].links = l, ![f].covered = c]
    BY <1>7 DEF WriteRow
  <2>2. r \in Row
    BY <1>7, WriteValues
  <2>3. births \subseteq Awbs /\ j \subseteq Awbs
    BY <2>2, SheetType DEF Row
  <2>4. p \subseteq Pair
    BY <2>2, SheetType DEF Row, Pair
  <2>5. l \subseteq Link
    BY <2>2, SheetType DEF Row, Link
  <2>6. c \subseteq Dispatches
    BY <2>2, SheetType DEF Row
  <2> HIDE DEF births, fresh, j, p, l, c
  <2>7. tx' \in [Files -> SheetRecord]
    <3>1. tx \in [Files -> SheetRecord]
      BY DEF TypeOK, SheetRecord
    <3>2. [tx[f] EXCEPT !.row = None, !.births = births, !.joined = j,
                        !.pairs = p, !.links = l, !.covered = c] \in SheetRecord
      BY <2>3, <2>4, <2>5, <2>6, <3>1 DEF SheetRecord
    <3>3. tx' = [tx EXCEPT ![f] = [tx[f] EXCEPT !.row = None, !.births = births, !.joined = j,
                                               !.pairs = p, !.links = l, !.covered = c]]
      BY <2>1, <3>1
    <3>4. QED
      BY <3>1, <3>2, <3>3
  <2>8. QED
    BY <1>7, <2>7, SheetStepType DEF WriteRow, history, TypeOK
<1>8. ASSUME NEW f \in Files, CommitSheet(f) PROVE TypeOK'
  <2>1. tx' \in [Files -> SheetRecord]
    <3>1. [NewSheet EXCEPT !.phase = "done"] \in SheetRecord
      BY DEF NewSheet, SheetRecord
    <3>2. QED
      BY <1>8, <3>1 DEF CommitSheet, TypeOK, SheetRecord
  <2>2. told' \in [Dispatches -> [DISPATCH_STATES -> 0..2]]
    BY <1>8, TellType DEF CommitSheet, DISPATCH_STATES
  <2>3. dispatchState' \in [Dispatches -> DISPATCH_STATES \cup {"NULL"}]
    BY <1>8 DEF CommitSheet, DISPATCH_STATES, TypeOK
  <2>4. link' \in [Dispatches -> Awbs \cup {None}]
    <3>1. tx[f].links \subseteq Link
      BY SheetType
    <3>2. ASSUME NEW d \in Dispatches, \E l \in tx[f].links : l.asgn = d
          PROVE  (CHOOSE l \in tx[f].links : l.asgn = d).awb \in Awbs
      BY <3>1, <3>2 DEF Link
    <3>3. QED
      BY <1>8, <3>2 DEF CommitSheet, TypeOK
  <2>5. asgnOf' \in [Units -> Dispatches \cup {None}] /\ shptOf' \in [Units -> Awbs \cup {None}]
    <3>1. tx[f].pairs \subseteq Pair
      BY SheetType
    <3>2. ASSUME NEW u \in Units, \E p \in tx[f].pairs : p.unit = u
          PROVE  (CHOOSE p \in tx[f].pairs : p.unit = u) \in Pair
      BY <3>1, <3>2
    <3>3. asgnOf' = [u \in Units |->
             IF \E p \in tx[f].pairs : p.unit = u THEN (CHOOSE p \in tx[f].pairs : p.unit = u).asgn ELSE asgnOf[u]]
      BY <1>8 DEF CommitSheet
    <3>4. shptOf' = [u \in Units |->
             IF \E p \in tx[f].pairs : p.unit = u THEN (CHOOSE p \in tx[f].pairs : p.unit = u).awb ELSE shptOf[u]]
      BY <1>8 DEF CommitSheet
    <3>5. QED
      BY <3>2, <3>3, <3>4 DEF TypeOK, Pair
  <2>6. shpt' \in [Awbs -> ShptStatuses \cup {"NONE"}]
    BY <1>8 DEF CommitSheet, TypeOK, ShptStatuses
  <2>7. shptTold' \subseteq Awbs /\ early' \subseteq Dispatches
    BY <1>8, SheetType DEF CommitSheet, TypeOK
  <2>8. linkTold' \subseteq [asgn : Dispatches, awb : Awbs, file : Files]
    BY <1>8, SheetType DEF CommitSheet, TypeOK, Link
  <2>9. QED
    BY <1>8, <2>1, <2>2, <2>3, <2>4, <2>5, <2>6, <2>7, <2>8 DEF CommitSheet, TypeOK, SheetRecord, batchVars
<1>9. ASSUME NEW f \in Files, AbortSheet(f) PROVE TypeOK'
  <2>1. NewSheet \in SheetRecord
    BY DEF NewSheet, SheetRecord
  <2>2. tx' \in [Files -> SheetRecord]
    BY <1>9, <2>1 DEF AbortSheet, TypeOK, SheetRecord
  <2>3. QED
    BY <1>9, <2>2, SheetStepType DEF AbortSheet, history, TypeOK
<1>10. ASSUME NEW a \in Awbs, NEW s \in TERMINAL_SHIPMENT_STATUSES, SettleShpt(a, s) PROVE TypeOK'
  BY <1>10 DEF SettleShpt, TypeOK, ShptStatuses, entryVars, batchVars, unitVars, factVars, history
<1>11. ASSUME NEW u \in Units, FlagDamage(u) \/ CancelDamage(u) PROVE TypeOK'
  BY <1>11 DEF FlagDamage, CancelDamage, TypeOK, entryVars, batchVars, unitVars, factVars, history
<1>12. CASE CloseRead \/ CloseWrite
  BY <1>12 DEF CloseRead, CloseWrite, TypeOK, BATCH_STATUSES, entryVars, unitVars, factVars, history
<1>13. QED
  BY <1>1, <1>2, <1>3, <1>4, <1>5, <1>6, <1>7, <1>8, <1>9, <1>10, <1>11, <1>12 DEF Next, Sheet

-----------------------------------------------------------------------------
(* Groups, keys, pairs and covers.                                         *)

(* What a sheet leaves alone until it commits.                             *)
LEMMA Uncommitted ==
  ASSUME NEW f \in Files,
         OpenSheet(f) \/ (\E r \in Row : ReadRow(f, r)) \/ WriteRow(f) \/ AbortSheet(f)
  PROVE  UNCHANGED <<link, asgnOf, shptOf, shptTold, linkTold, early, shpt, dispatchState, corrected, damaged>>
BY DEF OpenSheet, ReadRow, WriteRow, AbortSheet, entryVars, unitVars, factVars, history

LEMMA ShapesStep == TypeOK /\ Held /\ Shapes /\ [Next]_vars => Shapes'
<1> SUFFICES ASSUME TypeOK, Held, Shapes, [Next]_vars PROVE Shapes'
  OBVIOUS
<1>1. CASE Quiet
  BY <1>1 DEF Quiet, Shapes, unitVars
<1>2. ASSUME NEW f \in Files, OpenSheet(f) PROVE Shapes'
  <2>1. \A g \in Files : tx'[g].row = tx[g].row /\ tx'[g].pairs = tx[g].pairs /\ tx'[g].links = tx[g].links
    BY <1>2, OpenValues
  <2>2. QED
    BY <1>2, <2>1, Uncommitted DEF Shapes
<1>3. ASSUME NEW f \in Files, NEW r \in Row, ReadRow(f, r) PROVE Shapes'
  <2>1. IF r.unit # None THEN Group[r.asgn] # "COLLATERAL" ELSE Group[r.asgn] # "SOUNDBOX"
    BY <1>3 DEF ReadRow, Accepts
  <2>2. QED
    BY <1>3, <2>1, ReadValues, Uncommitted DEF Shapes
<1>4. ASSUME NEW f \in Files, WriteRow(f) PROVE Shapes'
  <2>1. tx[f].row \in Row /\ tx[f].row # None
    BY <1>4, WriteValues DEF WriteRow
  <2>2. IF tx[f].row.unit # None THEN Group[tx[f].row.asgn] # "COLLATERAL"
                                 ELSE Group[tx[f].row.asgn] # "SOUNDBOX"
    BY <2>1 DEF Shapes
  <2>3. \A p \in tx'[f].pairs : Group[p.asgn] # "COLLATERAL"
    BY <1>4, <2>2, WriteParts DEF Shapes
  <2>4. \A l \in tx'[f].links : Group[l.asgn] # "SOUNDBOX"
    BY <1>4, <2>2, WriteParts DEF Shapes
  <2>5. tx'[f].row = None /\ \A g \in Files \ {f} : tx'[g] = tx[g]
    BY <1>4, WriteValues
  <2>6. QED
    BY <1>4, <2>3, <2>4, <2>5, Uncommitted DEF Shapes
<1>5. ASSUME NEW f \in Files, CommitSheet(f) PROVE Shapes'
  <2>1. ASSUME NEW u \in Units, asgnOf'[u] # None PROVE Group[asgnOf'[u]] # "COLLATERAL"
    <3>1. CASE \E p \in tx[f].pairs : p.unit = u
      BY <1>5, <3>1, CommitValues DEF Shapes
    <3>2. CASE \A p \in tx[f].pairs : p.unit # u
      BY <1>5, <2>1, <3>2, CommitValues DEF Shapes
    <3>3. QED
      BY <3>1, <3>2
  <2>2. ASSUME NEW d \in Dispatches, link'[d] # None PROVE Group[d] # "SOUNDBOX"
    <3>1. CASE \E l \in tx[f].links : l.asgn = d
      BY <3>1 DEF Shapes
    <3>2. CASE \A l \in tx[f].links : l.asgn # d
      BY <1>5, <2>2, <3>2, CommitValues DEF Shapes
    <3>3. QED
      BY <3>1, <3>2
  <2>3. QED
    BY <1>5, <2>1, <2>2, EndValues DEF Shapes
<1>6. ASSUME NEW f \in Files, AbortSheet(f) PROVE Shapes'
  BY <1>6, EndValues, Uncommitted DEF Shapes
<1>7. QED
  BY <1>1, <1>2, <1>3, <1>4, <1>5, <1>6, NextCases

LEMMA HeldStep == TypeOK /\ Held /\ [Next]_vars => Held'
<1> SUFFICES ASSUME TypeOK, Held, [Next]_vars PROVE Held'
  OBVIOUS
<1>1. CASE Quiet
  BY <1>1 DEF Quiet, Held, unitVars
<1>2. ASSUME NEW f \in Files, OpenSheet(f) PROVE Held'
  <2>1. tx[f].phase = "new"
    BY <1>2 DEF OpenSheet
  <2>2. \A g \in Files : /\ tx'[g].row = tx[g].row /\ tx'[g].pairs = tx[g].pairs /\ tx'[g].links = tx[g].links
                         /\ tx'[g].births = tx[g].births /\ tx'[g].joined = tx[g].joined
                         /\ tx'[g].covered = tx[g].covered
    BY <1>2, OpenValues
  <2>3. \A g \in Files : /\ tx'[g].phase # "open" => tx[g].phase # "open"
                         /\ tx'[g].phase # "done" => tx[g].phase # "done"
    <3>1. tx'[f].phase = "open" /\ \A g \in Files \ {f} : tx'[g] = tx[g]
      BY <1>2, OpenValues
    <3>2. QED
      BY <2>1, <3>1
  <2>4. UNCHANGED <<link, shptOf, linkTold>>
    BY <1>2, Uncommitted
  <2>5. QED
    BY <2>2, <2>3, <2>4 DEF Held
<1>3. ASSUME NEW f \in Files, NEW r \in Row, ReadRow(f, r) PROVE Held'
  BY <1>3, ReadValues, Uncommitted DEF Held
<1>4. ASSUME NEW f \in Files, WriteRow(f) PROVE Held'
  <2> DEFINE r == tx[f].row
  <2>1. r \in Row /\ ~Waits(f, r) /\ r # None
    BY <1>4, WriteValues DEF WriteRow
  <2>2. tx[f].phase = "open"
    BY <2>1 DEF Held
  <2>3. \A g \in Files \ {f} : tx'[g] = tx[g]
    BY <1>4, WriteValues
  <2>4. UNCHANGED <<link, asgnOf, shptOf, linkTold>>
    BY <1>4, Uncommitted
  <2>5. \A p \in tx'[f].pairs : p \in tx[f].pairs \/ (p = r /\ r.unit # None /\ ~SeesPaired(f, r.unit))
    BY <1>4, WriteParts
  <2>6. \A l \in tx'[f].links : l \in tx[f].links
           \/ (l = [asgn |-> r.asgn, awb |-> r.awb] /\ r.unit = None /\ ~SeesLink(f, r.asgn))
    BY <1>4, WriteParts
  <2>7. /\ \A p \in tx'[f].pairs : shptOf[p.unit] = None
        /\ \A p, q \in tx'[f].pairs : p.unit = q.unit => p = q
    BY <2>5 DEF Held, SeesPaired
  <2>8. /\ \A l \in tx'[f].links : link[l.asgn] = None
        /\ \A l, k \in tx'[f].links : l.asgn = k.asgn => l = k
    BY <2>6 DEF Held, SeesLink
  <2>9. \A g \in Files \ {f} : \A p \in tx'[f].pairs, q \in tx[g].pairs : p.unit # q.unit
    BY <2>1, <2>5 DEF Held, Waits
  <2>10. \A g \in Files \ {f} : \A l \in tx'[f].links, k \in tx[g].links : l.asgn # k.asgn
    BY <2>1, <2>6 DEF Held, Waits
  <2>11. tx'[f].phase = "open"
    BY <1>4, <2>2, WriteValues
  <2>12. \A l \in linkTold : l.file # f
    BY <2>2 DEF Held
  <2> HIDE DEF r
  <2>13. QED
    BY <2>3, <2>4, <2>7, <2>8, <2>9, <2>10, <2>11, <2>12 DEF Held
<1>5. ASSUME NEW f \in Files, CommitSheet(f) PROVE Held'
  <2>1. /\ \A g \in Files \ {f} : tx'[g] = tx[g]
        /\ tx'[f].phase = "done" /\ tx'[f].row = None /\ tx'[f].births = {} /\ tx'[f].joined = {}
        /\ tx'[f].pairs = {} /\ tx'[f].links = {} /\ tx'[f].covered = {}
    BY <1>5, EndValues
  <2>2. \A g \in Files \ {f} : \A p \in tx[g].pairs : shptOf'[p.unit] = None
    <3>1. ASSUME NEW g \in Files \ {f}, NEW p \in tx[g].pairs PROVE shptOf'[p.unit] = None
      <4>1. p.unit \in Units
        BY SheetType DEF Pair
      <4>2. \A q \in tx[f].pairs : q.unit # p.unit
        BY DEF Held
      <4>3. QED
        BY <1>5, <4>1, <4>2, CommitValues DEF Held
    <3>2. QED
      BY <3>1
  <2>3. \A g \in Files \ {f} : \A l \in tx[g].links : link'[l.asgn] = None
    <3>1. ASSUME NEW g \in Files \ {f}, NEW l \in tx[g].links PROVE link'[l.asgn] = None
      <4>1. l.asgn \in Dispatches
        BY SheetType DEF Link
      <4>2. \A k \in tx[f].links : k.asgn # l.asgn
        BY DEF Held
      <4>3. QED
        BY <1>5, <4>1, <4>2, CommitValues DEF Held
    <3>2. QED
      BY <3>1
  <2>4. \A l \in linkTold' : l \in linkTold \/ l.file = f
    BY <1>5 DEF CommitSheet
  <2>5. QED
    BY <2>1, <2>2, <2>3, <2>4 DEF Held
<1>6. ASSUME NEW f \in Files, AbortSheet(f) PROVE Held'
  <2>1. tx[f].phase = "open"
    BY <1>6, EndValues
  <2>2. QED
    BY <1>6, <2>1, EndValues, Uncommitted DEF Held
<1>7. QED
  BY <1>1, <1>2, <1>3, <1>4, <1>5, <1>6, NextCases

(* A pairing or a link, once committed, is final.                          *)
LEMMA Keeps ==
  ASSUME TypeOK, Held, Paired, [Next]_vars
  PROVE  /\ \A u \in Units : asgnOf[u] # None => asgnOf'[u] = asgnOf[u] /\ shptOf'[u] = shptOf[u]
         /\ \A d \in Dispatches : link[d] # None => link'[d] = link[d]
<1>1. CASE Quiet
  BY <1>1 DEF Quiet, unitVars
<1>2. ASSUME NEW f \in Files,
             OpenSheet(f) \/ (\E r \in Row : ReadRow(f, r)) \/ WriteRow(f) \/ AbortSheet(f)
      PROVE  UNCHANGED <<asgnOf, shptOf, link>>
  BY <1>2, Uncommitted
<1>3. ASSUME NEW f \in Files, CommitSheet(f)
      PROVE  /\ \A u \in Units : asgnOf[u] # None => asgnOf'[u] = asgnOf[u] /\ shptOf'[u] = shptOf[u]
             /\ \A d \in Dispatches : link[d] # None => link'[d] = link[d]
  <2>1. \A u \in Units : asgnOf[u] # None => \A p \in tx[f].pairs : p.unit # u
    BY DEF Held, Paired
  <2>2. \A d \in Dispatches : link[d] # None => \A l \in tx[f].links : l.asgn # d
    BY DEF Held
  <2>3. QED
    BY <1>3, <2>1, <2>2, CommitValues
<1>4. QED
  BY <1>1, <1>2, <1>3, NextCases

LEMMA PairedStep == TypeOK /\ Held /\ Paired /\ [Next]_vars => Paired'
<1> SUFFICES ASSUME TypeOK, Held, Paired, [Next]_vars PROVE Paired'
  OBVIOUS
<1>1. \A u \in damaged' : u \in damaged \/ (u \in Units /\ shptOf[u] # None)
  BY Writers DEF FlagDamage, CancelDamage
<1>2. \A u \in damaged' : u \in Units /\ shptOf[u] # None
  BY <1>1 DEF TypeOK, Paired
<1>3. \A u \in damaged' : shptOf'[u] # None
  BY <1>2, Keeps DEF Paired
<1>4. \A u \in Units : asgnOf'[u] = None <=> shptOf'[u] = None
  <2>1. CASE Quiet
    BY <2>1 DEF Quiet, Paired, unitVars
  <2>2. ASSUME NEW f \in Files,
               OpenSheet(f) \/ (\E r \in Row : ReadRow(f, r)) \/ WriteRow(f) \/ AbortSheet(f)
        PROVE  UNCHANGED <<asgnOf, shptOf>>
    BY <2>2, Uncommitted
  <2>3. ASSUME NEW f \in Files, CommitSheet(f), NEW u \in Units
        PROVE  asgnOf'[u] = None <=> shptOf'[u] = None
    <3>1. CASE \A p \in tx[f].pairs : p.unit # u
      BY <2>3, <3>1, CommitValues DEF Paired
    <3>2. ASSUME NEW p \in tx[f].pairs, p.unit = u PROVE asgnOf'[u] # None /\ shptOf'[u] # None
      <4>1. p.asgn \in Dispatches /\ p.awb \in Awbs
        BY SheetType DEF Pair
      <4>2. QED
        BY <2>3, <3>2, <4>1, CommitValues
    <3>3. QED
      BY <3>1, <3>2
  <2>4. QED
    BY <2>1, <2>2, <2>3, NextCases DEF Paired
<1>5. QED
  BY <1>3, <1>4 DEF Paired

LEMMA ReportsStep == TypeOK /\ Reports /\ [Next]_vars => Reports'
<1> SUFFICES ASSUME TypeOK, Reports, [Next]_vars PROVE Reports'
  OBVIOUS
<1>1. CASE Quiet
  BY <1>1 DEF Quiet, Reports
<1>2. ASSUME NEW f \in Files, OpenSheet(f) PROVE Reports'
  <2>1. \A g \in Files : /\ tx'[g].pairs = tx[g].pairs /\ tx'[g].links = tx[g].links
                         /\ tx'[g].covered = tx[g].covered
    BY <1>2, OpenValues
  <2>2. QED
    BY <2>1 DEF Reports
<1>3. ASSUME NEW f \in Files, NEW r \in Row, ReadRow(f, r) PROVE Reports'
  <2>1. \A g \in Files : /\ tx'[g].pairs = tx[g].pairs /\ tx'[g].links = tx[g].links
                         /\ tx'[g].covered = tx[g].covered
    BY <1>3, ReadValues
  <2>2. QED
    BY <2>1 DEF Reports
<1>4. ASSUME NEW f \in Files, WriteRow(f) PROVE Reports'
  <2>1. \A g \in Files \ {f} : tx'[g] = tx[g]
    BY <1>4, WriteValues
  <2>2. \A p \in tx'[f].pairs : p.asgn \in tx'[f].covered
    BY <1>4, WriteParts DEF Reports, Covers
  <2>3. \A l \in tx'[f].links : Group[l.asgn] = "COLLATERAL" => l.asgn \in tx'[f].covered
    BY <1>4, WriteParts DEF Reports, Covers
  <2>4. QED
    BY <2>1, <2>2, <2>3 DEF Reports
<1>5. ASSUME NEW f \in Files, CommitSheet(f) \/ AbortSheet(f) PROVE Reports'
  BY <1>5, EndValues DEF Reports
<1>6. QED
  BY <1>1, <1>2, <1>3, <1>4, <1>5, NextCases

-----------------------------------------------------------------------------
(* The states of the dispatches and what was told of them.                 *)

LEMMA Ranks ==
  /\ DISPATCH_STATE_RANK["NULL"] = 0 /\ DISPATCH_STATE_RANK["QR_GENERATED"] = 1
  /\ DISPATCH_STATE_RANK["SENT_TO_VENDOR"] = 2 /\ DISPATCH_STATE_RANK["DISPATCHED_BY_VENDOR"] = 3
BY DEF DISPATCH_STATE_RANK, DISPATCH_STATES

LEMMA TellOnce ==
  ASSUME TypeOK, ToldOnce, NEW ds \in SUBSET Dispatches, NEW s \in DISPATCH_STATES, Tell(ds, s),
         \A d \in ds : DISPATCH_STATE_RANK[dispatchState[d]] < DISPATCH_STATE_RANK[s],
         dispatchState' = [d \in Dispatches |-> IF d \in ds THEN s ELSE dispatchState[d]]
  PROVE  ToldOnce'
<1> SUFFICES ASSUME NEW d \in Dispatches
             PROVE  /\ \A t \in DISPATCH_STATES : told'[d][t] <= 1
                    /\ dispatchState'[d] # "NULL" => told'[d][dispatchState'[d]] = 1
                    /\ \A t \in DISPATCH_STATES : told'[d][t] = 1 =>
                          DISPATCH_STATE_RANK[t] <= DISPATCH_STATE_RANK[dispatchState'[d]]
  BY DEF ToldOnce
<1>1. CASE d \notin ds
  <2>1. told'[d] = told[d] /\ dispatchState'[d] = dispatchState[d]
    BY <1>1 DEF Tell
  <2>2. QED
    BY <2>1 DEF ToldOnce
<1>2. CASE d \in ds
  <2>1. told[d] \in [DISPATCH_STATES -> 0..2] /\ dispatchState[d] \in DISPATCH_STATES \cup {"NULL"}
    BY DEF TypeOK
  <2>2. told'[d] = [told[d] EXCEPT ![s] = Twice(@)] /\ dispatchState'[d] = s /\ s # "NULL"
    BY <1>2 DEF Tell, DISPATCH_STATES
  <2>3. DISPATCH_STATE_RANK[dispatchState[d]] < DISPATCH_STATE_RANK[s]
    BY <1>2
  <2>4. \A t \in DISPATCH_STATES \cup {"NULL"} : DISPATCH_STATE_RANK[t] \in 0..3
    BY Ranks DEF DISPATCH_STATES
  <2>5. told[d][s] = 0
    <3>1. told[d][s] <= 1 /\ told[d][s] # 1
      BY <2>3, <2>4, <2>1 DEF ToldOnce
    <3>2. QED
      BY <2>1, <3>1
  <2>6. told'[d][s] = 1 /\ \A t \in DISPATCH_STATES \ {s} : told'[d][t] = told[d][t]
    BY <2>1, <2>2, <2>5 DEF Twice
  <2>7. \A t \in DISPATCH_STATES \ {s} : told[d][t] = 1 => DISPATCH_STATE_RANK[t] <= DISPATCH_STATE_RANK[s]
    BY <2>1, <2>3, <2>4 DEF ToldOnce
  <2>8. QED
    BY <2>2, <2>4, <2>6, <2>7 DEF ToldOnce
<1>3. QED
  BY <1>1, <1>2

(* The four writers of dispatch_state, and that there is no other.         *)
LEMMA StateCases ==
  ASSUME TypeOK, [Next]_vars
  PROVE  \/ UNCHANGED <<dispatchState, told>>
         \/ \E ds \in SUBSET Dispatches, s \in DISPATCH_STATES :
              /\ Tell(ds, s)
              /\ dispatchState' = [d \in Dispatches |-> IF d \in ds THEN s ELSE dispatchState[d]]
              /\ \A d \in ds : /\ DISPATCH_STATE_RANK[dispatchState[d]] < DISPATCH_STATE_RANK[s]
                               /\ \/ corrections' # corrections
                                  \/ DISPATCH_STATE_RANK[s] = DISPATCH_STATE_RANK[dispatchState[d]] + 1
<1>1. CASE Compose
  <2>1. dispatchState' = [d \in Dispatches |-> IF d \in Dispatches THEN "QR_GENERATED" ELSE dispatchState[d]]
    BY <1>1 DEF Compose
  <2>2. Tell(Dispatches, "QR_GENERATED") /\ \A d \in Dispatches : dispatchState[d] = "NULL"
    BY <1>1 DEF Compose
  <2>3. "QR_GENERATED" \in DISPATCH_STATES /\ Dispatches \in SUBSET Dispatches
    BY DEF DISPATCH_STATES
  <2>4. QED
    BY <2>1, <2>2, <2>3, Ranks
<1>2. CASE SendBatchToVendor
  <2> DEFINE sent == {d \in Dispatches : dispatchState[d] = "QR_GENERATED"}
  <2>1. /\ dispatchState' = [d \in Dispatches |-> IF d \in sent THEN "SENT_TO_VENDOR" ELSE dispatchState[d]]
        /\ Tell(sent, "SENT_TO_VENDOR")
    BY <1>2 DEF SendBatchToVendor
  <2>2. "SENT_TO_VENDOR" \in DISPATCH_STATES /\ sent \in SUBSET Dispatches
    BY DEF DISPATCH_STATES
  <2>3. \A d \in sent : dispatchState[d] = "QR_GENERATED"
    OBVIOUS
  <2> HIDE DEF sent
  <2>4. QED
    BY <2>1, <2>2, <2>3, Ranks
<1>3. ASSUME NEW c \in Dispatches, NEW s \in DISPATCH_STATES, CorrectDispatchState(c, s)
      PROVE  \E ds \in SUBSET Dispatches, t \in DISPATCH_STATES :
              /\ Tell(ds, t)
              /\ dispatchState' = [d \in Dispatches |-> IF d \in ds THEN t ELSE dispatchState[d]]
              /\ \A d \in ds : /\ DISPATCH_STATE_RANK[dispatchState[d]] < DISPATCH_STATE_RANK[t]
                               /\ \/ corrections' # corrections
                                  \/ DISPATCH_STATE_RANK[t] = DISPATCH_STATE_RANK[dispatchState[d]] + 1
  <2>1. dispatchState' = [d \in Dispatches |-> IF d \in {c} THEN s ELSE dispatchState[d]]
    BY <1>3 DEF CorrectDispatchState, TypeOK
  <2>2. /\ Tell({c}, s) /\ DISPATCH_STATE_RANK[dispatchState[c]] < DISPATCH_STATE_RANK[s]
        /\ corrections' # corrections
    BY <1>3 DEF CorrectDispatchState, TypeOK
  <2>3. {c} \in SUBSET Dispatches
    OBVIOUS
  <2>4. QED
    BY <2>1, <2>2, <2>3
<1>4. ASSUME NEW f \in Files, CommitSheet(f)
      PROVE  \E ds \in SUBSET Dispatches, t \in DISPATCH_STATES :
              /\ Tell(ds, t)
              /\ dispatchState' = [d \in Dispatches |-> IF d \in ds THEN t ELSE dispatchState[d]]
              /\ \A d \in ds : /\ DISPATCH_STATE_RANK[dispatchState[d]] < DISPATCH_STATE_RANK[t]
                               /\ \/ corrections' # corrections
                                  \/ DISPATCH_STATE_RANK[t] = DISPATCH_STATE_RANK[dispatchState[d]] + 1
  <2>1. /\ dispatchState' = [d \in Dispatches |->
              IF d \in Advanced(f) THEN "DISPATCHED_BY_VENDOR" ELSE dispatchState[d]]
        /\ Tell(Advanced(f), "DISPATCHED_BY_VENDOR")
    BY <1>4 DEF CommitSheet
  <2>2. Advanced(f) \in SUBSET Dispatches /\ "DISPATCHED_BY_VENDOR" \in DISPATCH_STATES
    BY SheetType DEF Advanced, DISPATCH_STATES
  <2>3. \A d \in Advanced(f) : dispatchState[d] = "SENT_TO_VENDOR"
    BY DEF Advanced
  <2>4. QED
    BY <2>1, <2>2, <2>3, Ranks
<1>5. ASSUME NEW f \in Files,
             OpenSheet(f) \/ (\E r \in Row : ReadRow(f, r)) \/ WriteRow(f) \/ AbortSheet(f)
      PROVE  UNCHANGED <<dispatchState, told>>
  BY <1>5 DEF OpenSheet, ReadRow, WriteRow, AbortSheet, entryVars, factVars
<1>6. ASSUME NEW a \in Awbs, NEW s \in TERMINAL_SHIPMENT_STATUSES, SettleShpt(a, s)
      PROVE  UNCHANGED <<dispatchState, told>>
  BY <1>6 DEF SettleShpt, entryVars, factVars
<1>7. ASSUME NEW u \in Units, FlagDamage(u) \/ CancelDamage(u) PROVE UNCHANGED <<dispatchState, told>>
  BY <1>7 DEF FlagDamage, CancelDamage, entryVars, factVars
<1>8. CASE CloseRead \/ CloseWrite \/ UNCHANGED vars
  BY <1>8 DEF CloseRead, CloseWrite, vars, entryVars, factVars
<1>9. QED
  BY <1>1, <1>2, <1>3, <1>4, <1>5, <1>6, <1>7, <1>8 DEF Next, Sheet

LEMMA ToldStep == TypeOK /\ ToldOnce /\ [Next]_vars => ToldOnce'
<1> SUFFICES ASSUME TypeOK, ToldOnce, [Next]_vars PROVE ToldOnce'
  OBVIOUS
<1>1. CASE UNCHANGED <<dispatchState, told>>
  BY <1>1 DEF ToldOnce
<1>2. QED
  BY <1>1, StateCases, TellOnce

(* A dispatch that left the vendor has left.                               *)
LEMMA DispatchedStays ==
  ASSUME TypeOK, [Next]_vars, NEW d \in Dispatches, dispatchState[d] = "DISPATCHED_BY_VENDOR"
  PROVE  dispatchState'[d] = "DISPATCHED_BY_VENDOR"
<1>1. \A s \in DISPATCH_STATES : ~(3 < DISPATCH_STATE_RANK[s])
  BY Ranks DEF DISPATCH_STATES
<1>2. QED
  BY <1>1, StateCases, Ranks

-----------------------------------------------------------------------------
(* Links, legs and the close.                                              *)

LEMMA LinkToldStep == TypeOK /\ Held /\ LinkToldOnce /\ [Next]_vars => LinkToldOnce'
<1> SUFFICES ASSUME TypeOK, Held, LinkToldOnce, [Next]_vars PROVE LinkToldOnce'
  OBVIOUS
<1>1. CASE Quiet
  BY <1>1 DEF Quiet, LinkToldOnce
<1>2. ASSUME NEW f \in Files,
             OpenSheet(f) \/ (\E r \in Row : ReadRow(f, r)) \/ WriteRow(f) \/ AbortSheet(f)
      PROVE  LinkToldOnce'
  BY <1>2, Uncommitted DEF LinkToldOnce
<1>3. ASSUME NEW f \in Files, CommitSheet(f) PROVE LinkToldOnce'
  <2>1. linkTold' = linkTold \cup {[asgn |-> l.asgn, awb |-> l.awb, file |-> f] : l \in tx[f].links}
    BY <1>3 DEF CommitSheet
  <2>2. SUFFICES ASSUME NEW d \in Dispatches
                 PROVE  /\ \A l, k \in linkTold' : l.asgn = d /\ k.asgn = d => l = k
                        /\ link'[d] # None <=> \E l \in linkTold' : l.asgn = d
                        /\ \A l \in linkTold' : l.asgn = d => l.awb = link'[d]
    BY DEF LinkToldOnce
  <2>3. CASE \A l \in tx[f].links : l.asgn # d
    <3>1. link'[d] = link[d]
      BY <1>3, <2>3, CommitValues
    <3>2. \A l \in linkTold' : l.asgn = d => l \in linkTold
      BY <2>1, <2>3
    <3>3. QED
      BY <2>1, <3>1, <3>2 DEF LinkToldOnce
  <2>4. ASSUME NEW k \in tx[f].links, k.asgn = d
        PROVE  /\ \A l, m \in linkTold' : l.asgn = d /\ m.asgn = d => l = m
               /\ link'[d] # None <=> \E l \in linkTold' : l.asgn = d
               /\ \A l \in linkTold' : l.asgn = d => l.awb = link'[d]
    <3>1. link'[d] = k.awb /\ k.awb \in Awbs /\ link[d] = None
      BY <1>3, <2>4, CommitValues, SheetType DEF Link, Held
    <3>2. \A l \in linkTold : l.asgn # d
      BY <3>1 DEF LinkToldOnce
    <3>3. \A l \in tx[f].links : l.asgn = d => l = k
      BY <2>4 DEF Held
    <3>4. \A l \in linkTold' : l.asgn = d => l = [asgn |-> k.asgn, awb |-> k.awb, file |-> f]
      BY <2>1, <3>2, <3>3
    <3>5. [asgn |-> k.asgn, awb |-> k.awb, file |-> f] \in linkTold'
      BY <2>1
    <3>6. QED
      BY <2>4, <3>1, <3>4, <3>5
  <2>5. QED
    BY <2>3, <2>4
<1>4. QED
  BY <1>1, <1>2, <1>3, NextCases

LEMMA LegStep == TypeOK /\ Held /\ Paired /\ Reports /\ LegShipped /\ [Next]_vars => LegShipped'
<1> SUFFICES ASSUME TypeOK, Held, Paired, Reports, LegShipped, [Next]_vars, NEW d \in Dispatches \ early'
             PROVE  /\ DevicesOf(d)' # {} => dispatchState'[d] = "DISPATCHED_BY_VENDOR"
                    /\ Group[d] = "COLLATERAL" /\ link'[d] # None => dispatchState'[d] = "DISPATCHED_BY_VENDOR"
  BY DEF LegShipped
<1>1. ASSUME UNCHANGED <<asgnOf, link, early>>
      PROVE  /\ DevicesOf(d)' # {} => dispatchState'[d] = "DISPATCHED_BY_VENDOR"
             /\ Group[d] = "COLLATERAL" /\ link'[d] # None => dispatchState'[d] = "DISPATCHED_BY_VENDOR"
  BY <1>1, DispatchedStays DEF LegShipped, DevicesOf
<1>2. ASSUME NEW f \in Files, CommitSheet(f)
      PROVE  /\ DevicesOf(d)' # {} => dispatchState'[d] = "DISPATCHED_BY_VENDOR"
             /\ Group[d] = "COLLATERAL" /\ link'[d] # None => dispatchState'[d] = "DISPATCHED_BY_VENDOR"
  <2>1. d \notin early
    BY <1>2 DEF CommitSheet
  <2>2. ASSUME d \in tx[f].covered PROVE dispatchState'[d] = "DISPATCHED_BY_VENDOR"
    <3>1. dispatchState[d] \notin {"NULL", "QR_GENERATED"}
      BY <1>2, <2>2 DEF CommitSheet
    <3>2. dispatchState[d] \in {"SENT_TO_VENDOR", "DISPATCHED_BY_VENDOR"}
      BY <3>1 DEF TypeOK, DISPATCH_STATES
    <3>3. QED
      BY <1>2, <2>2, <3>2 DEF CommitSheet, Advanced
  <2>3. ASSUME NEW u \in Units, asgnOf'[u] = d PROVE dispatchState'[d] = "DISPATCHED_BY_VENDOR"
    <3>1. CASE \A p \in tx[f].pairs : p.unit # u
      <4>1. asgnOf[u] = d
        BY <1>2, <2>3, <3>1, CommitValues
      <4>2. QED
        BY <2>1, <4>1, DispatchedStays DEF LegShipped, DevicesOf
    <3>2. ASSUME NEW p \in tx[f].pairs, p.unit = u PROVE d \in tx[f].covered
      BY <1>2, <2>3, <3>2, CommitValues DEF Reports
    <3>3. QED
      BY <2>2, <3>1, <3>2
  <2>4. ASSUME Group[d] = "COLLATERAL", link'[d] # None PROVE dispatchState'[d] = "DISPATCHED_BY_VENDOR"
    <3>1. CASE \A l \in tx[f].links : l.asgn # d
      <4>1. link[d] # None
        BY <1>2, <2>4, <3>1, CommitValues
      <4>2. QED
        BY <2>1, <2>4, <4>1, DispatchedStays DEF LegShipped
    <3>2. ASSUME NEW l \in tx[f].links, l.asgn = d PROVE d \in tx[f].covered
      BY <2>4, <3>2 DEF Reports
    <3>3. QED
      BY <2>2, <3>1, <3>2
  <2>5. QED
    BY <2>3, <2>4 DEF DevicesOf
<1>3. QED
  BY <1>1, <1>2, NextCases, Uncommitted DEF Quiet, unitVars

LEMMA ShptsKept ==
  ASSUME TypeOK, Held, Paired, [Next]_vars, NEW d \in Dispatches, ShptsOf(d) # {}
  PROVE  ShptsOf(d)' # {}
<1>1. PICK a : a \in ShptsOf(d)
  OBVIOUS
<1>2. a # None
  BY <1>1 DEF ShptsOf
<1>3. CASE a = link[d]
  BY <1>2, <1>3, Keeps DEF ShptsOf
<1>4. ASSUME NEW u \in Units, asgnOf[u] = d, a = shptOf[u] PROVE ShptsOf(d)' # {}
  <2>1. asgnOf'[u] = d /\ shptOf'[u] = a
    BY <1>4, Keeps
  <2>2. QED
    BY <1>2, <2>1 DEF ShptsOf
<1>5. QED
  BY <1>1, <1>3, <1>4 DEF ShptsOf

LEMMA CloseStep == TypeOK /\ Held /\ Paired /\ CloseSound /\ [Next]_vars => CloseSound'
<1> SUFFICES ASSUME TypeOK, Held, Paired, CloseSound, [Next]_vars, closing' \/ batch' = "CLOSED",
                    NEW d \in Dispatches
             PROVE  ShptsOf(d)' # {}
  BY DEF CloseSound
<1>1. CASE CloseRead
  <2>1. DispatchSettled(d)
    BY <1>1 DEF CloseRead
  <2>2. ASSUME NEW u \in damaged, asgnOf[u] = d PROVE ShptsOf(d) # {}
    <3>1. u \in Units /\ shptOf[u] # None
      BY DEF TypeOK, Paired
    <3>2. QED
      BY <2>2, <3>1 DEF ShptsOf
  <2>3. QED
    BY <2>1, <2>2, ShptsKept DEF DispatchSettled
<1>2. CASE ~CloseRead
  <2>1. closing' => closing
    BY <1>2, Writers DEF CloseWrite
  <2>2. CASE SendBatchToVendor
    BY <2>1, <2>2, ShptsKept DEF SendBatchToVendor, CloseSound
  <2>3. CASE ~SendBatchToVendor
    <3>1. batch' = "CLOSED" => closing \/ batch = "CLOSED"
      BY <2>3, Writers DEF CloseWrite
    <3>2. QED
      BY <2>1, <3>1, ShptsKept DEF CloseSound
  <2>4. QED
    BY <2>2, <2>3
<1>3. QED
  BY <1>1, <1>2

-----------------------------------------------------------------------------
(* Sheets that never met.                                                  *)

LEMMA OverlapStays == TypeOK /\ [Next]_vars => (overlap => overlap')
BY Writers DEF TypeOK, OpenSheet

(* One sheet's part of Alone.                                              *)
AloneIn(f) ==
    /\ tx[f].row # None => Accepts(f, tx[f].row)
    /\ \A p, q \in tx[f].pairs : p.asgn = q.asgn => p = q
    /\ \A p \in tx[f].pairs : DevicesOf(p.asgn) = {}
    /\ \A a \in tx[f].births :
         /\ (\E p \in tx[f].pairs : p.awb = a) \/ (\E l \in tx[f].links : l.awb = a)
         /\ a \in tx[f].joined \/ \E l \in tx[f].links : l.awb = a
    /\ \A d \in tx[f].covered :
         IF Group[d] = "COLLATERAL" THEN SeesLink(f, d)
         ELSE DevicesOf(d) # {} \/ \E p \in tx[f].pairs : p.asgn = d

LEMMA AloneInSame ==
  ASSUME NEW f \in Files, AloneIn(f), UNCHANGED <<asgnOf, shptOf, link>>,
         tx'[f].row = tx[f].row, tx'[f].pairs = tx[f].pairs, tx'[f].links = tx[f].links,
         tx'[f].births = tx[f].births, tx'[f].joined = tx[f].joined, tx'[f].covered = tx[f].covered
  PROVE  AloneIn(f)'
BY DEF AloneIn, Accepts, SeesPaired, SeesDevice, SeesLink, DevicesOf

LEMMA AloneInWrite ==
  ASSUME TypeOK, Held, Paired, NEW f \in Files, WriteRow(f), AloneIn(f)
  PROVE  AloneIn(f)'
<1> DEFINE r == tx[f].row
<1>1. /\ r \in Row /\ r # None
      /\ UNCHANGED <<asgnOf, shptOf, link, shpt>>
      /\ tx'[f].row = None
  BY WriteParts, WriteValues, Uncommitted
<1>2. Accepts(f, r)
  BY <1>1 DEF AloneIn
<1>3. \A d : DevicesOf(d)' = DevicesOf(d)
  <2>1. asgnOf' = asgnOf
    BY <1>1
  <2>2. QED
    BY <2>1 DEF DevicesOf
<1>4. \A p \in tx'[f].pairs : p \in tx[f].pairs \/ (p = r /\ r.unit # None)
  BY WriteParts
<1>5. ASSUME r.unit # None
      PROVE  /\ r \in tx'[f].pairs /\ DevicesOf(r.asgn) = {} /\ Group[r.asgn] # "COLLATERAL"
             /\ \A p \in tx[f].pairs : p.asgn # r.asgn
  <2>1. ~SeesPaired(f, r.unit) /\ ~SeesDevice(f, r.asgn, r.unit) /\ Group[r.asgn] # "COLLATERAL"
    BY <1>2, <1>5 DEF Accepts
  <2>2. r \in tx'[f].pairs
    BY <1>5, <2>1, WriteParts
  <2>3. r.unit \in Units /\ r.asgn \in Dispatches
    BY <1>1, <1>5 DEF Row
  <2>4. \A v \in Units : asgnOf[v] # r.asgn
    <3>1. shptOf[r.unit] = None
      BY <2>1 DEF SeesPaired
    <3>2. asgnOf[r.unit] # r.asgn
      BY <2>3, <3>1 DEF Paired
    <3>3. QED
      BY <2>1, <3>2 DEF SeesDevice
  <2>5. \A p \in tx[f].pairs : p.asgn # r.asgn
    BY <2>1 DEF SeesPaired, SeesDevice
  <2>6. QED
    BY <2>1, <2>2, <2>4, <2>5 DEF DevicesOf
<1>6. ASSUME r.unit = None
      PROVE  [asgn |-> r.asgn, awb |-> r.awb] \in tx'[f].links
  <2>1. ~SeesLink(f, r.asgn)
    BY <1>2, <1>6 DEF Accepts
  <2>2. QED
    BY <1>6, <2>1, WriteParts
<1>7. \A p, q \in tx'[f].pairs : p.asgn = q.asgn => p = q
  BY <1>4, <1>5 DEF AloneIn
<1>8. \A p \in tx'[f].pairs : DevicesOf(p.asgn)' = {}
  BY <1>3, <1>4, <1>5 DEF AloneIn
<1>9. tx[f].pairs \subseteq tx'[f].pairs /\ tx[f].links \subseteq tx'[f].links
      /\ tx[f].joined \subseteq tx'[f].joined
  BY WriteParts
<1>10. ASSUME NEW a \in tx'[f].births
       PROVE  /\ (\E p \in tx'[f].pairs : p.awb = a) \/ (\E l \in tx'[f].links : l.awb = a)
              /\ a \in tx'[f].joined \/ \E l \in tx'[f].links : l.awb = a
  <2>1. CASE a \in tx[f].births
    BY <1>9, <2>1 DEF AloneIn
  <2>2. CASE a = r.awb /\ r.unit # None
    BY <1>5, <1>10, <2>2, WriteParts
  <2>3. CASE a = r.awb /\ r.unit = None
    BY <1>6, <2>3
  <2>4. QED
    BY <2>1, <2>2, <2>3, WriteParts
<1>11. ASSUME NEW d \in tx'[f].covered
       PROVE  IF Group[d] = "COLLATERAL" THEN SeesLink(f, d)'
              ELSE DevicesOf(d)' # {} \/ \E p \in tx'[f].pairs : p.asgn = d
  <2>1. CASE d \in tx[f].covered
    BY <1>1, <1>3, <1>9, <2>1 DEF AloneIn, SeesLink
  <2>2. CASE d = r.asgn /\ r.unit # None
    BY <1>5, <2>2
  <2>3. CASE d = r.asgn /\ r.unit = None /\ Group[d] = "COLLATERAL"
    BY <1>6, <2>3 DEF SeesLink
  <2>4. QED
    BY <2>1, <2>2, <2>3, WriteParts DEF Covers
<1> HIDE DEF r
<1>12. QED
  BY <1>1, <1>7, <1>8, <1>10, <1>11 DEF AloneIn

LEMMA AloneStep == TypeOK /\ Held /\ Paired /\ Alone /\ [Next]_vars => Alone'
<1> SUFFICES ASSUME TypeOK, Held, Paired, Alone, [Next]_vars, ~overlap'
             PROVE  /\ \A f, g \in Files : tx'[f].phase = "open" /\ tx'[g].phase = "open" => f = g
                    /\ \A f \in Files : AloneIn(f)'
  BY DEF Alone, AloneIn
<1>1. /\ \A f, g \in Files : tx[f].phase = "open" /\ tx[g].phase = "open" => f = g
      /\ \A f \in Files : AloneIn(f)
  BY OverlapStays DEF Alone, AloneIn
<1>2. CASE Quiet
  <2>1. tx' = tx /\ UNCHANGED <<asgnOf, shptOf, link>>
    BY <1>2 DEF Quiet, unitVars
  <2>2. \A f \in Files : AloneIn(f)'
    BY <1>1, <2>1, AloneInSame
  <2>3. QED
    BY <1>1, <2>1, <2>2
<1>3. ASSUME NEW f \in Files, OpenSheet(f)
      PROVE  /\ \A g, h \in Files : tx'[g].phase = "open" /\ tx'[h].phase = "open" => g = h
             /\ \A g \in Files : AloneIn(g)'
  <2>1. \A g \in Files : tx[g].phase # "open"
    BY <1>3 DEF OpenSheet
  <2>2. \A g \in Files : AloneIn(g)'
    BY <1>1, <1>3, OpenValues, Uncommitted, AloneInSame
  <2>3. \A g \in Files \ {f} : tx'[g] = tx[g]
    BY <1>3, OpenValues
  <2>4. \A g \in Files : tx'[g].phase = "open" => g = f
    BY <2>1, <2>3
  <2>5. QED
    BY <2>2, <2>4
<1>4. ASSUME NEW f \in Files, NEW r \in Row, ReadRow(f, r)
      PROVE  /\ \A g, h \in Files : tx'[g].phase = "open" /\ tx'[h].phase = "open" => g = h
             /\ \A g \in Files : AloneIn(g)'
  <2>1. UNCHANGED <<asgnOf, shptOf, link>>
    BY <1>4, Uncommitted
  <2>2. Accepts(f, r)'
    <3>1. Accepts(f, r)
      BY <1>4 DEF ReadRow
    <3>2. QED
      BY <1>4, <2>1, <3>1, ReadValues DEF Accepts, SeesPaired, SeesDevice, SeesLink
  <2>3. AloneIn(f)'
    BY <1>1, <1>4, <2>1, <2>2, ReadValues DEF AloneIn, SeesLink, DevicesOf
  <2>4. \A g \in Files \ {f} : AloneIn(g)'
    BY <1>1, <1>4, <2>1, ReadValues, AloneInSame
  <2>5. QED
    BY <1>1, <1>4, <2>3, <2>4, ReadValues
<1>5. ASSUME NEW f \in Files, WriteRow(f)
      PROVE  /\ \A g, h \in Files : tx'[g].phase = "open" /\ tx'[h].phase = "open" => g = h
             /\ \A g \in Files : AloneIn(g)'
  <2>1. UNCHANGED <<asgnOf, shptOf, link>>
    BY <1>5, Uncommitted
  <2>2. \A g \in Files \ {f} : AloneIn(g)'
    BY <1>1, <1>5, <2>1, WriteValues, AloneInSame
  <2>3. \A g \in Files : tx'[g].phase = tx[g].phase
    BY <1>5, WriteValues
  <2>4. AloneIn(f)'
    BY <1>1, <1>5, AloneInWrite
  <2>5. QED
    BY <1>1, <2>2, <2>3, <2>4
<1>6. ASSUME NEW f \in Files, CommitSheet(f) \/ AbortSheet(f)
      PROVE  /\ \A g, h \in Files : tx'[g].phase = "open" /\ tx'[h].phase = "open" => g = h
             /\ \A g \in Files : AloneIn(g)'
  <2>1. \A g \in Files : tx'[g].phase # "open"
    BY <1>1, <1>6, EndValues
  <2>2. \A g \in Files : tx'[g].row = None /\ tx'[g].births = {} /\ tx'[g].pairs = {} /\ tx'[g].covered = {}
    <3>1. \A g \in Files \ {f} : tx[g].phase # "open"
      BY <1>1, <1>6, EndValues
    <3>2. QED
      BY <1>6, <3>1, EndValues DEF Held
  <2>3. QED
    BY <2>1, <2>2 DEF AloneIn
<1>7. QED
  BY <1>2, <1>3, <1>4, <1>5, <1>6, NextCases

LEMMA InTurnStep ==
  TypeOK /\ Shapes' /\ Held /\ Alone /\ OneAwbInTurn /\ [Next]_vars => OneAwbInTurn'
<1> SUFFICES ASSUME TypeOK, Shapes', Held, Alone, OneAwbInTurn, [Next]_vars, ~overlap'
             PROVE  /\ OneAwbPerDispatch'
                    /\ \A d \in Dispatches : \A u, v \in DevicesOf(d)' : u = v
  BY DEF OneAwbInTurn
<1>1. \A d \in Dispatches : \A u, v \in DevicesOf(d) : u = v
  BY OverlapStays DEF OneAwbInTurn
<1>2. \A d \in Dispatches : \A u, v \in DevicesOf(d)' : u = v
  <2>1. CASE asgnOf' = asgnOf
    BY <1>1, <2>1 DEF DevicesOf
  <2>2. ASSUME NEW f \in Files, CommitSheet(f), NEW d \in Dispatches, NEW u \in Units, NEW v \in Units,
               asgnOf'[u] = d, asgnOf'[v] = d
        PROVE  u = v
    <3>1. /\ \A p, q \in tx[f].pairs : p.asgn = q.asgn => p = q
          /\ \A p \in tx[f].pairs : DevicesOf(p.asgn) = {}
      BY OverlapStays DEF Alone
    <3>2. \A w \in Units : asgnOf'[w] = d =>
             asgnOf[w] = d \/ \E p \in tx[f].pairs : p.unit = w /\ p.asgn = d
      BY <2>2, CommitValues
    <3>3. CASE asgnOf[u] = d
      <4>1. \A p \in tx[f].pairs : p.asgn # d
        BY <3>1, <3>3 DEF DevicesOf
      <4>2. QED
        BY <1>1, <2>2, <3>2, <3>3, <4>1 DEF DevicesOf
    <3>4. CASE asgnOf[v] = d
      <4>1. \A p \in tx[f].pairs : p.asgn # d
        BY <3>1, <3>4 DEF DevicesOf
      <4>2. QED
        BY <1>1, <2>2, <3>2, <3>4, <4>1 DEF DevicesOf
    <3>5. QED
      BY <2>2, <3>1, <3>2, <3>3, <3>4
  <2>3. QED
    BY <2>1, <2>2, NextCases, Uncommitted DEF DevicesOf, Quiet, unitVars
<1>3. ASSUME NEW d \in Dispatches, Group[d] # "COMBINED", NEW a \in ShptsOf(d)', NEW b \in ShptsOf(d)'
      PROVE  a = b
  <2>1. a # None /\ b # None
    BY DEF ShptsOf
  <2>2. CASE Group[d] = "COLLATERAL"
    <3>1. \A u \in Units : asgnOf'[u] # d
      <4>1. \A u \in Units : asgnOf'[u] # None => Group[asgnOf'[u]] # "COLLATERAL"
        BY DEF Shapes
      <4>2. QED
        BY <2>2, <4>1
    <3>2. QED
      BY <3>1 DEF ShptsOf
  <2>3. CASE Group[d] = "SOUNDBOX"
    <3>1. link'[d] = None
      BY <2>3 DEF Shapes
    <3>2. \A c \in ShptsOf(d)' : \E u \in DevicesOf(d)' : c = shptOf'[u]
      BY <3>1 DEF ShptsOf, DevicesOf
    <3>3. QED
      BY <1>2, <3>2
  <2>4. QED
    BY <1>3, <2>2, <2>3 DEF Groups
<1>4. QED
  BY <1>2, <1>3 DEF OneAwbPerDispatch

(* Only the commit of its sheet makes a shpt.                              *)
LEMMA Births ==
  ASSUME TypeOK, [Next]_vars, NEW a \in Awbs, shpt'[a] # "NONE"
  PROVE  shpt[a] # "NONE" \/ \E f \in Files : CommitSheet(f) /\ a \in tx[f].births
<1>1. CASE shpt' = shpt
  BY <1>1
<1>2. ASSUME NEW b \in Awbs, NEW s \in TERMINAL_SHIPMENT_STATUSES, SettleShpt(b, s) PROVE shpt[a] # "NONE"
  BY <1>2 DEF SettleShpt, TypeOK
<1>3. ASSUME NEW f \in Files, CommitSheet(f) PROVE shpt[a] # "NONE" \/ a \in tx[f].births
  BY <1>3 DEF CommitSheet
<1>4. QED
  BY <1>1, <1>2, <1>3, Writers

LEMMA CarryStep == TypeOK /\ Held /\ Paired /\ Alone /\ ParcelsCarry /\ [Next]_vars => ParcelsCarry'
<1> SUFFICES ASSUME TypeOK, Held, Paired, Alone, ParcelsCarry, [Next]_vars, ~overlap',
                    NEW a \in Awbs, shpt'[a] # "NONE"
             PROVE  /\ (\E u \in Units : shptOf'[u] = a) \/ (\E d \in Dispatches : link'[d] = a)
                    /\ a \in shptTold' \/ \E l \in linkTold' : l.awb = a
  BY DEF ParcelsCarry
<1>1. ~overlap
  BY OverlapStays
<1>2. shptTold \subseteq shptTold' /\ linkTold \subseteq linkTold'
  <2>1. CASE Quiet
    BY <2>1 DEF Quiet
  <2>2. ASSUME NEW f \in Files, CommitSheet(f) PROVE shptTold \subseteq shptTold' /\ linkTold \subseteq linkTold'
    BY <2>2 DEF CommitSheet
  <2>3. ASSUME NEW f \in Files,
               OpenSheet(f) \/ (\E r \in Row : ReadRow(f, r)) \/ WriteRow(f) \/ AbortSheet(f)
        PROVE  UNCHANGED <<shptTold, linkTold>>
    BY <2>3 DEF OpenSheet, ReadRow, WriteRow, AbortSheet, factVars
  <2>4. QED
    BY <2>1, <2>2, <2>3, NextCases
<1>3. CASE shpt[a] # "NONE"
  <2>1. /\ (\E u \in Units : shptOf[u] = a) \/ (\E d \in Dispatches : link[d] = a)
        /\ a \in shptTold \/ \E l \in linkTold : l.awb = a
    BY <1>1, <1>3 DEF ParcelsCarry
  <2>2. a # None
    OBVIOUS
  <2>3. ASSUME NEW u \in Units, shptOf[u] = a PROVE shptOf'[u] = a
    BY <2>2, <2>3, Keeps DEF Paired
  <2>4. ASSUME NEW d \in Dispatches, link[d] = a PROVE link'[d] = a
    BY <2>2, <2>4, Keeps
  <2>5. QED
    BY <1>2, <2>1, <2>3, <2>4
<1>4. ASSUME NEW f \in Files, CommitSheet(f), a \in tx[f].births
      PROVE  /\ (\E u \in Units : shptOf'[u] = a) \/ (\E d \in Dispatches : link'[d] = a)
             /\ a \in shptTold' \/ \E l \in linkTold' : l.awb = a
  <2>1. /\ (\E p \in tx[f].pairs : p.awb = a) \/ (\E l \in tx[f].links : l.awb = a)
        /\ a \in tx[f].joined \/ \E l \in tx[f].links : l.awb = a
    BY <1>1, <1>4 DEF Alone
  <2>2. ASSUME NEW p \in tx[f].pairs, p.awb = a PROVE p.unit \in Units /\ shptOf'[p.unit] = a
    BY <1>4, <2>2, CommitValues, SheetType DEF Pair
  <2>3. ASSUME NEW l \in tx[f].links, l.awb = a PROVE l.asgn \in Dispatches /\ link'[l.asgn] = a
    BY <1>4, <2>3, CommitValues, SheetType DEF Link
  <2>4. /\ tx[f].joined \subseteq shptTold'
        /\ \A l \in tx[f].links : [asgn |-> l.asgn, awb |-> l.awb, file |-> f] \in linkTold'
    BY <1>4 DEF CommitSheet
  <2>5. ASSUME NEW l \in tx[f].links, l.awb = a PROVE \E k \in linkTold' : k.awb = a
    BY <2>4, <2>5
  <2>6. QED
    BY <2>1, <2>2, <2>3, <2>4, <2>5
<1>5. QED
  BY <1>3, <1>4, Births

(* Only a correction or a sheet makes a dispatch leave.                    *)
LEMMA Leaves ==
  ASSUME TypeOK, [Next]_vars, NEW d \in Dispatches,
         dispatchState[d] # "DISPATCHED_BY_VENDOR", dispatchState'[d] = "DISPATCHED_BY_VENDOR"
  PROVE  d \in corrected' \/ \E f \in Files : CommitSheet(f) /\ d \in tx[f].covered
<1>1. CASE dispatchState' = dispatchState
  BY <1>1
<1>2. CASE Compose \/ SendBatchToVendor
  BY <1>2 DEF Compose, SendBatchToVendor
<1>3. ASSUME NEW c \in Dispatches, NEW s \in DISPATCH_STATES, CorrectDispatchState(c, s) PROVE d \in corrected'
  BY <1>3 DEF CorrectDispatchState, TypeOK
<1>4. ASSUME NEW f \in Files, CommitSheet(f) PROVE d \in tx[f].covered
  BY <1>4 DEF CommitSheet, Advanced
<1>5. QED
  BY <1>1, <1>2, <1>3, <1>4, Writers

LEMMA ShippedStep ==
  TypeOK /\ Held /\ Paired /\ Alone /\ ShippedHasParcel /\ [Next]_vars => ShippedHasParcel'
<1> SUFFICES ASSUME TypeOK, Held, Paired, Alone, ShippedHasParcel, [Next]_vars, ~overlap',
                    NEW d \in Dispatches, d \notin corrected', dispatchState'[d] = "DISPATCHED_BY_VENDOR"
             PROVE  IF Group[d] = "COLLATERAL" THEN link'[d] # None ELSE DevicesOf(d)' # {}
  BY DEF ShippedHasParcel
<1>1. ~overlap
  BY OverlapStays
<1>2. d \notin corrected
  BY Writers DEF CorrectDispatchState
<1>3. /\ DevicesOf(d) # {} => DevicesOf(d)' # {}
      /\ link[d] # None => link'[d] # None
  BY Keeps DEF DevicesOf
<1>4. CASE dispatchState[d] = "DISPATCHED_BY_VENDOR"
  BY <1>1, <1>2, <1>3, <1>4 DEF ShippedHasParcel
<1>5. ASSUME NEW f \in Files, CommitSheet(f), d \in tx[f].covered
      PROVE  IF Group[d] = "COLLATERAL" THEN link'[d] # None ELSE DevicesOf(d)' # {}
  <2>1. IF Group[d] = "COLLATERAL" THEN SeesLink(f, d)
        ELSE DevicesOf(d) # {} \/ \E p \in tx[f].pairs : p.asgn = d
    BY <1>1, <1>5 DEF Alone
  <2>2. ASSUME NEW p \in tx[f].pairs, p.asgn = d PROVE DevicesOf(d)' # {}
    <3>1. p.unit \in Units /\ asgnOf'[p.unit] = d
      BY <1>5, <2>2, CommitValues, SheetType DEF Pair
    <3>2. QED
      BY <3>1 DEF DevicesOf
  <2>3. ASSUME NEW l \in tx[f].links, l.asgn = d PROVE link'[d] # None
    BY <1>5, <2>3, CommitValues, SheetType DEF Link
  <2>4. QED
    BY <1>3, <2>1, <2>2, <2>3 DEF SeesLink
<1>6. QED
  BY <1>4, <1>5, Leaves

-----------------------------------------------------------------------------
(* The invariant and the theorems.                                         *)

LEMMA InitInv == Init => Inv
<1> SUFFICES ASSUME Init PROVE Inv
  OBVIOUS
<1>1. TypeOK
  BY TypeInit
<1>2. \A f \in Files : /\ tx[f].phase = "new" /\ tx[f].row = None
                       /\ tx[f].births = {} /\ tx[f].joined = {} /\ tx[f].pairs = {}
                       /\ tx[f].links = {} /\ tx[f].covered = {}
  BY DEF Init, NewSheet
<1>3. \A d \in Dispatches : ShptsOf(d) = {} /\ DevicesOf(d) = {}
  BY DEF Init, ShptsOf, DevicesOf
<1>4. Shapes /\ Held /\ Paired /\ Reports
  BY <1>2 DEF Init, Shapes, Held, Paired, Reports
<1>5. CloseSound /\ Alone
  BY <1>2 DEF Init, CloseSound, Alone
<1>6. OneAwbInTurn /\ ParcelsCarry
  BY <1>3 DEF Init, OneAwbInTurn, OneAwbPerDispatch, ParcelsCarry
<1>7. ToldOnce /\ LinkToldOnce
  <2>1. \A d \in Dispatches : dispatchState[d] = "NULL" /\ \A s \in DISPATCH_STATES : told[d][s] = 0
    BY DEF Init
  <2>2. QED
    BY <2>1 DEF Init, ToldOnce, LinkToldOnce
<1>8. LegShipped /\ ShippedHasParcel
  BY <1>3 DEF Init, LegShipped, ShippedHasParcel
<1>9. QED
  BY <1>1, <1>4, <1>5, <1>6, <1>7, <1>8 DEF Inv

LEMMA StepInv == Inv /\ [Next]_vars => Inv'
<1> SUFFICES ASSUME Inv, [Next]_vars PROVE Inv'
  OBVIOUS
<1>1. /\ TypeOK /\ Shapes /\ Held /\ Paired /\ Reports /\ CloseSound /\ Alone
      /\ OneAwbInTurn /\ ParcelsCarry /\ ToldOnce /\ LinkToldOnce /\ LegShipped /\ ShippedHasParcel
  BY DEF Inv
<1>2. TypeOK' /\ Shapes' /\ Held' /\ Paired' /\ Reports'
  BY <1>1, TypeStep, ShapesStep, HeldStep, PairedStep, ReportsStep
<1>3. CloseSound' /\ Alone' /\ OneAwbInTurn' /\ ParcelsCarry'
  BY <1>1, <1>2, CloseStep, AloneStep, InTurnStep, CarryStep
<1>4. ToldOnce' /\ LinkToldOnce' /\ LegShipped' /\ ShippedHasParcel'
  BY <1>1, ToldStep, LinkToldStep, LegStep, ShippedStep
<1>5. QED
  BY <1>2, <1>3, <1>4 DEF Inv

(***************************************************************************)
(* Every reachable state of a batch satisfies the inductive invariant.     *)
(***************************************************************************)
THEOREM Invariance == Spec => []Inv
<1>1. Inv /\ [Next]_vars => Inv'
  BY StepInv
<1>2. QED
  BY InitInv, <1>1, PTL DEF Spec

(***************************************************************************)
(* A leg travels in at most one parcel as long as no two return sheets     *)
(* were applied at once, whatever rows they hold and however often they    *)
(* are uploaded.                                                           *)
(***************************************************************************)
THEOREM OneAwbInTurnHolds == Spec => []OneAwbInTurn
<1>1. Inv => OneAwbInTurn
  BY DEF Inv
<1>2. QED
  BY Invariance, <1>1, PTL

(***************************************************************************)
(* Every born parcel carries something and was announced, as long as no    *)
(* two return sheets were applied at once.                                 *)
(***************************************************************************)
THEOREM ParcelsCarryHolds == Spec => []ParcelsCarry
<1>1. Inv => ParcelsCarry
  BY DEF Inv
<1>2. QED
  BY Invariance, <1>1, PTL

(***************************************************************************)
(* The four writers of dispatch_state together tell each state at most     *)
(* once, and always the one the row holds.                                 *)
(***************************************************************************)
THEOREM ToldOnceHolds == Spec => []ToldOnce
<1>1. Inv => ToldOnce
  BY DEF Inv
<1>2. QED
  BY Invariance, <1>1, PTL

(***************************************************************************)
(* The collateral link of a dispatch and the one fact about it agree, for  *)
(* any number of sheets racing for the link.                               *)
(***************************************************************************)
THEOREM LinkToldOnceHolds == Spec => []LinkToldOnce
<1>1. Inv => LinkToldOnce
  BY DEF Inv
<1>2. QED
  BY Invariance, <1>1, PTL

(***************************************************************************)
(* A leg with a parcel has left the vendor, unless its sheet came early.   *)
(***************************************************************************)
THEOREM LegShippedHolds == Spec => []LegShipped
<1>1. Inv => LegShipped
  BY DEF Inv
<1>2. QED
  BY Invariance, <1>1, PTL

(***************************************************************************)
(* A dispatch that left has the parcel it left in.                         *)
(***************************************************************************)
THEOREM ShippedHasParcelHolds == Spec => []ShippedHasParcel
<1>1. Inv => ShippedHasParcel
  BY DEF Inv
<1>2. QED
  BY Invariance, <1>1, PTL

(***************************************************************************)
(* A closed batch has every dispatch in a parcel: what closeBatch read     *)
(* without a lock is not undone before it writes, nor afterwards.          *)
(***************************************************************************)
THEOREM ClosedHasParcelsHolds == Spec => []ClosedHasParcels
<1>1. Inv => ClosedHasParcels
  BY DEF Inv, CloseSound, ClosedHasParcels
<1>2. QED
  BY Invariance, <1>1, PTL

(***************************************************************************)
(* dispatch_state climbs one rank at a time, a correction excepted.        *)
(***************************************************************************)
THEOREM ClimbsInOrderHolds == Spec => ClimbsInOrder
<1> DEFINE A == \A d \in Dispatches : dispatchState'[d] # dispatchState[d] =>
          IF corrections' = corrections
          THEN DISPATCH_STATE_RANK[dispatchState'[d]] = DISPATCH_STATE_RANK[dispatchState[d]] + 1
          ELSE DISPATCH_STATE_RANK[dispatchState'[d]] > DISPATCH_STATE_RANK[dispatchState[d]]
<1>1. TypeOK /\ [Next]_vars => A
  <2> SUFFICES ASSUME TypeOK, [Next]_vars, NEW d \in Dispatches, dispatchState'[d] # dispatchState[d]
               PROVE  IF corrections' = corrections
                      THEN DISPATCH_STATE_RANK[dispatchState'[d]] = DISPATCH_STATE_RANK[dispatchState[d]] + 1
                      ELSE DISPATCH_STATE_RANK[dispatchState'[d]] > DISPATCH_STATE_RANK[dispatchState[d]]
    OBVIOUS
  <2>1. PICK ds \in SUBSET Dispatches, s \in DISPATCH_STATES :
              /\ dispatchState' = [e \in Dispatches |-> IF e \in ds THEN s ELSE dispatchState[e]]
              /\ \A e \in ds : /\ DISPATCH_STATE_RANK[dispatchState[e]] < DISPATCH_STATE_RANK[s]
                               /\ \/ corrections' # corrections
                                  \/ DISPATCH_STATE_RANK[s] = DISPATCH_STATE_RANK[dispatchState[e]] + 1
    BY StateCases
  <2>2. d \in ds /\ dispatchState'[d] = s
    BY <2>1
  <2>3. DISPATCH_STATE_RANK[s] \in 0..3 /\ DISPATCH_STATE_RANK[dispatchState[d]] \in 0..3
    BY Ranks DEF TypeOK, DISPATCH_STATES
  <2>4. QED
    BY <2>1, <2>2, <2>3
<1>2. Inv => TypeOK
  BY DEF Inv
<1>3. QED
  BY Invariance, <1>1, <1>2, PTL DEF Spec, ClimbsInOrder
=============================================================================
