-------------------------- MODULE BankMasterProofs --------------------------
(***************************************************************************)
(* Proofs about BankMaster for any banks, codes, names, operators and rows.*)
(***************************************************************************)
EXTENDS BankMaster, TLAPS

USE MasterAssumption

LEMMA IdleType == Nothing \in [Aggrs -> Row] /\ Idle \in Transaction /\ Done \in Transaction
<1>1. Nothing \in [Aggrs -> Row]
  BY DEF Nothing, Row
<1>2. Idle \in Transaction
  BY <1>1 DEF Idle, Transaction
<1>3. QED
  BY <1>1, <1>2 DEF Done, Transaction

LEMMA IdleFields ==
  /\ Idle.step = "free" /\ Idle.kind = None /\ Idle.seen = Nothing
  /\ Done.step = "done" /\ Done.kind = None /\ Done.seen = Nothing
BY DEF Idle, Done

LEMMA RowFactType == ASSUME NEW i \in RowFacts
                     PROVE  RowOf[i].bank \in Banks /\ RowOf[i].code \in Codes
                            /\ RowOf[i].bank \in Codes /\ RowOf[i].bank \in Names /\ RowOf[i].code \in Names
OBVIOUS

LEMMA NewTenantType == ASSUME NEW n \in Names
                       PROVE  NewTenant(n) \in Tenant /\ NewTenant(n) # None /\ NewTenant(n).name = n
<1>1. NewTenant(n) \in Tenant
  BY DEF NewTenant, Tenant, STATUSES
<1>2. QED
  BY <1>1 DEF NewTenant

LEMMA NewTypes ==
  ASSUME NEW b \in Banks, NEW c \in Codes, NEW n \in Names, NEW d \in BOOLEAN, NEW l \in BOOLEAN
  PROVE  /\ NewTenant(n) \in Tenant /\ NewTenant(n) # None /\ NewTenant(n).name = n
         /\ NewRow(b, c, n, d, l) \in Aggregator /\ NewRow(b, c, n, d, l) # None
         /\ Said(NewRow(b, c, n, d, l)) \in Fact
         /\ NewRow(b, c, n, d, l).bank = b /\ NewRow(b, c, n, d, l).code = c
         /\ NewRow(b, c, n, d, l).name = n
         /\ NewRow(b, c, n, d, l).isDefault = d /\ NewRow(b, c, n, d, l).locked = l
<1>1. NewTenant(n) \in Tenant
  BY DEF NewTenant, Tenant, STATUSES
<1>2. NewRow(b, c, n, d, l) \in Aggregator
  BY DEF NewRow, Aggregator, STATUSES
<1>3. Said(NewRow(b, c, n, d, l)) \in Fact
  BY <1>2 DEF Said, Fact, Aggregator
<1>4. NewTenant(n) # None /\ NewRow(b, c, n, d, l) # None
  BY <1>1, <1>2
<1>5. QED
  BY <1>1, <1>2, <1>3, <1>4 DEF NewRow, NewTenant

LEMMA NewRowIsRow ==
  ASSUME NEW b \in Banks, NEW c \in Codes, NEW n \in Names, NEW d \in BOOLEAN, NEW l \in BOOLEAN
  PROVE  NewRow(b, c, n, d, l) # None
BY NewTypes

LEMMA NewRowHere ==
  ASSUME NEW b \in Banks, NEW c \in Codes, NEW d \in BOOLEAN, NEW l \in BOOLEAN
  PROVE  NewRow(b, c, c, d, l) # None /\ NewRow(b, b, b, d, l) # None
<1>1. c \in Names /\ b \in Codes /\ b \in Names
  OBVIOUS
<1>2. QED
  BY <1>1, NewTypes

LEMMA MintedType == ASSUME TypeOK, NEW a \in Minted
                    PROVE  a \in Aggrs /\ aggr[a] \in Aggregator /\ Said(aggr[a]) \in Fact
<1>1. a \in Aggrs /\ aggr[a] \in Aggregator
  BY DEF TypeOK, Row, Minted
<1>2. QED
  BY <1>1 DEF Said, Fact, Aggregator

LEMMA SeenType == ASSUME TypeOK, NEW k \in Keys, NEW a \in Aggrs, op[k].seen[a] # None
                  PROVE  op[k].seen[a] \in Aggregator /\ Said(op[k].seen[a]) \in Fact
<1>1. op[k] \in Transaction
  BY DEF TypeOK
<1>2. op[k].seen[a] \in Aggregator
  BY <1>1 DEF Transaction, Row
<1>3. QED
  BY <1>2 DEF Said, Fact, Aggregator

-----------------------------------------------------------------------------
(* What the writing steps do, aggregator by aggregator.                    *)

(* One transaction moves; the others stay as they were.                    *)
LEMMA OpMoves ==
  ASSUME TypeOK, NEW k \in Keys, NEW v \in Transaction, op' = [op EXCEPT ![k] = v]
  PROVE  op' \in [Keys -> Transaction] /\ op'[k] = v /\ \A j \in Keys \ {k} : op'[j] = op[j]
BY DEF TypeOK

CreateBankDoes(k, b, n, a) ==
    /\ tenant[b] = None /\ aggr[a] = None
    /\ tenant' \in [Banks -> Tenant \cup {None}] /\ tenant'[b] = NewTenant(n)
    /\ \A c \in Banks \ {b} : tenant'[c] = tenant[c]
    /\ aggr' \in [Aggrs -> Row] /\ aggr'[a] = NewRow(b, b, n, TRUE, FALSE)
    /\ \A e \in Aggrs \ {a} : aggr'[e] = aggr[e]
    /\ told' \in [Banks \cup Aggrs -> Tenant \cup Fact \cup {None}]
    /\ told'[b] = NewTenant(n) /\ told'[a] = Said(aggr'[a])
    /\ \A x \in (Banks \cup Aggrs) \ {a, b} : told'[x] = told[x]
    /\ op' = [op EXCEPT ![k] = Done] /\ UNCHANGED <<announced, history>>

LEMMA CreateBankFacts ==
  ASSUME Inv, NEW k \in Requests, NEW b \in Banks, NEW n \in Names, NEW a \in Aggrs, CreateBank(k, b, n, a)
  PROVE  CreateBankDoes(k, b, n, a)
<1>1. NewTenant(n) \in Tenant /\ NewRow(b, b, n, TRUE, FALSE) \in Aggregator
      /\ Said(NewRow(b, b, n, TRUE, FALSE)) \in Fact
  BY NewTypes
<1>2. TypeOK /\ aggr[a] = None /\ a # b
  BY DEF Inv, CreateBank, Minted
<1>3. aggr'[a] = NewRow(b, b, n, TRUE, FALSE)
  BY <1>2 DEF CreateBank, TypeOK
<1>4. QED
  BY <1>1, <1>2, <1>3 DEF CreateBank, TypeOK, Row, CreateBankDoes

CreateAggregatorDoes(k, b, c, n, a) ==
    /\ tenant[b] # None /\ aggr[a] = None /\ Holder(b, c) = {} /\ tenant' = tenant
    /\ aggr' \in [Aggrs -> Row] /\ aggr'[a] = NewRow(b, c, n, FALSE, FALSE)
    /\ \A e \in Aggrs \ {a} : aggr'[e] = aggr[e]
    /\ told' \in [Banks \cup Aggrs -> Tenant \cup Fact \cup {None}]
    /\ told'[a] = Said(aggr'[a])
    /\ \A x \in (Banks \cup Aggrs) \ {a} : told'[x] = told[x]
    /\ op' = [op EXCEPT ![k] = Done] /\ UNCHANGED <<announced, history>>

LEMMA CreateAggregatorFacts ==
  ASSUME Inv, NEW k \in Requests, NEW b \in Banks, NEW c \in Codes, NEW n \in Names, NEW a \in Aggrs,
         CreateAggregator(k, b, c, n, a)
  PROVE  CreateAggregatorDoes(k, b, c, n, a)
<1>1. NewRow(b, c, n, FALSE, FALSE) \in Aggregator /\ Said(NewRow(b, c, n, FALSE, FALSE)) \in Fact
  BY NewTypes
<1>2. TypeOK /\ aggr[a] = None
  BY DEF Inv, CreateAggregator, Minted
<1>3. aggr'[a] = NewRow(b, c, n, FALSE, FALSE)
  BY <1>2 DEF CreateAggregator, TypeOK
<1>4. QED
  BY <1>1, <1>2, <1>3 DEF CreateAggregator, TypeOK, Row, CreateAggregatorDoes

RowMintsDoes(i, a, e, b, c) ==
    /\ tenant[b] = None /\ aggr[a] = None /\ aggr[e] = None
    /\ tenant' \in [Banks -> Tenant \cup {None}] /\ tenant'[b] = NewTenant(b)
    /\ \A x \in Banks \ {b} : tenant'[x] = tenant[x]
    /\ aggr' \in [Aggrs -> Row]
    /\ \/ c = b /\ a = e /\ aggr'[a] = NewRow(b, b, b, TRUE, TRUE)
       \/ c # b /\ a # e /\ aggr'[a] = NewRow(b, b, b, TRUE, FALSE)
          /\ aggr'[e] = NewRow(b, c, c, FALSE, TRUE)
    /\ \A x \in Aggrs \ {a, e} : aggr'[x] = aggr[x]
    /\ told' \in [Banks \cup Aggrs -> Tenant \cup Fact \cup {None}]
    /\ told'[b] = NewTenant(b) /\ told'[a] = Said(aggr'[a]) /\ told'[e] = Said(aggr'[e])
    /\ \A x \in (Banks \cup Aggrs) \ {a, b, e} : told'[x] = told[x]
    /\ matched' \in [Banks \X Codes -> Aggrs \cup {None}]
    /\ matched'[<<b, c>>] = e
    /\ \A bc \in (Banks \X Codes) \ {<<b, c>>} : matched'[bc] = matched[bc]
    /\ op' = [op EXCEPT ![i] = Done] /\ UNCHANGED <<announced, stale, forked, renamed, loose>>

LEMMA RowMintsFacts ==
  ASSUME Inv, NEW i \in RowFacts, NEW a \in Aggrs, NEW e \in Aggrs, RowMints(i, a, e),
         NEW b, b = RowOf[i].bank, NEW c, c = RowOf[i].code
  PROVE  RowMintsDoes(i, a, e, b, c)
<1>1. b \in Banks /\ b \in Codes /\ b \in Names /\ c \in Codes /\ c \in Names
  BY RowFactType
<1>2. /\ NewTenant(b) \in Tenant
      /\ \A l \in BOOLEAN : NewRow(b, b, b, TRUE, l) \in Aggregator
      /\ NewRow(b, c, c, FALSE, TRUE) \in Aggregator
      /\ \A l \in BOOLEAN : Said(NewRow(b, b, b, TRUE, l)) \in Fact
      /\ Said(NewRow(b, c, c, FALSE, TRUE)) \in Fact
  BY <1>1, NewTypes
<1>3. TypeOK /\ aggr[a] = None /\ aggr[e] = None /\ a # b /\ e # b /\ tenant[b] = None
  BY <1>1 DEF Inv, RowMints, Minted
<1>4. /\ tenant' = [tenant EXCEPT ![b] = NewTenant(b)] /\ (c = b <=> a = e)
      /\ aggr' = [x \in Aggrs |-> IF x = a THEN NewRow(b, b, b, TRUE, c = b)
                                  ELSE IF x = e THEN NewRow(b, c, c, FALSE, TRUE) ELSE aggr[x]]
      /\ told' = [x \in Banks \cup Aggrs |->
                  IF x = b THEN NewTenant(b)
                  ELSE IF x \in {a, e} THEN Said(aggr'[x]) ELSE told[x]]
      /\ matched' = [matched EXCEPT ![<<b, c>>] = IF c = b THEN a ELSE e]
      /\ op' = [op EXCEPT ![i] = Done] /\ UNCHANGED <<announced, stale, forked, renamed, loose>>
  BY DEF RowMints
<1>5. /\ \/ c = b /\ a = e /\ aggr'[a] = NewRow(b, b, b, TRUE, TRUE)
         \/ c # b /\ a # e /\ aggr'[a] = NewRow(b, b, b, TRUE, FALSE)
            /\ aggr'[e] = NewRow(b, c, c, FALSE, TRUE)
      /\ \A x \in Aggrs \ {a, e} : aggr'[x] = aggr[x]
  <2>1. CASE c = b
    <3>1. (c = b) = TRUE
      BY <2>1
    <3>2. QED
      BY <2>1, <3>1, <1>4
  <2>2. CASE c # b
    <3>1. (c = b) = FALSE
      BY <2>2
    <3>2. QED
      BY <2>2, <3>1, <1>4
  <2>3. QED
    BY <2>1, <2>2
<1>6. \A x \in Aggrs : aggr[x] \in Row
  BY <1>3 DEF TypeOK
<1>7. aggr' \in [Aggrs -> Row]
  <2>1. \A x \in Aggrs : aggr'[x] \in Row
    BY <1>2, <1>5, <1>6 DEF Row
  <2>2. QED
    BY <2>1, <1>4
<1>8. Said(aggr'[a]) \in Fact /\ Said(aggr'[e]) \in Fact
  BY <1>2, <1>5
<1>9. told' \in [Banks \cup Aggrs -> Tenant \cup Fact \cup {None}]
  BY <1>2, <1>3, <1>4, <1>8 DEF TypeOK
<1>10. matched' \in [Banks \X Codes -> Aggrs \cup {None}] /\ matched'[<<b, c>>] = e
       /\ \A bc \in (Banks \X Codes) \ {<<b, c>>} : matched'[bc] = matched[bc]
  BY <1>1, <1>3, <1>4 DEF TypeOK
<1>11. /\ tenant' \in [Banks -> Tenant \cup {None}] /\ tenant'[b] = NewTenant(b)
       /\ \A x \in Banks \ {b} : tenant'[x] = tenant[x]
  BY <1>1, <1>2, <1>3, <1>4 DEF TypeOK
<1>12. /\ told'[b] = NewTenant(b) /\ told'[a] = Said(aggr'[a]) /\ told'[e] = Said(aggr'[e])
       /\ \A x \in (Banks \cup Aggrs) \ {a, b, e} : told'[x] = told[x]
  BY <1>1, <1>3, <1>4
<1>13. QED
  BY <1>3, <1>4, <1>5, <1>7, <1>9, <1>10, <1>11, <1>12 DEF RowMintsDoes

RowLocksDoes(i, a, bc) ==
    /\ a \in Minted /\ aggr[a].bank = RowOf[i].bank /\ bc \in Banks \X Codes
    /\ tenant' = tenant
    /\ aggr' \in [Aggrs -> Row] /\ aggr'[a] = [aggr[a] EXCEPT !.locked = TRUE]
    /\ \A e \in Aggrs \ {a} : aggr'[e] = aggr[e]
    /\ matched' \in [Banks \X Codes -> Aggrs \cup {None}]
    /\ matched'[bc] = (IF matched[bc] = None THEN a ELSE matched[bc])
    /\ \A x \in (Banks \X Codes) \ {bc} : matched'[x] = matched[x]
    /\ loose' = (IF aggr[a].code # RowOf[i].code THEN loose \cup {bc} ELSE loose)
    /\ op' = [op EXCEPT ![i] = Done] /\ UNCHANGED <<told, announced, stale, forked, renamed>>

LEMMA RowLocksFacts ==
  ASSUME Inv, NEW i \in RowFacts, RowLocks(i),
         NEW a, a = op[i].of, NEW bc, bc = <<RowOf[i].bank, RowOf[i].code>>
  PROVE  RowLocksDoes(i, a, bc)
<1>1. bc \in Banks \X Codes
  BY RowFactType
<1>2. TypeOK /\ Kinds /\ i \in Keys /\ a # None /\ op[i].step = "read"
  BY DEF Inv, RowLocks, Keys
<1>3. op[i].kind = "row"
  <2>1. op[i] \in Transaction
    BY <1>2 DEF TypeOK
  <2>2. op[i].kind \in {"row", None}
    BY <1>2 DEF Kinds, Shape
  <2>3. op[i].kind # None
    BY <1>2, <2>1 DEF Kinds, Shape
  <2>4. QED
    BY <2>2, <2>3
<1>4. a \in Minted /\ aggr[a].bank = RowOf[i].bank
  BY <1>2, <1>3 DEF Kinds, Shape
<1>5. a \in Aggrs /\ aggr[a] \in Aggregator
  BY <1>2, <1>4, MintedType
<1>6. aggr' = [aggr EXCEPT ![a] = [aggr[a] EXCEPT !.locked = TRUE]]
  BY DEF RowLocks
<1>7. [aggr[a] EXCEPT !.locked = TRUE] \in Aggregator
  BY <1>5 DEF Aggregator
<1>8. aggr' \in [Aggrs -> Row] /\ aggr'[a] = [aggr[a] EXCEPT !.locked = TRUE]
      /\ \A e \in Aggrs \ {a} : aggr'[e] = aggr[e]
  BY <1>2, <1>5, <1>6, <1>7 DEF TypeOK, Row
<1>9. matched' = [matched EXCEPT ![bc] = IF matched[bc] = None THEN a ELSE matched[bc]]
  BY DEF RowLocks
<1>10. matched \in [Banks \X Codes -> Aggrs \cup {None}]
  BY <1>2 DEF TypeOK
<1>11. /\ matched' \in [Banks \X Codes -> Aggrs \cup {None}]
       /\ matched'[bc] = (IF matched[bc] = None THEN a ELSE matched[bc])
       /\ \A x \in (Banks \X Codes) \ {bc} : matched'[x] = matched[x]
  BY <1>1, <1>5, <1>9, <1>10
<1>12. QED
  BY <1>1, <1>4, <1>8, <1>11 DEF RowLocks, RowLocksDoes

RowInsertsDoes(i, a, b, c) ==
    /\ aggr[a] = None /\ op[i].kind = "row" /\ tenant' = tenant /\ b \in Banks /\ c \in Codes
    /\ op' = [op EXCEPT ![i] = Done] /\ UNCHANGED <<announced, stale, forked, renamed>>
    /\ \/ /\ Holder(b, c) # {}
          /\ UNCHANGED <<aggr, told, matched>> /\ loose' = loose \cup {<<b, c>>}
       \/ /\ Holder(b, c) = {} /\ loose' = loose
          /\ aggr' \in [Aggrs -> Row] /\ aggr'[a] = NewRow(b, c, c, FALSE, TRUE)
          /\ \A e \in Aggrs \ {a} : aggr'[e] = aggr[e]
          /\ told' \in [Banks \cup Aggrs -> Tenant \cup Fact \cup {None}]
          /\ told'[a] = Said(aggr'[a])
          /\ \A x \in (Banks \cup Aggrs) \ {a} : told'[x] = told[x]
          /\ matched' \in [Banks \X Codes -> Aggrs \cup {None}]
          /\ matched'[<<b, c>>] = (IF matched[<<b, c>>] = None THEN a ELSE matched[<<b, c>>])
          /\ \A x \in (Banks \X Codes) \ {<<b, c>>} : matched'[x] = matched[x]

LEMMA RowInsertsFacts ==
  ASSUME Inv, NEW i \in RowFacts, NEW a \in Aggrs, RowInserts(i, a),
         NEW b, b = RowOf[i].bank, NEW c, c = RowOf[i].code
  PROVE  RowInsertsDoes(i, a, b, c)
<1>1. b \in Banks /\ c \in Codes /\ c \in Names
  BY RowFactType
<1>2. TypeOK /\ Kinds /\ i \in Keys /\ aggr[a] = None /\ op[i].step = "read"
  BY DEF Inv, RowInserts, Keys, Minted
<1>3. op[i].kind = "row"
  <2>1. op[i].kind \in {"row", None} /\ op[i].kind # None
    BY <1>2 DEF Kinds, Shape
  <2>2. QED
    BY <2>1
<1>4. /\ aggr' = (IF Holder(b, c) = {} THEN [aggr EXCEPT ![a] = NewRow(b, c, c, FALSE, TRUE)] ELSE aggr)
      /\ told' = (IF Holder(b, c) = {} THEN [told EXCEPT ![a] = Said(aggr'[a])] ELSE told)
      /\ matched' = (IF Holder(b, c) = {} /\ matched[<<b, c>>] = None
                       THEN [matched EXCEPT ![<<b, c>>] = a] ELSE matched)
      /\ loose' = (IF Holder(b, c) = {} THEN loose ELSE loose \cup {<<b, c>>})
      /\ tenant' = tenant
      /\ op' = [op EXCEPT ![i] = Done] /\ UNCHANGED <<announced, stale, forked, renamed>>
  BY DEF RowInserts
<1>5. CASE Holder(b, c) # {}
  BY <1>1, <1>2, <1>3, <1>4, <1>5 DEF RowInsertsDoes
<1>6. CASE Holder(b, c) = {}
  <2>1. NewRow(b, c, c, FALSE, TRUE) \in Aggregator /\ Said(NewRow(b, c, c, FALSE, TRUE)) \in Fact
    BY <1>1, NewTypes
  <2>2. aggr' \in [Aggrs -> Row] /\ aggr'[a] = NewRow(b, c, c, FALSE, TRUE)
        /\ \A e \in Aggrs \ {a} : aggr'[e] = aggr[e]
    BY <1>2, <1>4, <1>6, <2>1 DEF TypeOK, Row
  <2>3. told' = [told EXCEPT ![a] = Said(aggr'[a])] /\ Said(aggr'[a]) \in Fact
    BY <1>4, <1>6, <2>1, <2>2
  <2>4. /\ told' \in [Banks \cup Aggrs -> Tenant \cup Fact \cup {None}]
        /\ told'[a] = Said(aggr'[a])
        /\ \A x \in (Banks \cup Aggrs) \ {a} : told'[x] = told[x]
    BY <1>2, <2>3 DEF TypeOK
  <2>5. matched \in [Banks \X Codes -> Aggrs \cup {None}] /\ <<b, c>> \in Banks \X Codes
    BY <1>1, <1>2 DEF TypeOK
  <2>6. /\ matched' \in [Banks \X Codes -> Aggrs \cup {None}]
        /\ matched'[<<b, c>>] = (IF matched[<<b, c>>] = None THEN a ELSE matched[<<b, c>>])
        /\ \A x \in (Banks \X Codes) \ {<<b, c>>} : matched'[x] = matched[x]
    BY <1>4, <1>6, <2>5
  <2>7. QED
    BY <1>1, <1>2, <1>3, <1>4, <1>6, <2>2, <2>4, <2>6 DEF RowInsertsDoes
<1>7. QED
  BY <1>5, <1>6 DEF RowInsertsDoes

(* What an edit of a bank writes, and what it has read that still holds.   *)
EditBankDoes(k, o, b, says) ==
    /\ o \in Transaction /\ b \in Banks /\ tenant[b] \in Tenant /\ o.bank \in Tenant
    /\ o.kind = "bank" /\ o.step = "wrote" /\ says \in Tenant
    /\ tenant' \in [Banks -> Tenant \cup {None}] /\ tenant'[b] \in Tenant
    /\ tenant'[b].name = Given(o.name, tenant[b].name)
    /\ tenant'[b] = [name |-> Given(o.name, tenant[b].name), status |-> Given(o.status, tenant[b].status)]
    /\ \A c \in Banks \ {b} : tenant'[c] = tenant[c]
    /\ aggr' \in [Aggrs -> Row]
    /\ \A a \in Aggrs : o.seen[a] = None => aggr'[a] = aggr[a]
    /\ \A a \in Aggrs : o.seen[a] # None =>
          /\ o.name \in Names /\ a \in Defaults /\ aggr[a] \in Aggregator /\ aggr[a].bank = b
          /\ aggr'[a] = [aggr[a] EXCEPT !.name = o.name]
    /\ told' \in [Banks \cup Aggrs -> Tenant \cup Fact \cup {None}]
    /\ told'[b] = (IF says # o.bank THEN says ELSE told[b])
    /\ \A c \in Banks \ {b} : told'[c] = told[c]
    /\ \A a \in Aggrs : told'[a] = (IF o.seen[a] # None THEN [Said(o.seen[a]) EXCEPT !.name = o.name]
                                    ELSE told[a])
    /\ stale' \subseteq Banks \cup Aggrs
    /\ \A x \in (Banks \cup Aggrs) \ stale' :
          \/ x = b /\ tenant[b] = o.bank /\ (says # o.bank \/ b \notin stale)
          \/ x \in Aggrs /\ o.seen[x] # None /\ Said(aggr[x]) = Said(o.seen[x])
          \/ x \notin stale /\ x # b /\ (x \in Aggrs => o.seen[x] = None)
    /\ forked' = (IF o.name # None /\ tenant[b].name # o.bank.name THEN forked \cup {b} ELSE forked)
    /\ op' = [op EXCEPT ![k] = Done] /\ UNCHANGED <<announced, matched, renamed, loose>>

LEMMA EditBankFacts ==
  ASSUME Inv, NEW k \in Requests, EditBankCommit(k),
         NEW o, o = op[k], NEW b, b = op[k].of,
         NEW says, says = [name |-> Given(o.name, o.bank.name), status |-> Given(o.status, o.bank.status)]
  PROVE  EditBankDoes(k, o, b, says)
<1> DEFINE follows == {a \in Aggrs : o.seen[a] # None}
           said == follows \cup IF says # o.bank THEN {b} ELSE {}
<1>1. TypeOK /\ Kinds /\ OneWriter /\ k \in Keys
  BY DEF Inv, Keys
<1>2. o \in Transaction /\ o.kind = "bank" /\ o.step = "wrote"
  BY <1>1 DEF TypeOK, EditBankCommit
<1>3. b \in Banks /\ tenant[b] # None /\ o.bank # None
      /\ \A a \in Aggrs : o.seen[a] # None => a \in Defaults /\ aggr[a].bank = b
  BY <1>1, <1>2 DEF Kinds, Shape
<1>4. tenant[b] \in Tenant /\ o.bank \in Tenant
  BY <1>1, <1>2, <1>3 DEF TypeOK, Transaction
<1>5. says \in Tenant
      /\ [name |-> Given(o.name, tenant[b].name), status |-> Given(o.status, tenant[b].status)] \in Tenant
  BY <1>2, <1>4 DEF Given, Tenant, Transaction
<1>6. \A a \in Aggrs : o.seen[a] # None => o.name \in Names /\ o.seen[a] \in Aggregator
  BY <1>1, <1>2 DEF OneWriter, Transaction, Row
<1>7. /\ tenant' = [tenant EXCEPT ![b] = [name |-> Given(o.name, tenant[b].name),
                                          status |-> Given(o.status, tenant[b].status)]]
      /\ aggr' = [a \in Aggrs |-> IF a \in follows THEN [aggr[a] EXCEPT !.name = o.name] ELSE aggr[a]]
      /\ told' = [x \in Banks \cup Aggrs |->
                  IF x \notin said THEN told[x]
                  ELSE IF x = b THEN says ELSE [Said(o.seen[x]) EXCEPT !.name = o.name]]
      /\ stale' = (stale \cup ({a \in follows : Said(aggr[a]) # Said(o.seen[a])}
                               \cup IF tenant[b] # o.bank THEN {b} ELSE {}))
                  \ (said \ ({a \in follows : Said(aggr[a]) # Said(o.seen[a])}
                             \cup IF tenant[b] # o.bank THEN {b} ELSE {}))
      /\ forked' = (IF o.name # None /\ tenant[b].name # o.bank.name THEN forked \cup {b} ELSE forked)
      /\ op' = [op EXCEPT ![k] = Done] /\ UNCHANGED <<announced, matched, renamed, loose>>
  BY DEF EditBankCommit, Spoke
<1>8. \A a \in Aggrs : o.seen[a] # None => aggr[a] \in Aggregator
  BY <1>1, <1>3, MintedType DEF Defaults
<1>9. /\ \A a \in Aggrs : o.seen[a] = None => aggr'[a] = aggr[a]
      /\ \A a \in Aggrs : o.seen[a] # None => aggr'[a] = [aggr[a] EXCEPT !.name = o.name]
  BY <1>7
<1>10. aggr' \in [Aggrs -> Row]
  <2>1. ASSUME NEW a \in Aggrs PROVE aggr'[a] \in Row
    <3>1. CASE o.seen[a] = None
      BY <1>1, <1>9, <3>1 DEF TypeOK
    <3>2. CASE o.seen[a] # None
      <4>1. [aggr[a] EXCEPT !.name = o.name] \in Aggregator
        BY <1>6, <1>8, <3>2 DEF Aggregator
      <4>2. QED
        BY <1>9, <3>2, <4>1 DEF Row
    <3>3. QED
      BY <3>1, <3>2
  <2>2. QED
    BY <1>7, <2>1
<1>11. /\ tenant' \in [Banks -> Tenant \cup {None}] /\ tenant'[b] \in Tenant
       /\ tenant'[b] = [name |-> Given(o.name, tenant[b].name), status |-> Given(o.status, tenant[b].status)]
       /\ \A c \in Banks \ {b} : tenant'[c] = tenant[c]
  BY <1>1, <1>3, <1>5, <1>7 DEF TypeOK
<1>12. tenant'[b].name = Given(o.name, tenant[b].name)
  BY <1>11
<1>13. \A a \in Aggrs : a \notin Banks
  OBVIOUS
<1>14. /\ told'[b] = (IF says # o.bank THEN says ELSE told[b])
       /\ \A c \in Banks \ {b} : told'[c] = told[c]
       /\ \A a \in Aggrs : told'[a] = (IF o.seen[a] # None THEN [Said(o.seen[a]) EXCEPT !.name = o.name]
                                       ELSE told[a])
  <2>1. b \in said <=> says # o.bank
    BY <1>3, <1>13
  <2>2. \A c \in Banks \ {b} : c \notin said
    BY <1>13
  <2>3. \A a \in Aggrs : a # b /\ (a \in said <=> o.seen[a] # None)
    BY <1>3, <1>13
  <2> HIDE DEF said
  <2>4. QED
    BY <1>3, <1>7, <2>1, <2>2, <2>3
<1>15. told' \in [Banks \cup Aggrs -> Tenant \cup Fact \cup {None}]
  <2>1. \A a \in Aggrs : o.seen[a] # None => [Said(o.seen[a]) EXCEPT !.name = o.name] \in Fact
    BY <1>6 DEF Said, Fact, Aggregator
  <2>2. \A x \in Banks \cup Aggrs : told[x] \in Tenant \cup Fact \cup {None}
    BY <1>1 DEF TypeOK
  <2>3. \A c \in Banks : told'[c] \in Tenant \cup Fact \cup {None}
    BY <1>3, <1>5, <1>14, <2>2
  <2>4. ASSUME NEW a \in Aggrs PROVE told'[a] \in Tenant \cup Fact \cup {None}
    <3>1. CASE o.seen[a] # None
      BY <1>14, <2>1, <3>1
    <3>2. CASE o.seen[a] = None
      BY <1>14, <2>2, <3>2
    <3>3. QED
      BY <3>1, <3>2
  <2>5. QED
    BY <1>7, <2>3, <2>4
<1>16. stale' \subseteq Banks \cup Aggrs
  BY <1>1, <1>3, <1>7 DEF TypeOK
<1>17. \A x \in (Banks \cup Aggrs) \ stale' :
               \/ x = b /\ tenant[b] = o.bank /\ (says # o.bank \/ b \notin stale)
               \/ x \in Aggrs /\ o.seen[x] # None /\ Said(aggr[x]) = Said(o.seen[x])
               \/ x \notin stale /\ x # b /\ (x \in Aggrs => o.seen[x] = None)
  BY <1>3, <1>7, <1>13
<1>18. QED
  BY <1>2, <1>3, <1>4, <1>5, <1>6, <1>7, <1>8, <1>9, <1>10, <1>11, <1>12, <1>14, <1>15, <1>16, <1>17 DEF EditBankDoes

EditAggregatorDoes(k, o, a, then, says) ==
    /\ o \in Transaction /\ o.kind = "aggregator" /\ a \in Minted
    /\ o.seen[a] \in Aggregator /\ then \in Aggregator /\ says \in Fact
    /\ o.seen[a].bank = aggr[a].bank /\ o.seen[a].isDefault = aggr[a].isDefault
    /\ Holder(aggr[a].bank, then.code) \subseteq {a}
    /\ tenant' = tenant
    /\ aggr' \in [Aggrs -> Row] /\ aggr'[a] = then
    /\ \A e \in Aggrs \ {a} : aggr'[e] = aggr[e]
    /\ told' \in [Banks \cup Aggrs -> Tenant \cup Fact \cup {None}]
    /\ told'[a] = (IF says # Said(o.seen[a]) THEN says ELSE told[a])
    /\ \A x \in (Banks \cup Aggrs) \ {a} : told'[x] = told[x]
    /\ stale' \subseteq Banks \cup Aggrs
    /\ \A x \in (Banks \cup Aggrs) \ stale' :
          \/ x = a /\ Said(aggr[a]) = Said(o.seen[a]) /\ (says # Said(o.seen[a]) \/ a \notin stale)
          \/ x # a /\ x \notin stale
    /\ renamed' = (IF then.name # aggr[a].name THEN renamed \cup {a} ELSE renamed)
    /\ loose' = (IF aggr[a].locked # o.seen[a].locked \/ aggr[a].code # o.seen[a].code
                   THEN loose \cup {<<aggr[a].bank, aggr[a].code>>} ELSE loose)
    /\ op' = [op EXCEPT ![k] = Done] /\ UNCHANGED <<announced, matched, forked>>

LEMMA EditAggregatorFacts ==
  ASSUME Inv, NEW k \in Requests, EditAggregatorCommit(k),
         NEW o, o = op[k], NEW a, a = op[k].of, NEW then, then = Edited(aggr[a], o),
         NEW says, says = Said(Edited(o.seen[a], o))
  PROVE  EditAggregatorDoes(k, o, a, then, says)
<1>1. TypeOK /\ Kinds /\ k \in Keys
  BY DEF Inv, Keys
<1>2. o \in Transaction /\ o.kind = "aggregator" /\ o.step = "read"
  BY <1>1 DEF TypeOK, EditAggregatorCommit
<1>3. a \in Minted /\ o.seen[a] # None
  BY <1>1, <1>2 DEF Kinds, Shape
<1>4. a \in Aggrs /\ aggr[a] \in Aggregator /\ o.seen[a] \in Aggregator
  BY <1>1, <1>3, MintedType, SeenType
<1>5. o.seen[a].bank = aggr[a].bank /\ o.seen[a].isDefault = aggr[a].isDefault
  BY <1>1, <1>3, <1>4 DEF Kinds, Shape
<1>6. \A row \in Aggregator : Edited(row, o) \in Aggregator
  BY <1>2 DEF Edited, Aggregator, Given, Transaction
<1>7. then \in Aggregator /\ says \in Fact
  BY <1>4, <1>6 DEF Said, Fact, Aggregator
<1>8. /\ Holder(aggr[a].bank, then.code) \subseteq {a}
      /\ tenant' = tenant
      /\ aggr' = [aggr EXCEPT ![a] = then]
      /\ told' = (IF says # Said(o.seen[a]) THEN [told EXCEPT ![a] = says] ELSE told)
      /\ stale' = (stale \cup (IF Said(aggr[a]) # Said(o.seen[a]) THEN {a} ELSE {}))
                  \ ((IF says # Said(o.seen[a]) THEN {a} ELSE {})
                     \ (IF Said(aggr[a]) # Said(o.seen[a]) THEN {a} ELSE {}))
      /\ renamed' = (IF then.name # aggr[a].name THEN renamed \cup {a} ELSE renamed)
      /\ loose' = (IF aggr[a].locked # o.seen[a].locked \/ aggr[a].code # o.seen[a].code
                     THEN loose \cup {<<aggr[a].bank, aggr[a].code>>} ELSE loose)
      /\ op' = [op EXCEPT ![k] = Done] /\ UNCHANGED <<announced, matched, forked>>
  BY DEF EditAggregatorCommit, Spoke
<1>9. /\ aggr' \in [Aggrs -> Row] /\ aggr'[a] = then
      /\ \A e \in Aggrs \ {a} : aggr'[e] = aggr[e]
  BY <1>1, <1>4, <1>7, <1>8 DEF TypeOK, Row
<1>10. /\ told' \in [Banks \cup Aggrs -> Tenant \cup Fact \cup {None}]
       /\ told'[a] = (IF says # Said(o.seen[a]) THEN says ELSE told[a])
       /\ \A x \in (Banks \cup Aggrs) \ {a} : told'[x] = told[x]
  BY <1>1, <1>4, <1>7, <1>8 DEF TypeOK
<1>11. /\ stale' \subseteq Banks \cup Aggrs
       /\ \A x \in (Banks \cup Aggrs) \ stale' :
             \/ x = a /\ Said(aggr[a]) = Said(o.seen[a]) /\ (says # Said(o.seen[a]) \/ a \notin stale)
             \/ x # a /\ x \notin stale
  BY <1>1, <1>4, <1>8 DEF TypeOK
<1>12. QED
  BY <1>2, <1>3, <1>4, <1>5, <1>7, <1>8, <1>9, <1>10, <1>11 DEF EditAggregatorDoes

AnnounceDoes(k, o) ==
    /\ UNCHANGED <<tenant, aggr, matched, forked, renamed, loose>>
    /\ announced' \subseteq Aggrs /\ stale' \subseteq Banks \cup Aggrs
    /\ told' \in [Banks \cup Aggrs -> Tenant \cup Fact \cup {None}]
    /\ \A x \in Banks : told'[x] = told[x] /\ (x \notin stale' => x \notin stale)
    /\ \A x \in Aggrs \ stale' :
          \/ x \notin stale /\ told'[x] = told[x]
          \/ x \in Minted /\ told'[x] = Said(aggr[x])
    /\ op' = [op EXCEPT ![k] = Done]

LEMMA AnnounceFacts ==
  ASSUME Inv, NEW k \in Requests, AnnounceCommit(k), NEW o, o = op[k]
  PROVE  AnnounceDoes(k, o)
<1> DEFINE said == {a \in Aggrs \ announced : o.seen[a] # None}
<1>1. TypeOK /\ Kinds /\ k \in Keys
  BY DEF Inv, Keys
<1>2. /\ announced' = announced \cup said
      /\ told' = [x \in Banks \cup Aggrs |-> IF x \in said THEN Said(o.seen[x]) ELSE told[x]]
      /\ stale' = (stale \cup {a \in said : Said(aggr[a]) # Said(o.seen[a])})
                  \ (said \ {a \in said : Said(aggr[a]) # Said(o.seen[a])})
      /\ op' = [op EXCEPT ![k] = Done] /\ UNCHANGED <<tenant, aggr, matched, forked, renamed, loose>>
  BY DEF AnnounceCommit, Spoke
<1>3. \A a \in said : a \in Aggrs /\ a \in Minted /\ Said(o.seen[a]) \in Fact
  BY <1>1, SeenType DEF Kinds, Shape
<1>4. \A x \in Banks : x \notin said
  OBVIOUS
<1>5. said \subseteq Aggrs
  OBVIOUS
<1>6. announced' \subseteq Aggrs /\ stale' \subseteq Banks \cup Aggrs
  BY <1>1, <1>2, <1>5 DEF TypeOK
<1> HIDE DEF said
<1>7. told' \in [Banks \cup Aggrs -> Tenant \cup Fact \cup {None}]
  BY <1>1, <1>2, <1>3 DEF TypeOK
<1>8. \A x \in Banks : told'[x] = told[x] /\ (x \notin stale' => x \notin stale)
  BY <1>2, <1>4
<1>9. \A x \in Aggrs \ stale' :
               \/ x \notin stale /\ told'[x] = told[x]
               \/ x \in Minted /\ told'[x] = Said(aggr[x])
  BY <1>2, <1>3
<1>10. QED
  BY <1>2, <1>6, <1>7, <1>8, <1>9 DEF AnnounceDoes

-----------------------------------------------------------------------------
(* The steps that only read, and what every step keeps.                    *)

Quiet(k) ==
    \/ k \in RowFacts /\ RowRead(k)
    \/ /\ k \in Requests
       /\ \/ \E b \in Banks, n \in Names \cup {None}, s \in STATUSES \cup {None} : EditBankRead(k, b, n, s)
          \/ EditBankWrite(k)
          \/ \E a \in Aggrs, n \in Names \cup {None}, c \in Codes \cup {None}, s \in STATUSES \cup {None} :
                EditAggregatorRead(k, a, n, c, s)
          \/ AnnounceRead(k)
    \/ Abort(k)

LEMMA NextCases ==
  ASSUME Next
  PROVE  \/ \E k \in Keys : Quiet(k)
         \/ \E k \in Requests, b \in Banks, n \in Names, a \in Aggrs : CreateBank(k, b, n, a)
         \/ \E k \in Requests, b \in Banks, c \in Codes, n \in Names, a \in Aggrs : CreateAggregator(k, b, c, n, a)
         \/ \E i \in RowFacts, a, e \in Aggrs : RowMints(i, a, e)
         \/ \E i \in RowFacts : RowLocks(i)
         \/ \E i \in RowFacts, a \in Aggrs : RowInserts(i, a)
         \/ \E k \in Requests : EditBankCommit(k)
         \/ \E k \in Requests : EditAggregatorCommit(k)
         \/ \E k \in Requests : AnnounceCommit(k)
<1>1. ASSUME NEW k \in Requests, Operator(k)
      PROVE  \/ Quiet(k)
             \/ \E b \in Banks, n \in Names, a \in Aggrs : CreateBank(k, b, n, a)
             \/ \E b \in Banks, c \in Codes, n \in Names, a \in Aggrs : CreateAggregator(k, b, c, n, a)
             \/ EditBankCommit(k) \/ EditAggregatorCommit(k) \/ AnnounceCommit(k)
  BY <1>1 DEF Operator, Quiet
<1>2. ASSUME NEW i \in RowFacts, Ingest(i)
      PROVE  Quiet(i) \/ (\E a, e \in Aggrs : RowMints(i, a, e)) \/ RowLocks(i) \/ \E a \in Aggrs : RowInserts(i, a)
  BY <1>2 DEF Ingest, Quiet
<1>3. ASSUME NEW k \in Keys, Abort(k) PROVE Quiet(k)
  BY <1>3 DEF Quiet
<1>4. CASE \E k \in Requests : Operator(k)
  BY <1>1, <1>4 DEF Keys
<1>5. CASE \E i \in RowFacts : Ingest(i)
  BY <1>2, <1>5 DEF Keys
<1>6. CASE \E k \in Keys : Abort(k)
  BY <1>3, <1>6
<1>7. QED
  BY <1>4, <1>5, <1>6 DEF Next

(* What a reading step leaves in its transaction.                          *)
QuietDoes(k) ==
    /\ UNCHANGED <<master, history>>
    /\ op' \in [Keys -> Transaction] /\ \A j \in Keys \ {k} : op'[j] = op[j]
    /\ \/ op'[k] = Idle
       \/ k \in RowFacts /\ RowRead(k)
       \/ k \in Requests /\ EditBankWrite(k)
       \/ /\ k \in Requests
          /\ \/ \E b \in Banks, n \in Names \cup {None}, s \in STATUSES \cup {None} : EditBankRead(k, b, n, s)
             \/ \E a \in Aggrs, n \in Names \cup {None}, c \in Codes \cup {None}, s \in STATUSES \cup {None} :
                  EditAggregatorRead(k, a, n, c, s)
             \/ AnnounceRead(k)
    /\ Shape(k)'

LEMMA QuietFacts ==
  ASSUME Inv, NEW k \in Keys, Quiet(k)
  PROVE  QuietDoes(k)
<1>1. TypeOK /\ Kinds /\ Shape(k) /\ op[k] \in Transaction
  BY DEF Inv, Kinds, TypeOK
<1>2. /\ Minted' = Minted /\ Defaults' = Defaults
  BY DEF Quiet, RowRead, EditBankRead, EditBankWrite, EditAggregatorRead, AnnounceRead, Abort, Minted, Defaults, master
<1>3. CASE k \in RowFacts /\ RowRead(k)
  <2>1. PICK hit \in Holder(RowOf[k].bank, RowOf[k].code) \cup {None} :
          op' = [op EXCEPT ![k] = [Idle EXCEPT !.step = "read", !.kind = "row", !.of = hit]]
    BY <1>3 DEF RowRead
  <2> DEFINE v == [Idle EXCEPT !.step = "read", !.kind = "row", !.of = hit]
  <2>2. hit \in Minted \cup {None} /\ (hit # None => aggr[hit].bank = RowOf[k].bank)
    BY DEF Holder
  <2>3. v \in Transaction
    BY <2>2, IdleType DEF Transaction, Idle, Minted
  <2>4. v.step = "read" /\ v.kind = "row" /\ v.of = hit /\ v.seen = Nothing
    BY DEF Idle
  <2> HIDE DEF v
  <2>5. op' \in [Keys -> Transaction] /\ op'[k] = v /\ \A j \in Keys \ {k} : op'[j] = op[j]
    BY <1>1, <2>1, <2>3, OpMoves DEF v
  <2>6. UNCHANGED <<master, history>>
    BY <1>3 DEF RowRead
  <2>7. tenant[RowOf[k].bank] # None
    BY <1>3 DEF RowRead
  <2>8. Shape(k)'
    BY <1>2, <1>3, <2>2, <2>4, <2>5, <2>6, <2>7 DEF Shape, Nothing, master
  <2>9. QED
    BY <1>3, <2>5, <2>6, <2>8 DEF QuietDoes
<1>4. ASSUME k \in Requests, NEW b \in Banks, NEW n \in Names \cup {None}, NEW s \in STATUSES \cup {None},
             EditBankRead(k, b, n, s)
      PROVE  UNCHANGED <<master, history>> /\ op' \in [Keys -> Transaction] /\ Shape(k)'
             /\ \A j \in Keys \ {k} : op'[j] = op[j]
  <2> DEFINE v == [Idle EXCEPT !.step = "read", !.kind = "bank", !.of = b,
                               !.name = n, !.status = s, !.bank = tenant[b]]
  <2>1. tenant[b] \in Tenant /\ tenant[b] # None
    BY <1>1, <1>4 DEF EditBankRead, TypeOK
  <2>2. v \in Transaction
    BY <2>1, IdleType DEF Transaction, Idle
  <2>3. v.step = "read" /\ v.kind = "bank" /\ v.of = b /\ v.seen = Nothing /\ v.bank = tenant[b]
    BY DEF Idle
  <2>4. op' = [op EXCEPT ![k] = v] /\ UNCHANGED <<master, history>>
    BY <1>4 DEF EditBankRead
  <2> HIDE DEF v
  <2>5. op' \in [Keys -> Transaction] /\ op'[k] = v /\ \A j \in Keys \ {k} : op'[j] = op[j]
    BY <1>1, <2>2, <2>4, OpMoves
  <2>6. Shape(k)'
    BY <1>2, <1>4, <2>1, <2>3, <2>4, <2>5 DEF Shape, Nothing, master
  <2>7. QED
    BY <2>4, <2>5, <2>6
<1>5. CASE k \in Requests /\ EditBankWrite(k)
  <2> DEFINE b == op[k].of
             follows == {a \in Defaults : /\ aggr[a].bank = b
                                          /\ op[k].name \notin {None, op[k].bank.name}
                                          /\ aggr[a].name = op[k].bank.name}
             seen == [a \in Aggrs |-> IF a \in follows THEN aggr[a] ELSE None]
             v == [op[k] EXCEPT !.step = "wrote", !.seen = seen]
  <2>1. op' = [op EXCEPT ![k] = v] /\ UNCHANGED <<master, history>>
    BY <1>1, <1>5 DEF EditBankWrite, TypeOK
  <2>2. seen \in [Aggrs -> Row]
    BY <1>1 DEF TypeOK, Row
  <2>3. \A a \in Aggrs : seen[a] # None => a \in Defaults /\ aggr[a].bank = b /\ seen[a] = aggr[a]
    OBVIOUS
  <2> HIDE DEF seen, follows
  <2>4. v \in Transaction
    BY <1>1, <2>2 DEF Transaction
  <2>5. v.step = "wrote" /\ v.kind = "bank" /\ v.of = b /\ v.seen = seen /\ v.bank = op[k].bank
    BY <1>1, <1>5 DEF Transaction, EditBankWrite
  <2> HIDE DEF v
  <2>6. op' \in [Keys -> Transaction] /\ op'[k] = v /\ \A j \in Keys \ {k} : op'[j] = op[j]
    BY <1>1, <2>1, <2>4, OpMoves
  <2>7. b \in Banks /\ tenant[b] # None /\ op[k].bank # None /\ k \notin RowFacts
    BY <1>1, <1>5 DEF Shape, EditBankWrite
  <2>8. tenant' = tenant /\ aggr' = aggr
    BY <2>1 DEF master
  <2>9. \A a \in Defaults : a \in Minted
    BY DEF Defaults
  <2>10. Shape(k)'
    BY <1>2, <1>5, <2>3, <2>5, <2>6, <2>7, <2>8, <2>9 DEF Shape
  <2>11. QED
    BY <1>5, <2>1, <2>6, <2>10 DEF QuietDoes
<1>6. ASSUME k \in Requests, NEW a \in Aggrs, NEW n \in Names \cup {None}, NEW c \in Codes \cup {None},
             NEW s \in STATUSES \cup {None}, EditAggregatorRead(k, a, n, c, s)
      PROVE  UNCHANGED <<master, history>> /\ op' \in [Keys -> Transaction] /\ Shape(k)'
             /\ \A j \in Keys \ {k} : op'[j] = op[j]
  <2> DEFINE seen == [Nothing EXCEPT ![a] = aggr[a]]
             v == [Idle EXCEPT !.step = "read", !.kind = "aggregator", !.of = a,
                               !.name = n, !.code = c, !.status = s, !.seen = seen]
  <2>1. a \in Minted /\ op' = [op EXCEPT ![k] = v] /\ UNCHANGED <<master, history>>
    BY <1>6 DEF EditAggregatorRead
  <2>2. aggr[a] \in Row /\ aggr[a] # None
    BY <1>1, <2>1 DEF TypeOK, Minted
  <2>3. seen \in [Aggrs -> Row] /\ seen[a] = aggr[a] /\ \A e \in Aggrs \ {a} : seen[e] = None
    BY <2>2 DEF Nothing, Row
  <2> HIDE DEF seen
  <2>a. v = [Idle EXCEPT !.step = "read", !.kind = "aggregator", !.of = a,
                         !.name = n, !.code = c, !.status = s, !.seen = seen]
    OBVIOUS
  <2> HIDE DEF v
  <2>b. v = [step |-> "read", kind |-> "aggregator", of |-> a, name |-> n, code |-> c, status |-> s,
             bank |-> None, seen |-> seen]
    BY <2>a DEF Idle
  <2>4. v \in Transaction
    BY <2>3, <2>b DEF Transaction
  <2>5. v.step = "read" /\ v.kind = "aggregator" /\ v.of = a /\ v.seen = seen
    BY <2>b
  <2>6. op' \in [Keys -> Transaction] /\ op'[k] = v /\ \A j \in Keys \ {k} : op'[j] = op[j]
    BY <1>1, <2>1, <2>4, OpMoves
  <2>7. tenant' = tenant /\ aggr' = aggr
    BY <2>1 DEF master
  <2>8. Shape(k)'
    BY <1>2, <1>6, <2>1, <2>2, <2>3, <2>5, <2>6, <2>7 DEF Shape
  <2>9. QED
    BY <2>1, <2>6, <2>8
<1>7. ASSUME k \in Requests, AnnounceRead(k)
      PROVE  UNCHANGED <<master, history>> /\ op' \in [Keys -> Transaction] /\ Shape(k)'
             /\ \A j \in Keys \ {k} : op'[j] = op[j]
  <2> DEFINE seen == [a \in Aggrs |-> IF a \in Defaults THEN aggr[a] ELSE None]
             v == [Idle EXCEPT !.step = "read", !.kind = "announce", !.seen = seen]
  <2>1. op' = [op EXCEPT ![k] = v] /\ UNCHANGED <<master, history>>
    BY <1>7 DEF AnnounceRead
  <2>2. seen \in [Aggrs -> Row] /\ \A a \in Aggrs : seen[a] # None => a \in Minted /\ seen[a] = aggr[a]
    BY <1>1 DEF TypeOK, Row, Defaults
  <2> HIDE DEF seen
  <2>3. v \in Transaction
    BY <2>2, IdleType DEF Transaction, Idle
  <2>4. v.step = "read" /\ v.kind = "announce" /\ v.seen = seen
    BY DEF Idle
  <2> HIDE DEF v
  <2>5. op' \in [Keys -> Transaction] /\ op'[k] = v /\ \A j \in Keys \ {k} : op'[j] = op[j]
    BY <1>1, <2>1, <2>3, OpMoves
  <2>6. tenant' = tenant /\ aggr' = aggr
    BY <2>1 DEF master
  <2>7. Shape(k)'
    BY <1>2, <1>7, <2>2, <2>4, <2>5, <2>6 DEF Shape
  <2>8. QED
    BY <2>1, <2>5, <2>7
<1>8. CASE Abort(k)
  <2>1. op' = [op EXCEPT ![k] = Idle] /\ UNCHANGED <<master, history>>
    BY <1>8 DEF Abort
  <2>2. op' \in [Keys -> Transaction] /\ op'[k] = Idle /\ \A j \in Keys \ {k} : op'[j] = op[j]
    BY <1>1, <2>1, IdleType, OpMoves
  <2>3. Shape(k)'
    BY <2>2, IdleFields DEF Shape, Nothing
  <2>4. QED
    BY <2>1, <2>2, <2>3 DEF QuietDoes
<1>9. QED
  BY <1>3, <1>4, <1>5, <1>6, <1>7, <1>8 DEF Quiet, QuietDoes

HIDE MasterAssumption

(* A bank once created stays; an aggregator keeps its bank and whether it  *)
(* is the default, a default keeps its code, and what is locked stays so.  *)
Grows ==
    /\ \A b \in Banks : tenant[b] # None => tenant'[b] # None
    /\ \A a \in Minted : /\ a \in Minted' /\ aggr'[a].bank = aggr[a].bank
                         /\ aggr'[a].isDefault = aggr[a].isDefault
                         /\ aggr[a].isDefault => aggr'[a].code = aggr[a].code
                         /\ aggr[a].locked => aggr'[a].locked
    /\ \A a \in Minted' \ Minted : tenant'[aggr'[a].bank] # None

(* One transaction moves, and is an edit only by reading or by writing as  *)
(* one.                                                                    *)
Moves(k) ==
    /\ op' \in [Keys -> Transaction] /\ \A j \in Keys \ {k} : op'[j] = op[j]
    /\ Shape(k)'
    /\ op'[k].kind = "aggregator" =>
          /\ k \in Requests
          /\ \E a \in Aggrs, n \in Names \cup {None}, c \in Codes \cup {None}, s \in STATUSES \cup {None} :
                EditAggregatorRead(k, a, n, c, s)
    /\ op'[k].kind = "bank" =>
          /\ k \in Requests
          /\ \/ EditBankWrite(k)
             \/ \E b \in Banks, n \in Names \cup {None}, s \in STATUSES \cup {None} : EditBankRead(k, b, n, s)

LEMMA DoneMoves ==
  ASSUME Inv, NEW k \in Keys, op' = [op EXCEPT ![k] = Done]
  PROVE  Moves(k) /\ op'[k] = Done
<1>1. TypeOK
  BY DEF Inv
<1>2. op' \in [Keys -> Transaction] /\ op'[k] = Done /\ \A j \in Keys \ {k} : op'[j] = op[j]
  BY <1>1, IdleType, OpMoves
<1>3. Shape(k)'
  BY <1>2, IdleFields, MasterAssumption DEF Shape, Nothing
<1>4. Done.kind # "aggregator" /\ Done.kind # "bank"
  BY IdleFields, MasterAssumption
<1>5. QED
  BY <1>2, <1>3, <1>4 DEF Moves

LEMMA QuietMoves == ASSUME Inv, NEW k \in Keys, Quiet(k) PROVE Moves(k) /\ UNCHANGED <<master, history>>
<1>1. QuietDoes(k) /\ TypeOK
  BY QuietFacts DEF Inv
<1>2. CASE op'[k] = Idle
  BY <1>1, <1>2, IdleFields, MasterAssumption DEF QuietDoes, Moves
<1>3. CASE k \in RowFacts /\ RowRead(k)
  <2>1. op'[k].kind = "row"
    BY <1>1, <1>3 DEF RowRead, TypeOK, Idle
  <2>2. QED
    BY <1>1, <2>1 DEF QuietDoes, Moves
<1>4. CASE k \in Requests /\ EditBankWrite(k)
  <2>1. op'[k].kind = "bank"
    BY <1>1, <1>4 DEF EditBankWrite, TypeOK, Transaction
  <2>2. QED
    BY <1>1, <1>4, <2>1 DEF QuietDoes, Moves
<1>5. ASSUME k \in Requests, NEW b \in Banks, NEW n \in Names \cup {None}, NEW s \in STATUSES \cup {None},
             EditBankRead(k, b, n, s)
      PROVE  Moves(k)
  <2>1. op'[k].kind = "bank"
    BY <1>1, <1>5 DEF EditBankRead, TypeOK, Idle
  <2>2. QED
    BY <1>1, <1>5, <2>1 DEF QuietDoes, Moves
<1>6. ASSUME k \in Requests, NEW a \in Aggrs, NEW n \in Names \cup {None}, NEW c \in Codes \cup {None},
             NEW s \in STATUSES \cup {None}, EditAggregatorRead(k, a, n, c, s)
      PROVE  Moves(k)
  <2>1. op'[k].kind = "aggregator"
    BY <1>1, <1>6 DEF EditAggregatorRead, TypeOK, Idle
  <2>2. QED
    BY <1>1, <1>6, <2>1 DEF QuietDoes, Moves
<1>7. CASE k \in Requests /\ AnnounceRead(k)
  <2>1. op'[k].kind = "announce"
    BY <1>1, <1>7 DEF AnnounceRead, TypeOK, Idle
  <2>2. QED
    BY <1>1, <2>1 DEF QuietDoes, Moves
<1>8. Moves(k)
  BY <1>1, <1>2, <1>3, <1>4, <1>5, <1>6, <1>7 DEF QuietDoes
<1>9. QED
  BY <1>1, <1>8 DEF QuietDoes

(* An edit of an aggregator leaves the code of a default and of what it    *)
(* read as locked.                                                         *)
LEMMA CodeHolds ==
  ASSUME Inv, NEW k \in Requests, EditAggregatorCommit(k), NEW a, a = op[k].of,
         aggr[a].isDefault \/ op[k].seen[a].locked
  PROVE  Edited(aggr[a], op[k]).code = aggr[a].code \/ aggr[a].code # op[k].seen[a].code
<1>0. EditAggregatorDoes(k, op[k], a, Edited(aggr[a], op[k]), Said(Edited(op[k].seen[a], op[k])))
  BY EditAggregatorFacts
<1>1. op[k].kind = "aggregator" /\ op[k].seen[a].isDefault = aggr[a].isDefault /\ Guarded
      /\ a \in Minted /\ aggr[a] \in Aggregator
  BY <1>0, MintedType DEF EditAggregatorDoes, Inv
<1>2. op[k].code \in {None, op[k].seen[a].code}
  BY <1>1 DEF Guarded
<1>3. QED
  BY <1>1, <1>2 DEF Edited, Given, Aggregator

LEMMA Step ==
  ASSUME Inv, Next
  PROVE  TypeOK' /\ Grows /\ \E k \in Keys : Moves(k)
<1>1. TypeOK /\ Guarded /\ Kinds
  BY DEF Inv
<1>2. ASSUME NEW k \in Keys, Quiet(k) PROVE TypeOK' /\ Grows /\ Moves(k)
  <2>1. UNCHANGED <<master, history>> /\ Moves(k)
    BY <1>2, QuietMoves
  <2>2. TypeOK'
    BY <1>1, <2>1 DEF TypeOK, Moves, master, history
  <2>3. Grows
    BY <2>1 DEF Grows, Minted, master
  <2>4. QED
    BY <2>1, <2>2, <2>3
<1>3. ASSUME NEW k \in Requests, NEW b \in Banks, NEW n \in Names, NEW a \in Aggrs, CreateBank(k, b, n, a)
      PROVE  TypeOK' /\ Grows /\ Moves(k)
  <2>0. CreateBankDoes(k, b, n, a)
    BY <1>3, CreateBankFacts
  <2>1. k \in Keys
    BY DEF Keys
  <2>2. Moves(k)
    BY <2>0, <2>1, DoneMoves DEF CreateBankDoes
  <2>3. TypeOK'
    BY <1>1, <2>0, <2>2 DEF TypeOK, Moves, history, CreateBankDoes
  <2>4. aggr'[a].bank = b /\ tenant'[b] # None
    BY <2>0, NewTenantType DEF CreateBankDoes, NewRow
  <2>5. aggr[a] = None /\ (\A e \in Aggrs \ {a} : aggr'[e] = aggr[e])
        /\ (\A c \in Banks \ {b} : tenant'[c] = tenant[c]) /\ tenant[b] = None
    BY <2>0 DEF CreateBankDoes
  <2>6. Grows
    BY <2>4, <2>5 DEF Grows, Minted
  <2>7. QED
    BY <2>2, <2>3, <2>6
<1>4. ASSUME NEW k \in Requests, NEW b \in Banks, NEW c \in Codes, NEW n \in Names, NEW a \in Aggrs,
             CreateAggregator(k, b, c, n, a)
      PROVE  TypeOK' /\ Grows /\ Moves(k)
  <2>0. CreateAggregatorDoes(k, b, c, n, a)
    BY <1>4, CreateAggregatorFacts
  <2>1. k \in Keys
    BY DEF Keys
  <2>2. Moves(k)
    BY <2>0, <2>1, DoneMoves DEF CreateAggregatorDoes
  <2>3. TypeOK'
    BY <1>1, <2>0, <2>2 DEF TypeOK, Moves, history, CreateAggregatorDoes
  <2>4. aggr'[a].bank = b
    BY <2>0 DEF CreateAggregatorDoes, NewRow
  <2>5. aggr[a] = None /\ (\A e \in Aggrs \ {a} : aggr'[e] = aggr[e]) /\ tenant' = tenant /\ tenant[b] # None
    BY <2>0 DEF CreateAggregatorDoes
  <2>6. Grows
    BY <2>4, <2>5 DEF Grows, Minted
  <2>7. QED
    BY <2>2, <2>3, <2>6
<1>5. ASSUME NEW i \in RowFacts, NEW a \in Aggrs, NEW e \in Aggrs, RowMints(i, a, e)
      PROVE  TypeOK' /\ Grows /\ Moves(i)
  <2> DEFINE b == RowOf[i].bank
             c == RowOf[i].code
  <2>0. RowMintsDoes(i, a, e, b, c)
    BY <1>5, RowMintsFacts
  <2>1. i \in Keys /\ b \in Banks /\ c \in Codes /\ b \in Codes /\ b \in Names /\ c \in Names
    BY RowFactType DEF Keys
  <2>2. Moves(i)
    BY <2>0, <2>1, DoneMoves DEF RowMintsDoes
  <2>3. TypeOK'
    <3>1. /\ tenant' \in [Banks -> Tenant \cup {None}] /\ aggr' \in [Aggrs -> Row]
          /\ told' \in [Banks \cup Aggrs -> Tenant \cup Fact \cup {None}]
          /\ matched' \in [Banks \X Codes -> Aggrs \cup {None}]
          /\ UNCHANGED <<announced, stale, forked, renamed, loose>>
      BY <2>0 DEF RowMintsDoes
    <3>2. QED
      BY <1>1, <2>2, <3>1 DEF TypeOK, Moves
  <2>4. aggr'[a].bank = b /\ aggr'[e].bank = b /\ tenant'[b] # None
    BY <2>0, <2>1, NewTenantType DEF RowMintsDoes, NewRow
  <2>5. aggr[a] = None /\ aggr[e] = None /\ (\A x \in Aggrs \ {a, e} : aggr'[x] = aggr[x])
        /\ (\A x \in Banks \ {b} : tenant'[x] = tenant[x]) /\ tenant[b] = None
    BY <2>0 DEF RowMintsDoes
  <2>6. Grows
    BY <2>4, <2>5 DEF Grows, Minted
  <2>7. QED
    BY <2>2, <2>3, <2>6
<1>6. ASSUME NEW i \in RowFacts, RowLocks(i) PROVE TypeOK' /\ Grows /\ Moves(i)
  <2> DEFINE a == op[i].of
             bc == <<RowOf[i].bank, RowOf[i].code>>
  <2>0. RowLocksDoes(i, a, bc)
    BY <1>6, RowLocksFacts
  <2>1. i \in Keys
    BY DEF Keys
  <2>2. /\ a \in Minted /\ bc \in Banks \X Codes /\ tenant' = tenant
        /\ aggr' \in [Aggrs -> Row] /\ aggr'[a] = [aggr[a] EXCEPT !.locked = TRUE]
        /\ \A e \in Aggrs \ {a} : aggr'[e] = aggr[e]
        /\ matched' \in [Banks \X Codes -> Aggrs \cup {None}]
        /\ loose' = (IF aggr[a].code # RowOf[i].code THEN loose \cup {bc} ELSE loose)
        /\ op' = [op EXCEPT ![i] = Done] /\ UNCHANGED <<told, announced, stale, forked, renamed>>
    BY <2>0 DEF RowLocksDoes
  <2>3. Moves(i)
    BY <2>1, <2>2, DoneMoves
  <2>4. TypeOK'
    BY <1>1, <2>2, <2>3 DEF TypeOK, Moves
  <2>5. aggr[a] \in Aggregator
    BY <1>1, <2>2, MintedType
  <2>6. aggr'[a].bank = aggr[a].bank /\ aggr'[a].isDefault = aggr[a].isDefault
        /\ aggr'[a].code = aggr[a].code /\ aggr'[a].locked /\ aggr'[a] \in Aggregator
    BY <2>2, <2>5 DEF Aggregator
  <2>7. aggr'[a] # None
    BY <2>6, MasterAssumption
  <2>8. Grows
    BY <2>2, <2>6, <2>7 DEF Grows, Minted
  <2>9. QED
    BY <2>3, <2>4, <2>8
<1>7. ASSUME NEW i \in RowFacts, NEW a \in Aggrs, RowInserts(i, a) PROVE TypeOK' /\ Grows /\ Moves(i)
  <2> DEFINE b == RowOf[i].bank
             c == RowOf[i].code
  <2>0. RowInsertsDoes(i, a, b, c)
    BY <1>7, RowInsertsFacts
  <2>1. i \in Keys /\ b \in Banks /\ c \in Codes /\ c \in Names
    BY RowFactType DEF Keys
  <2>2. /\ aggr[a] = None /\ op[i].kind = "row" /\ tenant' = tenant
        /\ op' = [op EXCEPT ![i] = Done] /\ UNCHANGED <<announced, stale, forked, renamed>>
        /\ \/ UNCHANGED <<aggr, told, matched>> /\ loose' = loose \cup {<<b, c>>}
           \/ /\ loose' = loose
              /\ aggr' \in [Aggrs -> Row] /\ aggr'[a] = NewRow(b, c, c, FALSE, TRUE)
              /\ \A e \in Aggrs \ {a} : aggr'[e] = aggr[e]
              /\ told' \in [Banks \cup Aggrs -> Tenant \cup Fact \cup {None}]
              /\ matched' \in [Banks \X Codes -> Aggrs \cup {None}]
    BY <2>0 DEF RowInsertsDoes
  <2>3. Moves(i)
    BY <2>1, <2>2, DoneMoves
  <2>4. TypeOK'
    <3>1. op' \in [Keys -> Transaction]
      BY <2>3 DEF Moves
    <3>2. loose' \subseteq Banks \X Codes
      BY <1>1, <2>1, <2>2 DEF TypeOK
    <3>3. QED
      BY <1>1, <2>2, <3>1, <3>2 DEF TypeOK
  <2>5. tenant[b] # None
    <3>1. op[i] \in Transaction /\ Shape(i) /\ op[i].of = None /\ op[i].step = "read"
      BY <1>1, <1>7, <2>1 DEF TypeOK, Kinds, RowInserts
    <3>2. QED
      BY <2>2, <3>1 DEF Shape
  <2>6. NewRow(b, c, c, FALSE, TRUE).bank = b
    BY DEF NewRow
  <2>7. Grows
    BY <2>2, <2>5, <2>6 DEF Grows, Minted
  <2>8. QED
    BY <2>3, <2>4, <2>7
<1>8. ASSUME NEW k \in Requests, EditBankCommit(k) PROVE TypeOK' /\ Grows /\ Moves(k)
  <2> DEFINE o == op[k]
             b == op[k].of
             says == [name |-> Given(o.name, o.bank.name), status |-> Given(o.status, o.bank.status)]
  <2>0. EditBankDoes(k, o, b, says)
    BY <1>8, EditBankFacts
  <2>1. k \in Keys
    BY DEF Keys
  <2>2. /\ b \in Banks /\ tenant' \in [Banks -> Tenant \cup {None}] /\ tenant'[b] \in Tenant
        /\ \A c \in Banks \ {b} : tenant'[c] = tenant[c]
        /\ aggr' \in [Aggrs -> Row]
        /\ \A a \in Aggrs : o.seen[a] = None => aggr'[a] = aggr[a]
        /\ \A a \in Aggrs : o.seen[a] # None => /\ a \in Defaults /\ aggr[a] \in Aggregator
                                                /\ aggr'[a] = [aggr[a] EXCEPT !.name = o.name]
        /\ told' \in [Banks \cup Aggrs -> Tenant \cup Fact \cup {None}]
        /\ stale' \subseteq Banks \cup Aggrs
        /\ forked' = (IF o.name # None /\ tenant[b].name # o.bank.name THEN forked \cup {b} ELSE forked)
        /\ op' = [op EXCEPT ![k] = Done] /\ UNCHANGED <<announced, matched, renamed, loose>>
    BY <2>0 DEF EditBankDoes
  <2>3. Moves(k)
    BY <2>1, <2>2, DoneMoves
  <2>4. TypeOK'
    BY <1>1, <2>2, <2>3 DEF TypeOK, Moves
  <2>5. \A a \in Minted : /\ a \in Minted' /\ aggr'[a].bank = aggr[a].bank
                          /\ aggr'[a].isDefault = aggr[a].isDefault
                          /\ aggr'[a].code = aggr[a].code
                          /\ aggr[a].locked => aggr'[a].locked
    <3>1. ASSUME NEW a \in Aggrs, o.seen[a] # None
          PROVE  /\ a \in Minted' /\ aggr'[a].bank = aggr[a].bank
                 /\ aggr'[a].isDefault = aggr[a].isDefault
                 /\ aggr'[a].code = aggr[a].code
                 /\ aggr[a].locked => aggr'[a].locked
      <4>1. aggr[a] \in Aggregator /\ aggr'[a] = [aggr[a] EXCEPT !.name = o.name] /\ aggr'[a] \in Row
        BY <2>2, <3>1
      <4>2. aggr'[a] # None
        <5>1. o.name \in Names
          BY <2>0, <3>1 DEF EditBankDoes
        <5>2. aggr'[a] \in Aggregator
          BY <4>1, <5>1 DEF Aggregator
        <5>3. QED
          BY <5>2, MasterAssumption
      <4>3. QED
        BY <4>1, <4>2 DEF Minted, Aggregator
    <3>2. QED
      BY <2>2, <3>1 DEF Minted
  <2>6. \A a \in Minted' : a \in Minted
    BY <2>2 DEF Minted, Defaults
  <2>7. \A c \in Banks : tenant[c] # None => tenant'[c] # None
    <3>1. tenant'[b] # None
      BY <2>2, MasterAssumption
    <3>2. QED
      BY <2>2, <3>1
  <2>8. Grows
    BY <2>5, <2>6, <2>7 DEF Grows
  <2>9. QED
    BY <2>3, <2>4, <2>8
<1>9. ASSUME NEW k \in Requests, EditAggregatorCommit(k) PROVE TypeOK' /\ Grows /\ Moves(k)
  <2> DEFINE o == op[k]
             a == op[k].of
             then == Edited(aggr[a], o)
             says == Said(Edited(o.seen[a], o))
  <2>0. EditAggregatorDoes(k, o, a, then, says)
    BY <1>9, EditAggregatorFacts
  <2>1. k \in Keys
    BY DEF Keys
  <2>2. /\ a \in Minted /\ then \in Aggregator /\ tenant' = tenant
        /\ aggr' \in [Aggrs -> Row] /\ aggr'[a] = then
        /\ \A e \in Aggrs \ {a} : aggr'[e] = aggr[e]
        /\ told' \in [Banks \cup Aggrs -> Tenant \cup Fact \cup {None}]
        /\ stale' \subseteq Banks \cup Aggrs
        /\ renamed' = (IF then.name # aggr[a].name THEN renamed \cup {a} ELSE renamed)
        /\ loose' = (IF aggr[a].locked # o.seen[a].locked \/ aggr[a].code # o.seen[a].code
                       THEN loose \cup {<<aggr[a].bank, aggr[a].code>>} ELSE loose)
        /\ op' = [op EXCEPT ![k] = Done] /\ UNCHANGED <<announced, matched, forked>>
        /\ o.kind = "aggregator"
    BY <2>0 DEF EditAggregatorDoes
  <2>3. a \in Aggrs /\ aggr[a] \in Aggregator /\ aggr[a].bank \in Banks /\ aggr[a].code \in Codes
    BY <1>1, <2>2, MintedType DEF Aggregator
  <2>4. Moves(k)
    BY <2>1, <2>2, DoneMoves
  <2>5. TypeOK'
    <3>1. renamed' \subseteq Aggrs /\ loose' \subseteq Banks \X Codes
      BY <1>1, <2>2, <2>3 DEF TypeOK
    <3>2. QED
      BY <1>1, <2>2, <2>4, <3>1 DEF TypeOK, Moves
  <2>6. then.bank = aggr[a].bank /\ then.isDefault = aggr[a].isDefault /\ then.locked = aggr[a].locked
    BY <2>3 DEF Edited, Aggregator
  <2>7. aggr[a].isDefault => then.code = aggr[a].code
    <3>1. aggr[a].isDefault => aggr[a].code = o.seen[a].code
      BY <1>1, <2>2 DEF Guarded
    <3>2. QED
      BY <1>9, <3>1, CodeHolds
  <2>8. aggr'[a] # None
    BY <2>2, MasterAssumption
  <2>9. Grows
    BY <2>2, <2>3, <2>6, <2>7, <2>8 DEF Grows, Minted
  <2>10. QED
    BY <2>4, <2>5, <2>9
<1>10. ASSUME NEW k \in Requests, AnnounceCommit(k) PROVE TypeOK' /\ Grows /\ Moves(k)
  <2>0. AnnounceDoes(k, op[k])
    BY <1>10, AnnounceFacts
  <2>1. k \in Keys
    BY DEF Keys
  <2>2. Moves(k)
    BY <2>0, <2>1, DoneMoves DEF AnnounceDoes
  <2>3. TypeOK'
    BY <1>1, <2>0, <2>2 DEF TypeOK, Moves, AnnounceDoes
  <2>4. Grows
    BY <2>0 DEF Grows, Minted, AnnounceDoes
  <2>5. QED
    BY <2>2, <2>3, <2>4
<1>11. QED
  BY <1>2, <1>3, <1>4, <1>5, <1>6, <1>7, <1>8, <1>9, <1>10, NextCases DEF Keys

(* What a step changes, and by which action.                               *)
Keeps ==
    /\ forked \subseteq forked' /\ renamed \subseteq renamed' /\ loose \subseteq loose'
    /\ \A a \in Minted' \ Minted : aggr'[a].isDefault => tenant[aggr'[a].bank] = None
    /\ \A b \in Banks : tenant[b] # None =>
          \/ tenant'[b] = tenant[b]
          \/ \E k \in Requests : EditBankCommit(k) /\ op[k].of = b /\ op' = [op EXCEPT ![k] = Done]
    /\ \A b \in Banks : tenant[b] = None /\ tenant'[b] # None =>
          \/ \E k \in Requests, n \in Names, a \in Aggrs : CreateBank(k, b, n, a)
          \/ \E i \in RowFacts, a, e \in Aggrs : RowMints(i, a, e) /\ RowOf[i].bank = b
    /\ \A a \in Minted : \/ aggr'[a].code = aggr[a].code
                         \/ \E k \in Requests : EditAggregatorCommit(k) /\ op[k].of = a
    /\ \A bc \in Banks \X Codes :
          \/ matched'[bc] = matched[bc]
          \/ \E i \in RowFacts, a, e \in Aggrs :
                (RowMints(i, a, e) \/ RowLocks(i) \/ RowInserts(i, a)) /\ bc = <<RowOf[i].bank, RowOf[i].code>>

LEMMA StepKeeps == ASSUME Inv, Next PROVE Keeps
<1>1. TypeOK
  BY DEF Inv
<1>2. ASSUME NEW k \in Keys, Quiet(k) PROVE Keeps
  <2>1. UNCHANGED <<master, history>>
    BY <1>2, QuietMoves
  <2>2. QED
    BY <2>1 DEF Keeps, master, history, Minted
<1>3. ASSUME NEW k \in Requests, NEW b \in Banks, NEW n \in Names, NEW a \in Aggrs, CreateBank(k, b, n, a)
      PROVE  Keeps
  <2>1. CreateBankDoes(k, b, n, a)
    BY <1>3, CreateBankFacts
  <2>2. aggr'[a].bank = b
    BY <2>1 DEF CreateBankDoes, NewRow
  <2>3. /\ UNCHANGED <<forked, renamed, loose, matched>> /\ tenant[b] = None /\ aggr[a] = None
        /\ \A c \in Banks \ {b} : tenant'[c] = tenant[c]
        /\ \A e \in Aggrs \ {a} : aggr'[e] = aggr[e]
    BY <2>1 DEF CreateBankDoes, history
  <2>4. \A x \in Minted' \ Minted : x = a
    BY <2>3 DEF Minted
  <2>5. \A x \in Minted : aggr'[x].code = aggr[x].code
    BY <2>3 DEF Minted
  <2>6. QED
    BY <1>3, <2>2, <2>3, <2>4, <2>5 DEF Keeps
<1>4. ASSUME NEW k \in Requests, NEW b \in Banks, NEW c \in Codes, NEW n \in Names, NEW a \in Aggrs,
             CreateAggregator(k, b, c, n, a)
      PROVE  Keeps
  <2>1. CreateAggregatorDoes(k, b, c, n, a)
    BY <1>4, CreateAggregatorFacts
  <2>2. ~aggr'[a].isDefault
    BY <2>1 DEF CreateAggregatorDoes, NewRow
  <2>3. QED
    BY <2>1, <2>2 DEF Keeps, CreateAggregatorDoes, history, Minted
<1>5. ASSUME NEW i \in RowFacts, NEW a \in Aggrs, NEW e \in Aggrs, RowMints(i, a, e) PROVE Keeps
  <2> DEFINE b == RowOf[i].bank
             c == RowOf[i].code
  <2>1. RowMintsDoes(i, a, e, b, c)
    BY <1>5, RowMintsFacts
  <2>2. aggr'[a].bank = b /\ (aggr'[e].bank = b)
    BY <2>1 DEF RowMintsDoes, NewRow
  <2>3. tenant[b] = None /\ \A x \in Banks \ {b} : tenant'[x] = tenant[x]
    BY <2>1 DEF RowMintsDoes
  <2>4. \A x \in Minted' \ Minted : x = a \/ x = e
    BY <2>1 DEF RowMintsDoes, Minted
  <2>5. aggr[a] = None /\ aggr[e] = None /\ \A x \in Aggrs \ {a, e} : aggr'[x] = aggr[x]
    BY <2>1 DEF RowMintsDoes
  <2>6. \A bc \in (Banks \X Codes) \ {<<b, c>>} : matched'[bc] = matched[bc]
    BY <2>1 DEF RowMintsDoes
  <2>7. UNCHANGED <<forked, renamed, loose>>
    BY <2>1 DEF RowMintsDoes
  <2>8. \A x \in Minted : aggr'[x].code = aggr[x].code
    BY <2>5 DEF Minted
  <2>9. QED
    BY <1>5, <2>2, <2>3, <2>4, <2>6, <2>7, <2>8 DEF Keeps
<1>6. ASSUME NEW i \in RowFacts, RowLocks(i) PROVE Keeps
  <2> DEFINE a == op[i].of
             bc == <<RowOf[i].bank, RowOf[i].code>>
  <2>1. RowLocksDoes(i, a, bc)
    BY <1>6, RowLocksFacts
  <2>2. a \in Minted
    BY <2>1 DEF RowLocksDoes
  <2>3. aggr[a] \in Aggregator /\ a \in Aggrs
    BY <1>1, <2>2, MintedType
  <2>4. aggr'[a].code = aggr[a].code
    BY <2>1, <2>3 DEF RowLocksDoes, Aggregator
  <2>5. \A x \in Minted : aggr'[x].code = aggr[x].code
    BY <2>1, <2>4 DEF RowLocksDoes, Minted
  <2>6. Minted' \subseteq Minted
    BY <2>1, <2>2 DEF RowLocksDoes, Minted
  <2>7. \A x \in Banks \X Codes : x # bc => matched'[x] = matched[x]
    BY <2>1 DEF RowLocksDoes
  <2>8. loose \subseteq loose' /\ UNCHANGED <<tenant, forked, renamed>>
    BY <2>1 DEF RowLocksDoes
  <2>9. QED
    BY <1>6, <2>3, <2>5, <2>6, <2>7, <2>8 DEF Keeps
<1>7. ASSUME NEW i \in RowFacts, NEW a \in Aggrs, RowInserts(i, a) PROVE Keeps
  <2> DEFINE b == RowOf[i].bank
             c == RowOf[i].code
  <2>1. RowInsertsDoes(i, a, b, c)
    BY <1>7, RowInsertsFacts
  <2>2. /\ loose \subseteq loose' /\ UNCHANGED <<tenant, forked, renamed>> /\ aggr[a] = None
        /\ \A e \in Aggrs \ {a} : aggr'[e] = aggr[e]
    BY <2>1 DEF RowInsertsDoes
  <2>3. aggr'[a] = None \/ ~aggr'[a].isDefault
    BY <2>1 DEF RowInsertsDoes, NewRow
  <2>4. \A x \in (Banks \X Codes) \ {<<b, c>>} : matched'[x] = matched[x]
    BY <2>1 DEF RowInsertsDoes
  <2>5. \A x \in Minted : aggr'[x].code = aggr[x].code
    BY <2>2 DEF Minted
  <2>6. \A x \in Minted' \ Minted : ~aggr'[x].isDefault
    BY <2>2, <2>3 DEF Minted
  <2>7. QED
    BY <1>7, <2>2, <2>4, <2>5, <2>6 DEF Keeps
<1>8. ASSUME NEW k \in Requests, EditBankCommit(k) PROVE Keeps
  <2> DEFINE o == op[k]
             b == op[k].of
             says == [name |-> Given(o.name, o.bank.name), status |-> Given(o.status, o.bank.status)]
  <2>1. EditBankDoes(k, o, b, says)
    BY <1>8, EditBankFacts
  <2>2. /\ b \in Banks /\ tenant[b] \in Tenant /\ op' = [op EXCEPT ![k] = Done]
        /\ \A c \in Banks \ {b} : tenant'[c] = tenant[c]
        /\ UNCHANGED <<matched, renamed, loose>> /\ forked \subseteq forked'
    BY <2>1 DEF EditBankDoes
  <2>3. \A x \in Minted : aggr'[x].code = aggr[x].code
    <3>1. ASSUME NEW x \in Minted PROVE aggr'[x].code = aggr[x].code
      <4>1. aggr[x] \in Aggregator /\ x \in Aggrs
        BY <1>1, MintedType
      <4>2. aggr'[x] = aggr[x] \/ aggr'[x] = [aggr[x] EXCEPT !.name = o.name]
        BY <2>1, <4>1 DEF EditBankDoes
      <4>3. QED
        BY <4>1, <4>2 DEF Aggregator
    <3>2. QED
      BY <3>1
  <2>4. Minted' \subseteq Minted
    BY <2>1 DEF EditBankDoes, Minted, Defaults
  <2>5. tenant[b] # None
    BY <2>2, MasterAssumption
  <2>6. QED
    BY <1>8, <2>2, <2>3, <2>4, <2>5 DEF Keeps
<1>9. ASSUME NEW k \in Requests, EditAggregatorCommit(k) PROVE Keeps
  <2> DEFINE o == op[k]
             a == op[k].of
             then == Edited(aggr[a], o)
             says == Said(Edited(o.seen[a], o))
  <2>1. EditAggregatorDoes(k, o, a, then, says)
    BY <1>9, EditAggregatorFacts
  <2>2. /\ UNCHANGED <<tenant, matched, forked>> /\ renamed \subseteq renamed' /\ loose \subseteq loose'
        /\ a \in Minted /\ \A e \in Aggrs \ {a} : aggr'[e] = aggr[e]
    BY <2>1 DEF EditAggregatorDoes
  <2>3. Minted' \subseteq Minted
    BY <2>2 DEF Minted
  <2>4. \A x \in Minted : aggr'[x].code = aggr[x].code \/ x = a
    BY <2>2 DEF Minted
  <2>5. QED
    BY <1>9, <2>2, <2>3, <2>4 DEF Keeps
<1>10. ASSUME NEW k \in Requests, AnnounceCommit(k) PROVE Keeps
  <2>1. AnnounceDoes(k, op[k])
    BY <1>10, AnnounceFacts
  <2>2. QED
    BY <2>1 DEF AnnounceDoes, Keeps, Minted
<1>11. QED
  BY <1>2, <1>3, <1>4, <1>5, <1>6, <1>7, <1>8, <1>9, <1>10, NextCases

-----------------------------------------------------------------------------
(* Every part of the invariant is kept.                                    *)

LEMMA KindsStep ==
  ASSUME Inv, TypeOK', Grows, NEW k \in Keys, Moves(k)
  PROVE  Kinds'
<1>1. ASSUME NEW j \in Keys \ {k} PROVE Shape(j)'
  <2>1. op'[j] = op[j] /\ Shape(j)
    BY DEF Moves, Inv, Kinds
  <2>2. \A a \in Minted : a \in Minted' /\ aggr'[a].bank = aggr[a].bank /\ aggr'[a].isDefault = aggr[a].isDefault
    BY DEF Grows
  <2>3. \A a \in Defaults : a \in Defaults'
    BY <2>2 DEF Defaults
  <2>4. /\ op[j].kind = "bank" => /\ op[j].of \in Banks /\ tenant'[op[j].of] # None /\ op[j].bank # None
                                  /\ \A a \in Aggrs : op[j].seen[a] # None =>
                                        a \in Defaults' /\ aggr'[a].bank = op[j].of
    BY <2>1, <2>2, <2>3 DEF Shape, Grows, Defaults
  <2>5. /\ op[j].kind = "aggregator" => op[j].of \in Minted' /\ op[j].seen[op[j].of] # None
        /\ op[j].kind = "row" =>
              /\ op[j].of \in Minted' \cup {None}
              /\ op[j].of # None => aggr'[op[j].of].bank = RowOf[j].bank
    BY <2>1, <2>2 DEF Shape
  <2>6. j \in RowFacts => RowOf[j].bank \in Banks
    BY RowFactType, MasterAssumption
  <2>7. op[j].kind = "row" => tenant'[RowOf[j].bank] # None
    <3>1. op[j].kind = "row" => j \in RowFacts
      BY <2>1 DEF Shape, Keys
    <3>2. QED
      BY <2>1, <2>6, <3>1 DEF Shape, Grows
  <2>8. \A a \in Aggrs : op[j].seen[a] # None =>
          a \in Minted' /\ op[j].seen[a].bank = aggr'[a].bank /\ op[j].seen[a].isDefault = aggr'[a].isDefault
    BY <2>1, <2>2 DEF Shape
  <2>9. /\ op[j].step \in {"free", "done"} <=> op[j].kind = None
        /\ j \in RowFacts => op[j].kind \in {"row", None}
        /\ j \in Requests => op[j].kind # "row"
    BY <2>1 DEF Shape
  <2>10. QED
    BY <2>1, <2>4, <2>5, <2>7, <2>8, <2>9 DEF Shape
<1>2. Shape(k)'
  BY DEF Moves
<1>3. QED
  BY <1>1, <1>2 DEF Kinds

LEMMA GuardedRequests ==
  ASSUME Inv, Grows, NEW k \in Keys, Moves(k), NEW j \in Requests, op'[j].kind = "aggregator"
  PROVE  LET o == op'[j] IN
         /\ o.code \notin {None, o.seen[o.of].code} => ~o.seen[o.of].locked /\ ~o.seen[o.of].isDefault
         /\ aggr'[o.of].isDefault => o.seen[o.of].code = aggr'[o.of].code
<1>1. TypeOK /\ Kinds /\ Guarded /\ j \in Keys
  BY DEF Inv, Keys
<1>2. CASE j # k
  <2>1. op'[j] = op[j] /\ Shape(j)
    BY <1>1, <1>2 DEF Moves, Kinds
  <2>2. op[j].of \in Minted
    BY <2>1 DEF Shape
  <2>3. QED
    BY <1>1, <2>1, <2>2 DEF Guarded, Grows
<1>3. CASE j = k
  <2>1. PICK a \in Aggrs, n \in Names \cup {None}, c \in Codes \cup {None}, s \in STATUSES \cup {None} :
          EditAggregatorRead(k, a, n, c, s)
    BY <1>3 DEF Moves
  <2> DEFINE v == [Idle EXCEPT !.step = "read", !.kind = "aggregator", !.of = a,
                               !.name = n, !.code = c, !.status = s, !.seen = [Nothing EXCEPT ![a] = aggr[a]]]
  <2>2. op'[j] = v /\ ~Refused(aggr[a], c, s) /\ aggr' = aggr
    BY <1>1, <1>3, <2>1 DEF EditAggregatorRead, TypeOK, master
  <2>3. v.of = a /\ v.code = c /\ v.seen[a] = aggr[a]
    BY DEF Idle, Nothing
  <2> HIDE DEF v
  <2>4. QED
    BY <2>2, <2>3 DEF Refused
<1>4. QED
  BY <1>2, <1>3

(* What a code of a bank has matched is locked, and still bears the code,  *)
(* where a row has matched it by this step and where it had before.        *)
LEMMA MatchedStep ==
  ASSUME Inv, TypeOK', Grows, Keeps, NEW bc \in Banks \X Codes, matched'[bc] # None, bc \notin loose'
  PROVE  /\ matched'[bc] \in Minted' /\ aggr'[matched'[bc]].locked
         /\ aggr'[matched'[bc]].bank = bc[1] /\ aggr'[matched'[bc]].code = bc[2]
<1>1. TypeOK /\ Guarded /\ CodeResolvesForGood /\ bc \notin loose
  BY DEF Inv, Keeps
<1>2. PICK b \in Banks, c \in Codes : bc = <<b, c>>
  OBVIOUS
<1>3. CASE matched[bc] # None
  <2> DEFINE a == matched[bc]
  <2>1. a \in Holder(b, c) /\ aggr[a].locked
    BY <1>1, <1>2, <1>3 DEF CodeResolvesForGood, Guarded
  <2>2. a \in Minted /\ aggr[a].bank = b /\ aggr[a].code = c
    BY <2>1 DEF Holder
  <2>3. a \in Minted' /\ aggr'[a].bank = b /\ aggr'[a].locked
    BY <2>1, <2>2 DEF Grows
  <2>4. matched'[bc] = a
    <3>1. ASSUME NEW i \in RowFacts, NEW x \in Aggrs, NEW e \in Aggrs, RowMints(i, x, e),
                 bc = <<RowOf[i].bank, RowOf[i].code>>
          PROVE  FALSE
      <4>1. tenant[b] = None
        BY <1>2, <3>1 DEF RowMints
      <4>2. QED
        BY <1>1, <2>2, <4>1 DEF Guarded
    <3>2. ASSUME NEW i \in RowFacts, RowLocks(i), bc = <<RowOf[i].bank, RowOf[i].code>>
          PROVE  matched'[bc] = a
      <4>1. RowLocksDoes(i, op[i].of, bc)
        BY <3>2, RowLocksFacts
      <4>2. QED
        BY <1>3, <4>1 DEF RowLocksDoes
    <3>3. ASSUME NEW i \in RowFacts, NEW x \in Aggrs, RowInserts(i, x), bc = <<RowOf[i].bank, RowOf[i].code>>
          PROVE  matched'[bc] = a
      <4>1. RowInsertsDoes(i, x, RowOf[i].bank, RowOf[i].code)
        BY <3>3, RowInsertsFacts
      <4>2. QED
        BY <1>3, <3>3, <4>1 DEF RowInsertsDoes
    <3>4. QED
      BY <3>1, <3>2, <3>3 DEF Keeps
  <2>5. aggr'[a].code = c
    <3>1. ASSUME NEW k \in Requests, EditAggregatorCommit(k), op[k].of = a PROVE aggr'[a].code = c
      <4> DEFINE o == op[k]
                 then == Edited(aggr[a], o)
                 says == Said(Edited(o.seen[a], o))
      <4>1. EditAggregatorDoes(k, o, a, then, says)
        BY <3>1, EditAggregatorFacts
      <4>2. aggr[a].locked = o.seen[a].locked /\ aggr[a].code = o.seen[a].code
        BY <1>2, <2>2, <4>1 DEF EditAggregatorDoes
      <4>3. then.code = aggr[a].code
        BY <2>1, <3>1, <4>2, CodeHolds
      <4>4. QED
        BY <2>2, <4>1, <4>3 DEF EditAggregatorDoes
    <3>2. QED
      BY <2>2, <3>1 DEF Keeps
  <2>6. QED
    BY <1>2, <2>3, <2>4, <2>5
<1>4. CASE matched[bc] = None
  <2>1. PICK i \in RowFacts, x \in Aggrs, e \in Aggrs :
          (RowMints(i, x, e) \/ RowLocks(i) \/ RowInserts(i, x)) /\ bc = <<RowOf[i].bank, RowOf[i].code>>
    BY <1>4 DEF Keeps
  <2>2. b = RowOf[i].bank /\ c = RowOf[i].code
    BY <1>2, <2>1
  <2>3. CASE RowMints(i, x, e)
    <3>1. RowMintsDoes(i, x, e, b, c)
      BY <2>2, <2>3, RowMintsFacts
    <3>2. matched'[bc] = e /\ ((aggr'[e] = NewRow(b, b, b, TRUE, TRUE) /\ c = b) \/ aggr'[e] = NewRow(b, c, c, FALSE, TRUE))
      BY <1>2, <3>1 DEF RowMintsDoes
    <3>3. aggr'[e].bank = b /\ aggr'[e].code = c /\ aggr'[e].locked
      BY <3>2 DEF NewRow
    <3>4. matched'[bc] \in Minted'
      <4>1. aggr'[e] # None
        BY <3>2, NewRowHere
      <4>2. QED
        BY <3>2, <4>1 DEF Minted
    <3>5. QED
      BY <1>2, <3>2, <3>3, <3>4
  <2>4. CASE RowLocks(i)
    <3> DEFINE a == op[i].of
    <3>1. RowLocksDoes(i, a, bc)
      BY <2>1, <2>4, RowLocksFacts
    <3>2. a \in Minted /\ aggr[a].bank = b /\ matched'[bc] = a /\ aggr[a].code = c
          /\ aggr'[a] = [aggr[a] EXCEPT !.locked = TRUE]
      BY <1>4, <2>2, <3>1 DEF RowLocksDoes
    <3>3. aggr[a] \in Aggregator
      BY <1>1, <3>2, MintedType
    <3>4. aggr'[a].bank = b /\ aggr'[a].code = c /\ aggr'[a].locked
      BY <3>2, <3>3 DEF Aggregator
    <3>5. a \in Minted'
      BY <3>2 DEF Grows
    <3>6. QED
      BY <1>2, <3>2, <3>4, <3>5
  <2>5. CASE RowInserts(i, x)
    <3>1. RowInsertsDoes(i, x, b, c)
      BY <2>2, <2>5, RowInsertsFacts
    <3>2. matched'[bc] = x /\ aggr'[x] = NewRow(b, c, c, FALSE, TRUE)
      BY <1>1, <1>2, <1>4, <3>1 DEF RowInsertsDoes
    <3>3. aggr'[x].bank = b /\ aggr'[x].code = c /\ aggr'[x].locked
      BY <3>2 DEF NewRow
    <3>4. aggr'[x] # None
      BY <3>2, NewRowHere
    <3>5. QED
      BY <1>2, <3>2, <3>3, <3>4 DEF Minted
  <2>6. QED
    BY <2>1, <2>3, <2>4, <2>5
<1>5. QED
  BY <1>3, <1>4

LEMMA GuardedStep ==
  ASSUME Inv, TypeOK', Grows, Keeps, NEW k \in Keys, Moves(k)
  PROVE  Guarded' /\ CodeResolvesForGood'
<1>1. TypeOK /\ Guarded
  BY DEF Inv
<1>2. /\ \A j \in Requests : op'[j].kind = "aggregator" /\ op'[j].code \notin {None, op'[j].seen[op'[j].of].code} =>
            ~op'[j].seen[op'[j].of].locked /\ ~op'[j].seen[op'[j].of].isDefault
      /\ \A j \in Requests : op'[j].kind = "aggregator" /\ aggr'[op'[j].of].isDefault =>
            op'[j].seen[op'[j].of].code = aggr'[op'[j].of].code
  BY GuardedRequests
<1>3. ASSUME NEW a \in Minted' PROVE tenant'[aggr'[a].bank] # None
  <2>1. CASE a \in Minted
    <3>1. aggr[a] \in Aggregator /\ tenant[aggr[a].bank] # None /\ aggr'[a].bank = aggr[a].bank
      BY <1>1, <2>1, MintedType DEF Guarded, Grows
    <3>2. aggr[a].bank \in Banks
      BY <3>1 DEF Aggregator
    <3>3. QED
      BY <3>1, <3>2 DEF Grows
  <2>2. CASE a \notin Minted
    BY <2>2 DEF Grows
  <2>3. QED
    BY <2>1, <2>2
<1>4. \A bc \in Banks \X Codes : matched'[bc] # None /\ bc \notin loose' => aggr'[matched'[bc]].locked
  BY MatchedStep
<1>5. Guarded'
  BY <1>2, <1>3, <1>4 DEF Guarded
<1>6. ASSUME NEW b \in Banks, NEW c \in Codes, matched'[<<b, c>>] # None, <<b, c>> \notin loose'
      PROVE  matched'[<<b, c>>] \in Holder(b, c)'
  <2>1. <<b, c>> \in Banks \X Codes /\ <<b, c>>[1] = b /\ <<b, c>>[2] = c
    OBVIOUS
  <2>2. matched'[<<b, c>>] \in Minted' /\ aggr'[matched'[<<b, c>>]].bank = b /\ aggr'[matched'[<<b, c>>]].code = c
    BY <1>6, <2>1, MatchedStep
  <2>3. QED
    BY <2>2 DEF Holder
<1>7. CodeResolvesForGood'
  BY <1>6 DEF CodeResolvesForGood
<1>8. QED
  BY <1>5, <1>7

(* The first default aggregator of a bank, where the bank is new.          *)
LEMMA NewBankStep ==
  ASSUME Inv, Keeps, NEW b \in Banks, tenant[b] = None, tenant'[b] # None
  PROVE  \E a \in Aggrs : /\ a \in Defaults' /\ aggr'[a].bank = b /\ aggr'[a].code = b
                          /\ \A e \in Defaults' : aggr'[e].bank = b => e = a
<1>1. TypeOK /\ Guarded
  BY DEF Inv
<1>2. \A x \in Minted : aggr[x].bank # b
  BY <1>1 DEF Guarded
<1>3. ASSUME NEW k \in Requests, NEW n \in Names, NEW a \in Aggrs, CreateBank(k, b, n, a)
      PROVE  /\ a \in Defaults' /\ aggr'[a].bank = b /\ aggr'[a].code = b
             /\ \A e \in Defaults' : aggr'[e].bank = b => e = a
  <2>1. CreateBankDoes(k, b, n, a)
    BY <1>3, CreateBankFacts
  <2>2. aggr'[a] = NewRow(b, b, n, TRUE, FALSE) /\ \A e \in Aggrs \ {a} : aggr'[e] = aggr[e]
    BY <2>1 DEF CreateBankDoes
  <2>3. NewRow(b, b, n, TRUE, FALSE) # None
    <3>1. b \in Codes
      BY MasterAssumption
    <3>2. QED
      BY <3>1, NewRowIsRow
  <2>4. aggr'[a].bank = b /\ aggr'[a].code = b /\ aggr'[a].isDefault
    BY <2>2 DEF NewRow
  <2>5. QED
    BY <1>2, <2>2, <2>3, <2>4 DEF Defaults, Minted
<1>4. ASSUME NEW i \in RowFacts, NEW a \in Aggrs, NEW e \in Aggrs, RowMints(i, a, e), RowOf[i].bank = b
      PROVE  /\ a \in Defaults' /\ aggr'[a].bank = b /\ aggr'[a].code = b
             /\ \A x \in Defaults' : aggr'[x].bank = b => x = a
  <2> DEFINE c == RowOf[i].code
  <2>1. RowMintsDoes(i, a, e, b, c)
    BY <1>4, RowMintsFacts
  <2>2. /\ aggr'[a] = NewRow(b, b, b, TRUE, TRUE) \/ aggr'[a] = NewRow(b, b, b, TRUE, FALSE)
        /\ a = e \/ aggr'[e] = NewRow(b, c, c, FALSE, TRUE)
        /\ \A x \in Aggrs \ {a, e} : aggr'[x] = aggr[x]
    BY <2>1 DEF RowMintsDoes
  <2>3. aggr'[a].bank = b /\ aggr'[a].code = b /\ aggr'[a].isDefault /\ (a = e \/ ~aggr'[e].isDefault)
    BY <2>2 DEF NewRow
  <2>4. aggr'[a] # None
    <3>1. b \in Codes
      BY MasterAssumption
    <3>2. QED
      BY <2>2, <3>1, NewRowHere
  <2>5. QED
    BY <1>2, <2>2, <2>3, <2>4 DEF Defaults, Minted
<1>5. QED
  BY <1>3, <1>4 DEF Keeps

(* No second aggregator takes a code of its bank.                          *)
CodesUnique == \A a, e \in Minted : aggr[a].bank = aggr[e].bank /\ aggr[a].code = aggr[e].code => a = e

(* A new row is alone with its code, and the others stay as they are.      *)
LEMMA AddedUnique ==
  ASSUME CodesUnique, NEW a \in Aggrs, \A e \in Aggrs \ {a} : aggr'[e] = aggr[e],
         \A e \in Minted \ {a} : ~(aggr[e].bank = aggr'[a].bank /\ aggr[e].code = aggr'[a].code)
  PROVE  CodesUnique'
BY DEF CodesUnique, Minted

LEMMA CodesUniqueStep ==
  ASSUME Inv, Next
  PROVE  CodesUnique'
<1>1. TypeOK /\ Guarded /\ CodesUnique
  BY DEF Inv, OneDefault, CodesUnique
<1>2. ASSUME NEW k \in Keys, Quiet(k) PROVE CodesUnique'
  BY <1>1, <1>2, QuietMoves DEF CodesUnique, Minted, master
<1>3. ASSUME NEW k \in Requests, NEW b \in Banks, NEW n \in Names, NEW a \in Aggrs, CreateBank(k, b, n, a)
      PROVE  CodesUnique'
  <2>1. CreateBankDoes(k, b, n, a)
    BY <1>3, CreateBankFacts
  <2>2. aggr'[a].bank = b /\ tenant[b] = None /\ \A e \in Aggrs \ {a} : aggr'[e] = aggr[e]
    BY <2>1 DEF CreateBankDoes, NewRow
  <2>3. \A e \in Minted : aggr[e].bank # b
    BY <1>1, <2>2 DEF Guarded
  <2>4. QED
    BY <1>1, <2>2, <2>3, AddedUnique
<1>4. ASSUME NEW k \in Requests, NEW b \in Banks, NEW c \in Codes, NEW n \in Names, NEW a \in Aggrs,
             CreateAggregator(k, b, c, n, a)
      PROVE  CodesUnique'
  <2>1. CreateAggregatorDoes(k, b, c, n, a)
    BY <1>4, CreateAggregatorFacts
  <2>2. aggr'[a].bank = b /\ aggr'[a].code = c /\ Holder(b, c) = {} /\ \A e \in Aggrs \ {a} : aggr'[e] = aggr[e]
    BY <2>1 DEF CreateAggregatorDoes, NewRow
  <2>3. \A e \in Minted : ~(aggr[e].bank = b /\ aggr[e].code = c)
    BY <2>2 DEF Holder
  <2>4. QED
    BY <1>1, <2>2, <2>3, AddedUnique
<1>5. ASSUME NEW i \in RowFacts, NEW a \in Aggrs, NEW e \in Aggrs, RowMints(i, a, e) PROVE CodesUnique'
  <2> DEFINE b == RowOf[i].bank
             c == RowOf[i].code
  <2>1. RowMintsDoes(i, a, e, b, c)
    BY <1>5, RowMintsFacts
  <2>2. /\ \A x \in Aggrs \ {a, e} : aggr'[x] = aggr[x]
        /\ tenant[b] = None /\ aggr'[a].bank = b /\ aggr'[a].code = b
        /\ a = e \/ (aggr'[e].bank = b /\ aggr'[e].code = c /\ c # b)
    BY <2>1 DEF RowMintsDoes, NewRow
  <2>3. \A x \in Minted : aggr[x].bank # b
    BY <1>1, <2>2 DEF Guarded
  <2>4. QED
    BY <1>1, <2>2, <2>3 DEF CodesUnique, Minted
<1>6. ASSUME NEW i \in RowFacts, RowLocks(i) PROVE CodesUnique'
  <2> DEFINE a == op[i].of
             bc == <<RowOf[i].bank, RowOf[i].code>>
  <2>1. RowLocksDoes(i, a, bc)
    BY <1>6, RowLocksFacts
  <2>2. a \in Minted /\ aggr'[a] = [aggr[a] EXCEPT !.locked = TRUE] /\ \A e \in Aggrs \ {a} : aggr'[e] = aggr[e]
    BY <2>1 DEF RowLocksDoes
  <2>3. aggr[a] \in Aggregator /\ a \in Aggrs
    BY <1>1, <2>2, MintedType
  <2>4. aggr'[a].bank = aggr[a].bank /\ aggr'[a].code = aggr[a].code
    BY <2>2, <2>3 DEF Aggregator
  <2>5. \A e \in Minted \ {a} : ~(aggr[e].bank = aggr'[a].bank /\ aggr[e].code = aggr'[a].code)
    BY <1>1, <2>2, <2>4 DEF CodesUnique
  <2>6. QED
    BY <1>1, <2>2, <2>3, <2>5, AddedUnique
<1>7. ASSUME NEW i \in RowFacts, NEW a \in Aggrs, RowInserts(i, a) PROVE CodesUnique'
  <2> DEFINE b == RowOf[i].bank
             c == RowOf[i].code
  <2>1. RowInsertsDoes(i, a, b, c)
    BY <1>7, RowInsertsFacts
  <2>2. CASE aggr' = aggr
    BY <1>1, <2>2 DEF CodesUnique, Minted
  <2>3. CASE aggr' # aggr
    <3>1. Holder(b, c) = {} /\ aggr'[a].bank = b /\ aggr'[a].code = c /\ \A e \in Aggrs \ {a} : aggr'[e] = aggr[e]
      BY <2>1, <2>3 DEF RowInsertsDoes, NewRow
    <3>2. \A e \in Minted : ~(aggr[e].bank = b /\ aggr[e].code = c)
      BY <3>1 DEF Holder
    <3>3. QED
      BY <1>1, <3>1, <3>2, AddedUnique
  <2>4. QED
    BY <2>2, <2>3
<1>8. ASSUME NEW k \in Requests, EditBankCommit(k) PROVE CodesUnique'
  <2> DEFINE o == op[k]
             b == op[k].of
             says == [name |-> Given(o.name, o.bank.name), status |-> Given(o.status, o.bank.status)]
  <2>1. EditBankDoes(k, o, b, says)
    BY <1>8, EditBankFacts
  <2>2. Minted' \subseteq Minted
    BY <2>1 DEF EditBankDoes, Minted, Defaults
  <2>3. ASSUME NEW x \in Minted PROVE aggr'[x].code = aggr[x].code /\ aggr'[x].bank = aggr[x].bank
    <3>1. aggr[x] \in Aggregator /\ x \in Aggrs
      BY <1>1, MintedType
    <3>2. aggr'[x] = aggr[x] \/ aggr'[x] = [aggr[x] EXCEPT !.name = o.name]
      BY <2>1, <3>1 DEF EditBankDoes
    <3>3. QED
      BY <3>1, <3>2 DEF Aggregator
  <2>4. QED
    BY <1>1, <2>2, <2>3 DEF CodesUnique
<1>9. ASSUME NEW k \in Requests, EditAggregatorCommit(k) PROVE CodesUnique'
  <2> DEFINE o == op[k]
             a == op[k].of
             then == Edited(aggr[a], o)
             says == Said(Edited(o.seen[a], o))
  <2>1. EditAggregatorDoes(k, o, a, then, says)
    BY <1>9, EditAggregatorFacts
  <2>2. a \in Minted /\ aggr'[a] = then /\ (\A e \in Aggrs \ {a} : aggr'[e] = aggr[e])
        /\ Holder(aggr[a].bank, then.code) \subseteq {a}
    BY <2>1 DEF EditAggregatorDoes
  <2>3. aggr[a] \in Aggregator /\ a \in Aggrs
    BY <1>1, <2>2, MintedType
  <2>4. then.bank = aggr[a].bank
    BY <2>3 DEF Edited, Aggregator
  <2>5. \A e \in Minted \ {a} : ~(aggr[e].bank = then.bank /\ aggr[e].code = then.code)
    BY <2>2, <2>4 DEF Holder
  <2>6. QED
    BY <1>1, <2>2, <2>3, <2>5, AddedUnique
<1>10. ASSUME NEW k \in Requests, AnnounceCommit(k) PROVE CodesUnique'
  <2>1. AnnounceDoes(k, op[k])
    BY <1>10, AnnounceFacts
  <2>2. QED
    BY <1>1, <2>1 DEF AnnounceDoes, CodesUnique, Minted
<1>11. QED
  BY <1>2, <1>3, <1>4, <1>5, <1>6, <1>7, <1>8, <1>9, <1>10, NextCases

LEMMA OneDefaultStep ==
  ASSUME Inv, Next, Grows, Keeps
  PROVE  OneDefault'
<1>1. TypeOK /\ OneDefault
  BY DEF Inv
<1>2. ASSUME NEW b \in Banks, tenant'[b] # None
      PROVE  \E a \in Defaults' : /\ aggr'[a].bank = b /\ aggr'[a].code = b
                                  /\ \A e \in Defaults' : aggr'[e].bank = b => e = a
  <2>1. CASE tenant[b] = None
    BY <1>2, <2>1, NewBankStep
  <2>2. CASE tenant[b] # None
    <3>1. PICK a \in Defaults : /\ aggr[a].bank = b /\ aggr[a].code = b
                                /\ \A e \in Defaults : aggr[e].bank = b => e = a
      BY <1>1, <2>2 DEF OneDefault
    <3>2. a \in Defaults' /\ aggr'[a].bank = b /\ aggr'[a].code = b
      BY <3>1 DEF Defaults, Grows
    <3>3. ASSUME NEW e \in Defaults', aggr'[e].bank = b PROVE e = a
      <4>1. e \in Minted' /\ aggr'[e].isDefault
        BY DEF Defaults
      <4>2. e \in Minted
        BY <2>2, <3>3, <4>1 DEF Keeps
      <4>3. e \in Defaults /\ aggr[e].bank = b
        BY <3>3, <4>1, <4>2 DEF Defaults, Grows
      <4>4. QED
        BY <3>1, <4>3
    <3>4. QED
      BY <3>2, <3>3
  <2>3. QED
    BY <2>1, <2>2
<1>3. CodesUnique'
  BY CodesUniqueStep
<1>4. QED
  BY <1>2, <1>3 DEF OneDefault, CodesUnique

(* An edit of a bank that has written is the only one, has read a default  *)
(* that bears the old name, and its bank stands still until it commits.    *)
LEMMA OneWriterStep ==
  ASSUME Inv, Grows, Keeps, NEW k \in Keys, Moves(k)
  PROVE  OneWriter'
<1>1. TypeOK /\ Kinds /\ OneWriter /\ DefaultBearsName
  BY DEF Inv
<1>2. \A j \in Requests \ {k} : op'[j] = op[j]
  BY DEF Moves, Keys
<1>3. ASSUME k \in Requests, NEW b \in Banks, NEW n \in Names \cup {None}, NEW s \in STATUSES \cup {None},
             EditBankRead(k, b, n, s)
      PROVE  op'[k].step = "read" /\ op'[k].seen = Nothing
  BY <1>1, <1>3 DEF EditBankRead, TypeOK, Idle
<1>4. ASSUME k \in Requests, EditBankWrite(k)
      PROVE  /\ op'[k].kind = "bank" /\ op'[k].of = op[k].of /\ op'[k].name = op[k].name /\ op'[k].bank = op[k].bank
             /\ ~TenantLocked(op[k].of)
             /\ \A a \in Aggrs : op'[k].seen[a] # None <=>
                   /\ aggr[a] # None /\ a \in Defaults /\ aggr[a].bank = op[k].of
                   /\ op[k].name \notin {None, op[k].bank.name} /\ aggr[a].name = op[k].bank.name
             /\ UNCHANGED <<master, history>>
  <2>1. op[k] \in Transaction /\ op[k].kind = "bank"
    BY <1>1, <1>4 DEF TypeOK, Keys, EditBankWrite
  <2> DEFINE follows == {a \in Defaults : /\ aggr[a].bank = op[k].of
                                          /\ op[k].name \notin {None, op[k].bank.name}
                                          /\ aggr[a].name = op[k].bank.name}
             v == [op[k] EXCEPT !.step = "wrote", !.seen = [a \in Aggrs |-> IF a \in follows THEN aggr[a] ELSE None]]
  <2>2. op'[k] = v
    BY <1>1, <1>4 DEF EditBankWrite, TypeOK, Keys
  <2>3. v.kind = op[k].kind /\ v.of = op[k].of /\ v.name = op[k].name /\ v.bank = op[k].bank
        /\ v.seen = [a \in Aggrs |-> IF a \in follows THEN aggr[a] ELSE None]
    BY <2>1 DEF Transaction
  <2>4. \A a \in Aggrs : v.seen[a] # None <=> aggr[a] # None /\ a \in follows
    BY <2>3
  <2> HIDE DEF v
  <2>5. ~TenantLocked(op[k].of) /\ UNCHANGED <<master, history>>
    BY <1>4 DEF EditBankWrite
  <2>6. QED
    BY <2>1, <2>2, <2>3, <2>4, <2>5
<1>5. ASSUME NEW i \in Requests, NEW j \in Requests,
             op'[i].kind = "bank", op'[i].step = "wrote", op'[j].kind = "bank", op'[j].step = "wrote",
             op'[i].of = op'[j].of
      PROVE  i = j
  <2>1. CASE i # k /\ j # k
    BY <1>1, <1>2, <1>5, <2>1 DEF OneWriter
  <2>2. CASE i = k /\ j # k
    <3>1. EditBankWrite(k)
      BY <1>3, <1>5, <2>2 DEF Moves
    <3>2. QED
      BY <1>2, <1>4, <1>5, <2>2, <3>1 DEF TenantLocked
  <2>3. CASE i # k /\ j = k
    <3>1. EditBankWrite(k)
      BY <1>3, <1>5, <2>3 DEF Moves
    <3>2. QED
      BY <1>2, <1>4, <1>5, <2>3, <3>1 DEF TenantLocked
  <2>4. QED
    BY <2>1, <2>2, <2>3
<1>6. ASSUME NEW j \in Requests, op'[j].kind = "bank", \E a \in Aggrs : op'[j].seen[a] # None
      PROVE  op'[j].name \notin {None, op'[j].bank.name}
  <2>1. CASE j # k
    BY <1>1, <1>2, <1>6, <2>1 DEF OneWriter
  <2>2. CASE j = k
    <3>1. EditBankWrite(k)
      BY <1>3, <1>6, <2>2 DEF Moves, Nothing
    <3>2. QED
      BY <1>4, <1>6, <2>2, <3>1
  <2>3. QED
    BY <2>1, <2>2
<1>7. ASSUME NEW j \in Requests, op'[j].kind = "bank", op'[j].step = "wrote",
             op'[j].name \notin {None, op'[j].bank.name},
             tenant'[op'[j].of].name = op'[j].bank.name, op'[j].of \notin forked',
             NEW a \in Defaults' \ renamed', aggr'[a].bank = op'[j].of
      PROVE  op'[j].seen[a] # None
  <2>1. CASE j = k
    <3>1. EditBankWrite(k)
      BY <1>3, <1>7, <2>1 DEF Moves
    <3>2. UNCHANGED <<tenant, aggr, forked, renamed>>
      BY <1>4, <2>1, <3>1 DEF master, history
    <3>3. a \in Defaults \ renamed /\ aggr[a] # None /\ a \in Aggrs
      BY <1>7, <3>2 DEF Defaults, Minted
    <3>4. aggr[a].name = tenant[aggr[a].bank].name
      BY <1>1, <1>7, <3>2, <3>3 DEF DefaultBearsName
    <3>5. QED
      BY <1>4, <1>7, <2>1, <3>1, <3>2, <3>3, <3>4
  <2>2. CASE j # k
    <3> DEFINE b == op[j].of
    <3>1. op'[j] = op[j] /\ j \in Keys /\ Shape(j)
      BY <1>1, <1>2, <2>2 DEF Keys, Kinds
    <3>2. b \in Banks /\ tenant[b] # None
      BY <1>7, <3>1 DEF Shape
    <3>3. tenant'[b] = tenant[b]
      <4>1. ASSUME NEW m \in Requests, EditBankCommit(m), op[m].of = b, op' = [op EXCEPT ![m] = Done]
            PROVE  FALSE
        <5>1. m = j
          BY <1>1, <1>7, <3>1, <4>1 DEF OneWriter, EditBankCommit
        <5>2. op'[j] = Done
          BY <1>1, <3>1, <4>1, <5>1 DEF TypeOK
        <5>3. QED
          BY <1>7, <5>2, IdleFields, MasterAssumption
      <4>2. QED
        BY <3>2, <4>1 DEF Keeps
    <3>4. a \in Minted' /\ aggr'[a].isDefault /\ aggr'[a].bank = b
      BY <1>7, <3>1 DEF Defaults
    <3>5. a \in Minted
      BY <3>2, <3>4 DEF Keeps
    <3>6. a \in Defaults \ renamed /\ aggr[a].bank = b /\ b \notin forked
      BY <1>7, <3>1, <3>4, <3>5 DEF Defaults, Grows, Keeps
    <3>7. QED
      BY <1>1, <1>7, <3>1, <3>3, <3>6 DEF OneWriter
  <2>3. QED
    BY <2>1, <2>2
<1>8. QED
  BY <1>5, <1>6, <1>7 DEF OneWriter

LEMMA BearsNameStep ==
  ASSUME Inv, Next, Grows, Keeps
  PROVE  DefaultBearsName'
<1>1. TypeOK /\ Guarded /\ OneWriter /\ DefaultBearsName
  BY DEF Inv
<1> SUFFICES ASSUME NEW a \in Defaults' \ renamed', aggr'[a].bank \notin forked'
             PROVE  aggr'[a].name = tenant'[aggr'[a].bank].name
  BY DEF DefaultBearsName
<1>2. a \in Minted' /\ aggr'[a].isDefault /\ a \in Aggrs /\ aggr'[a] # None
  BY DEF Defaults, Minted
(* A default that was there bore its bank's name.                          *)
<1>3. a \in Minted => /\ a \in Defaults \ renamed /\ aggr[a] \in Aggregator /\ aggr[a].bank \in Banks
                      /\ aggr[a].bank = aggr'[a].bank /\ tenant[aggr[a].bank] # None
                      /\ aggr[a].bank \notin forked /\ aggr[a].name = tenant[aggr[a].bank].name
  <2>1. ASSUME a \in Minted
        PROVE  /\ a \in Defaults \ renamed /\ aggr[a].bank = aggr'[a].bank
               /\ aggr[a].bank \notin forked /\ aggr[a] \in Aggregator
    BY <1>1, <1>2, <2>1, MintedType DEF Grows, Keeps, Defaults
  <2>2. ASSUME a \in Minted PROVE aggr[a].bank \in Banks /\ tenant[aggr[a].bank] # None
    BY <1>1, <2>1, <2>2 DEF Aggregator, Guarded
  <2>3. QED
    BY <1>1, <2>1, <2>2 DEF DefaultBearsName
<1>4. ASSUME a \in Minted, UNCHANGED <<tenant, aggr>> PROVE aggr'[a].name = tenant'[aggr'[a].bank].name
  BY <1>3, <1>4
<1>5. ASSUME NEW k \in Keys, Quiet(k) PROVE aggr'[a].name = tenant'[aggr'[a].bank].name
  <2>1. UNCHANGED <<tenant, aggr>>
    BY <1>5, QuietMoves DEF master
  <2>2. QED
    BY <1>2, <1>4, <2>1 DEF Minted
<1>6. ASSUME NEW k \in Requests, NEW b \in Banks, NEW n \in Names, NEW e \in Aggrs, CreateBank(k, b, n, e)
      PROVE  aggr'[a].name = tenant'[aggr'[a].bank].name
  <2>1. CreateBankDoes(k, b, n, e)
    BY <1>6, CreateBankFacts
  <2>2. aggr'[e].bank = b /\ aggr'[e].name = n /\ tenant'[b].name = n
    BY <2>1 DEF CreateBankDoes, NewRow, NewTenant
  <2>3. CASE a # e
    <3>1. aggr'[a] = aggr[a] /\ tenant[b] = None /\ \A c \in Banks \ {b} : tenant'[c] = tenant[c]
      BY <1>2, <2>1, <2>3 DEF CreateBankDoes
    <3>2. QED
      BY <1>2, <1>3, <3>1 DEF Minted
  <2>4. QED
    BY <2>2, <2>3
<1>7. ASSUME NEW k \in Requests, NEW b \in Banks, NEW c \in Codes, NEW n \in Names, NEW e \in Aggrs,
             CreateAggregator(k, b, c, n, e)
      PROVE  aggr'[a].name = tenant'[aggr'[a].bank].name
  <2>1. CreateAggregatorDoes(k, b, c, n, e)
    BY <1>7, CreateAggregatorFacts
  <2>2. ~aggr'[e].isDefault /\ tenant' = tenant
    BY <2>1 DEF CreateAggregatorDoes, NewRow
  <2>3. aggr'[a] = aggr[a]
    BY <1>2, <2>1, <2>2 DEF CreateAggregatorDoes
  <2>4. QED
    BY <1>2, <1>3, <2>2, <2>3 DEF Minted
<1>8. ASSUME NEW i \in RowFacts, NEW e \in Aggrs, NEW x \in Aggrs, RowMints(i, e, x)
      PROVE  aggr'[a].name = tenant'[aggr'[a].bank].name
  <2> DEFINE b == RowOf[i].bank
             c == RowOf[i].code
  <2>1. RowMintsDoes(i, e, x, b, c)
    BY <1>8, RowMintsFacts
  <2>2. aggr'[e].bank = b /\ aggr'[e].name = b /\ tenant'[b].name = b /\ (e = x \/ ~aggr'[x].isDefault)
    BY <2>1 DEF RowMintsDoes, NewRow, NewTenant
  <2>3. CASE a # e
    <3>1. /\ aggr'[a] = aggr[a] /\ tenant[b] = None
          /\ \A y \in Banks \ {b} : tenant'[y] = tenant[y]
      BY <1>2, <2>1, <2>2, <2>3 DEF RowMintsDoes
    <3>2. QED
      BY <1>2, <1>3, <3>1 DEF Minted
  <2>4. QED
    BY <2>2, <2>3
<1>9. ASSUME NEW i \in RowFacts, RowLocks(i) PROVE aggr'[a].name = tenant'[aggr'[a].bank].name
  <2> DEFINE e == op[i].of
             bc == <<RowOf[i].bank, RowOf[i].code>>
  <2>1. RowLocksDoes(i, e, bc)
    BY <1>9, RowLocksFacts
  <2>2. e \in Minted /\ tenant' = tenant /\ aggr'[e] = [aggr[e] EXCEPT !.locked = TRUE]
        /\ \A x \in Aggrs \ {e} : aggr'[x] = aggr[x]
    BY <2>1 DEF RowLocksDoes
  <2>3. a \in Minted /\ (aggr[a] \in Aggregator => aggr'[a].name = aggr[a].name)
    BY <1>2, <2>2 DEF Minted, Aggregator
  <2>4. QED
    BY <1>3, <2>2, <2>3
<1>10. ASSUME NEW i \in RowFacts, NEW e \in Aggrs, RowInserts(i, e) PROVE aggr'[a].name = tenant'[aggr'[a].bank].name
  <2>1. RowInsertsDoes(i, e, RowOf[i].bank, RowOf[i].code)
    BY <1>10, RowInsertsFacts
  <2>2. tenant' = tenant /\ (aggr' = aggr \/ (~aggr'[e].isDefault /\ \A x \in Aggrs \ {e} : aggr'[x] = aggr[x]))
    BY <2>1 DEF RowInsertsDoes, NewRow
  <2>3. aggr'[a] = aggr[a]
    BY <1>2, <2>2
  <2>4. QED
    BY <1>2, <1>3, <2>2, <2>3 DEF Minted
<1>11. ASSUME NEW k \in Requests, EditBankCommit(k) PROVE aggr'[a].name = tenant'[aggr'[a].bank].name
  <2> DEFINE o == op[k]
             b == op[k].of
             says == [name |-> Given(o.name, o.bank.name), status |-> Given(o.status, o.bank.status)]
  <2>1. EditBankDoes(k, o, b, says)
    BY <1>11, EditBankFacts
  <2>2. /\ b \in Banks /\ tenant'[b].name = Given(o.name, tenant[b].name)
        /\ \A c \in Banks \ {b} : tenant'[c] = tenant[c]
        /\ o.kind = "bank" /\ o.step = "wrote"
        /\ forked' = (IF o.name # None /\ tenant[b].name # o.bank.name THEN forked \cup {b} ELSE forked)
    BY <2>1 DEF EditBankDoes
  <2>3. a \in Minted
    BY <1>2, <2>1 DEF EditBankDoes, Minted, Defaults
  <2>4. CASE aggr[a].bank # b
    <3>1. aggr'[a] = aggr[a]
      BY <1>2, <2>1, <2>4 DEF EditBankDoes
    <3>2. QED
      BY <1>3, <2>2, <2>3, <2>4, <3>1
  <2>5. CASE aggr[a].bank = b
    <3>1. b \notin forked /\ b \notin forked' /\ aggr[a].name = tenant[b].name /\ aggr'[a].bank = b
          /\ a \in Defaults \ renamed
      BY <1>3, <2>3, <2>5
    <3>2. CASE o.name = None
      <4>1. tenant'[b].name = tenant[b].name
        BY <2>2, <3>2 DEF Given
      <4>2. o.seen[a] = None
        BY <1>1, <1>2, <2>2, <3>2 DEF OneWriter
      <4>3. aggr'[a] = aggr[a]
        BY <1>2, <2>1, <4>2 DEF EditBankDoes
      <4>4. QED
        BY <3>1, <4>1, <4>3
    <3>3. CASE o.name # None
      <4>1. tenant[b].name = o.bank.name /\ tenant'[b].name = o.name
        BY <2>2, <3>1, <3>3 DEF Given
      <4>2. CASE o.seen[a] = None
        <5>1. aggr'[a] = aggr[a] /\ o.name = o.bank.name
          BY <1>1, <1>2, <2>1, <2>2, <2>5, <3>1, <3>3, <4>1, <4>2 DEF EditBankDoes, OneWriter
        <5>2. QED
          BY <3>1, <4>1, <5>1
      <4>3. CASE o.seen[a] # None
        <5>1. aggr'[a] = [aggr[a] EXCEPT !.name = o.name] /\ aggr[a] \in Aggregator
          BY <1>2, <2>1, <4>3 DEF EditBankDoes
        <5>2. aggr'[a].name = o.name
          BY <5>1 DEF Aggregator
        <5>3. QED
          BY <3>1, <4>1, <5>2
      <4>4. QED
        BY <4>2, <4>3
    <3>4. QED
      BY <3>2, <3>3
  <2>6. QED
    BY <2>4, <2>5
<1>12. ASSUME NEW k \in Requests, EditAggregatorCommit(k) PROVE aggr'[a].name = tenant'[aggr'[a].bank].name
  <2> DEFINE o == op[k]
             e == op[k].of
             then == Edited(aggr[e], o)
             says == Said(Edited(o.seen[e], o))
  <2>1. EditAggregatorDoes(k, o, e, then, says)
    BY <1>12, EditAggregatorFacts
  <2>2. /\ e \in Minted /\ tenant' = tenant /\ aggr'[e] = then /\ \A x \in Aggrs \ {e} : aggr'[x] = aggr[x]
        /\ renamed' = (IF then.name # aggr[e].name THEN renamed \cup {e} ELSE renamed)
    BY <2>1 DEF EditAggregatorDoes
  <2>3. a \in Minted /\ aggr'[a].name = aggr[a].name
    BY <1>2, <2>2 DEF Minted
  <2>4. QED
    BY <1>3, <2>2, <2>3
<1>13. ASSUME NEW k \in Requests, AnnounceCommit(k) PROVE aggr'[a].name = tenant'[aggr'[a].bank].name
  <2>1. AnnounceDoes(k, op[k])
    BY <1>13, AnnounceFacts
  <2>2. UNCHANGED <<tenant, aggr>>
    BY <2>1 DEF AnnounceDoes
  <2>3. QED
    BY <1>2, <1>4, <2>2 DEF Minted
<1>14. QED
  BY <1>5, <1>6, <1>7, <1>8, <1>9, <1>10, <1>11, <1>12, <1>13, NextCases

(* What was last said of a bank and of an aggregator, taken alone.         *)
SaidOfBanks == \A b \in Banks \ stale : told[b] = tenant[b]
SaidOfAggregators == \A a \in Aggrs \ stale : IF a \in Minted THEN told[a] = Said(aggr[a]) ELSE told[a] = None

LEMMA LastWordStep ==
  ASSUME Inv, Next
  PROVE  LastWordTrue'
<1>1. TypeOK /\ SaidOfBanks /\ SaidOfAggregators
  BY DEF Inv, LastWordTrue, SaidOfBanks, SaidOfAggregators
<1>2. ASSUME NEW k \in Keys, Quiet(k) PROVE SaidOfBanks' /\ SaidOfAggregators'
  <2>1. UNCHANGED <<tenant, aggr, told, stale>>
    BY <1>2, QuietMoves DEF master, history
  <2>2. QED
    BY <1>1, <2>1 DEF SaidOfBanks, SaidOfAggregators, Minted
<1>3. ASSUME NEW k \in Requests, NEW b \in Banks, NEW n \in Names, NEW a \in Aggrs, CreateBank(k, b, n, a)
      PROVE  SaidOfBanks' /\ SaidOfAggregators'
  <2>1. CreateBankDoes(k, b, n, a)
    BY <1>3, CreateBankFacts
  <2>2. stale' = stale /\ (\A c \in Banks : c # a) /\ \A e \in Aggrs : e # b
    BY <2>1, MasterAssumption DEF CreateBankDoes, history
  <2>3. SaidOfBanks'
    BY <1>1, <2>1, <2>2 DEF SaidOfBanks, CreateBankDoes
  <2>4. aggr'[a] # None
    <3>1. b \in Codes
      BY MasterAssumption
    <3>2. QED
      BY <2>1, <3>1, NewRowIsRow DEF CreateBankDoes
  <2>5. SaidOfAggregators'
    BY <1>1, <2>1, <2>2, <2>4 DEF SaidOfAggregators, CreateBankDoes, Minted, Said
  <2>6. QED
    BY <2>3, <2>5
<1>4. ASSUME NEW k \in Requests, NEW b \in Banks, NEW c \in Codes, NEW n \in Names, NEW a \in Aggrs,
             CreateAggregator(k, b, c, n, a)
      PROVE  SaidOfBanks' /\ SaidOfAggregators'
  <2>1. CreateAggregatorDoes(k, b, c, n, a)
    BY <1>4, CreateAggregatorFacts
  <2>2. stale' = stale /\ (\A x \in Banks : x # a)
    BY <2>1, MasterAssumption DEF CreateAggregatorDoes, history
  <2>3. SaidOfBanks'
    BY <1>1, <2>1, <2>2 DEF SaidOfBanks, CreateAggregatorDoes
  <2>4. aggr'[a] # None
    BY <2>1, NewRowIsRow DEF CreateAggregatorDoes
  <2>5. SaidOfAggregators'
    BY <1>1, <2>1, <2>2, <2>4 DEF SaidOfAggregators, CreateAggregatorDoes, Minted, Said
  <2>6. QED
    BY <2>3, <2>5
<1>5. ASSUME NEW i \in RowFacts, NEW a \in Aggrs, NEW e \in Aggrs, RowMints(i, a, e)
      PROVE  SaidOfBanks' /\ SaidOfAggregators'
  <2> DEFINE b == RowOf[i].bank
             c == RowOf[i].code
  <2>1. RowMintsDoes(i, a, e, b, c)
    BY <1>5, RowMintsFacts
  <2>2. stale' = stale /\ (\A x \in Banks : x # a /\ x # e) /\ (\A x \in Aggrs : x # b)
        /\ b \in Banks /\ b \in Codes /\ c \in Codes
    BY <2>1, RowFactType, MasterAssumption DEF RowMintsDoes
  <2>3. SaidOfBanks'
    BY <1>1, <2>1, <2>2 DEF SaidOfBanks, RowMintsDoes
  <2>4. aggr'[a] # None /\ aggr'[e] # None
    <3>1. \A l \in BOOLEAN : NewRow(b, b, b, TRUE, l) # None /\ NewRow(b, c, c, FALSE, l) # None
      BY <2>2, NewRowHere
    <3>2. QED
      BY <2>1, <3>1 DEF RowMintsDoes
  <2>5. ASSUME NEW x \in Aggrs \ stale'
        PROVE  IF x \in Minted' THEN told'[x] = Said(aggr'[x]) ELSE told'[x] = None
    <3>1. CASE x = a \/ x = e
      BY <2>1, <2>4, <3>1 DEF RowMintsDoes, Minted
    <3>2. CASE x # a /\ x # e
      <4>1. told'[x] = told[x] /\ aggr'[x] = aggr[x] /\ x \notin stale
        BY <2>1, <2>2, <3>2 DEF RowMintsDoes
      <4>2. QED
        BY <1>1, <4>1 DEF SaidOfAggregators, Minted
    <3>3. QED
      BY <3>1, <3>2
  <2>6. SaidOfAggregators'
    BY <2>5 DEF SaidOfAggregators, Said
  <2>7. QED
    BY <2>3, <2>6
<1>6. ASSUME NEW i \in RowFacts, RowLocks(i) PROVE SaidOfBanks' /\ SaidOfAggregators'
  <2> DEFINE a == op[i].of
             bc == <<RowOf[i].bank, RowOf[i].code>>
  <2>1. RowLocksDoes(i, a, bc)
    BY <1>6, RowLocksFacts
  <2>2. UNCHANGED <<tenant, told, stale>> /\ a \in Minted /\ aggr'[a] = [aggr[a] EXCEPT !.locked = TRUE]
        /\ (\A x \in Aggrs \ {a} : aggr'[x] = aggr[x]) /\ aggr' \in [Aggrs -> Row]
    BY <2>1 DEF RowLocksDoes
  <2>3. aggr[a] \in Aggregator /\ a \in Aggrs
    BY <1>1, <2>2, MintedType
  <2>4. Said(aggr'[a]) = Said(aggr[a]) /\ aggr'[a] \in Aggregator
    BY <2>2, <2>3 DEF Said, Aggregator
  <2>5. a \in Minted'
    BY <2>3, <2>4, MasterAssumption DEF Minted
  <2>6. ASSUME NEW x \in Aggrs \ stale'
        PROVE  IF x \in Minted' THEN told'[x] = Said(aggr'[x]) ELSE told'[x] = None
    BY <1>1, <2>2, <2>4, <2>5 DEF SaidOfAggregators, Minted
  <2>7. SaidOfAggregators'
    BY <2>6 DEF SaidOfAggregators, Said
  <2>8. SaidOfBanks'
    BY <1>1, <2>2 DEF SaidOfBanks
  <2>9. QED
    BY <2>7, <2>8
<1>7. ASSUME NEW i \in RowFacts, NEW a \in Aggrs, RowInserts(i, a) PROVE SaidOfBanks' /\ SaidOfAggregators'
  <2> DEFINE b == RowOf[i].bank
             c == RowOf[i].code
  <2>1. RowInsertsDoes(i, a, b, c)
    BY <1>7, RowInsertsFacts
  <2>2. CASE UNCHANGED <<aggr, told>>
    <3>1. UNCHANGED <<tenant, aggr, told, stale>>
      BY <2>1, <2>2 DEF RowInsertsDoes
    <3>2. QED
      BY <1>1, <3>1 DEF SaidOfBanks, SaidOfAggregators, Minted
  <2>3. CASE ~UNCHANGED <<aggr, told>>
    <3>1. /\ UNCHANGED <<tenant, stale>> /\ b \in Banks /\ c \in Codes /\ aggr'[a] = NewRow(b, c, c, FALSE, TRUE)
          /\ \A e \in Aggrs \ {a} : aggr'[e] = aggr[e]
          /\ told'[a] = Said(aggr'[a]) /\ \A x \in (Banks \cup Aggrs) \ {a} : told'[x] = told[x]
      BY <2>1, <2>3 DEF RowInsertsDoes
    <3>2. aggr'[a] # None /\ \A x \in Banks : x # a
      BY <3>1, NewRowHere, MasterAssumption
    <3>3. SaidOfBanks'
      BY <1>1, <3>1, <3>2 DEF SaidOfBanks
    <3>4. SaidOfAggregators'
      BY <1>1, <3>1, <3>2 DEF SaidOfAggregators, Minted, Said
    <3>5. QED
      BY <3>3, <3>4
  <2>4. QED
    BY <2>2, <2>3
<1>8. ASSUME NEW k \in Requests, EditBankCommit(k) PROVE SaidOfBanks' /\ SaidOfAggregators'
  <2> DEFINE o == op[k]
             b == op[k].of
             says == [name |-> Given(o.name, o.bank.name), status |-> Given(o.status, o.bank.status)]
  <2>1. EditBankDoes(k, o, b, says)
    BY <1>8, EditBankFacts
  <2>2. /\ o.bank \in Tenant /\ b \in Banks
        /\ tenant'[b] = [name |-> Given(o.name, tenant[b].name), status |-> Given(o.status, tenant[b].status)]
        /\ told'[b] = (IF says # o.bank THEN says ELSE told[b])
        /\ \A x \in Banks \ {b} : tenant'[x] = tenant[x] /\ told'[x] = told[x]
        /\ \A a \in Aggrs : told'[a] = (IF o.seen[a] # None THEN [Said(o.seen[a]) EXCEPT !.name = o.name]
                                        ELSE told[a])
    BY <2>1 DEF EditBankDoes
  <2>3. \A x \in (Banks \cup Aggrs) \ stale' :
               \/ x = b /\ tenant[b] = o.bank /\ (says # o.bank \/ b \notin stale)
               \/ x \in Aggrs /\ o.seen[x] # None /\ Said(aggr[x]) = Said(o.seen[x])
               \/ x \notin stale /\ x # b /\ (x \in Aggrs => o.seen[x] = None)
    BY <2>1 DEF EditBankDoes
  <2>4. \A x \in Banks : x \notin Aggrs
    BY MasterAssumption
  <2>5. ASSUME NEW x \in Banks \ stale' PROVE told'[x] = tenant'[x]
    <3>1. CASE x # b
      BY <1>1, <2>2, <2>3, <2>4, <3>1 DEF SaidOfBanks
    <3>2. CASE x = b
      <4>1. tenant[b] = o.bank /\ (says # o.bank \/ b \notin stale)
        BY <2>3, <2>4, <3>2
      <4>2. tenant'[b] = says
        BY <2>2, <4>1
      <4>3. CASE says # o.bank
        BY <2>2, <3>2, <4>2, <4>3
      <4>4. CASE says = o.bank
        BY <1>1, <2>2, <3>2, <4>1, <4>2, <4>4 DEF SaidOfBanks
      <4>5. QED
        BY <4>3, <4>4
    <3>3. QED
      BY <3>1, <3>2
  <2>6. ASSUME NEW x \in Aggrs \ stale'
        PROVE  IF x \in Minted' THEN told'[x] = Said(aggr'[x]) ELSE told'[x] = None
    <3>1. x # b
      BY <2>2, <2>4
    <3>2. CASE o.seen[x] # None
      <4>1. Said(aggr[x]) = Said(o.seen[x]) /\ told'[x] = [Said(o.seen[x]) EXCEPT !.name = o.name]
        BY <2>2, <2>3, <3>1, <3>2
      <4>2. aggr[x] \in Aggregator /\ aggr'[x] = [aggr[x] EXCEPT !.name = o.name] /\ o.name \in Names
        BY <2>1, <3>2 DEF EditBankDoes
      <4>3. aggr'[x] \in Aggregator /\ Said(aggr'[x]) = [Said(aggr[x]) EXCEPT !.name = o.name]
        BY <4>2 DEF Said, Aggregator
      <4>4. x \in Minted'
        BY <4>3, MasterAssumption DEF Minted
      <4>5. QED
        BY <4>1, <4>3, <4>4
    <3>3. CASE o.seen[x] = None
      <4>1. x \notin stale /\ told'[x] = told[x] /\ aggr'[x] = aggr[x]
        BY <2>1, <2>2, <2>3, <3>1, <3>3 DEF EditBankDoes
      <4>2. QED
        BY <1>1, <4>1 DEF SaidOfAggregators, Minted
    <3>4. QED
      BY <3>2, <3>3
  <2>7. QED
    BY <2>5, <2>6 DEF SaidOfBanks, SaidOfAggregators, Said
<1>9. ASSUME NEW k \in Requests, EditAggregatorCommit(k) PROVE SaidOfBanks' /\ SaidOfAggregators'
  <2> DEFINE o == op[k]
             a == op[k].of
             then == Edited(aggr[a], o)
             says == Said(Edited(o.seen[a], o))
  <2>1. EditAggregatorDoes(k, o, a, then, says)
    BY <1>9, EditAggregatorFacts
  <2>2. /\ a \in Minted /\ tenant' = tenant /\ aggr'[a] = then /\ then \in Aggregator /\ o.seen[a] \in Aggregator
        /\ \A x \in Aggrs \ {a} : aggr'[x] = aggr[x]
        /\ told'[a] = (IF says # Said(o.seen[a]) THEN says ELSE told[a])
        /\ \A x \in (Banks \cup Aggrs) \ {a} : told'[x] = told[x]
        /\ \A x \in (Banks \cup Aggrs) \ stale' :
               \/ x = a /\ Said(aggr[a]) = Said(o.seen[a]) /\ (says # Said(o.seen[a]) \/ a \notin stale)
               \/ x # a /\ x \notin stale
    BY <2>1 DEF EditAggregatorDoes
  <2>3. aggr[a] \in Aggregator /\ a \in Aggrs /\ a \notin Banks
    BY <1>1, <2>2, MintedType, MasterAssumption
  <2>4. SaidOfBanks'
    BY <1>1, <2>2, <2>3 DEF SaidOfBanks
  <2>5. ASSUME a \notin stale' PROVE told'[a] = Said(aggr'[a])
    <3>1. Said(aggr[a]) = Said(o.seen[a]) /\ (says # Said(o.seen[a]) \/ a \notin stale)
      BY <2>2, <2>3, <2>5
    <3>2. Said(then) = says
      BY <2>2, <2>3, <3>1 DEF Edited, Said, Aggregator
    <3>3. CASE says # Said(o.seen[a])
      BY <2>2, <3>2, <3>3
    <3>4. CASE says = Said(o.seen[a])
      BY <1>1, <2>2, <2>3, <3>1, <3>2, <3>4 DEF SaidOfAggregators
    <3>5. QED
      BY <3>3, <3>4
  <2>6. a \in Minted'
    BY <2>2, <2>3, MasterAssumption DEF Minted
  <2>7. ASSUME NEW x \in Aggrs \ stale'
        PROVE  IF x \in Minted' THEN told'[x] = Said(aggr'[x]) ELSE told'[x] = None
    BY <1>1, <2>2, <2>5, <2>6 DEF SaidOfAggregators, Minted
  <2>8. QED
    BY <2>4, <2>7 DEF SaidOfAggregators, Said
<1>10. ASSUME NEW k \in Requests, AnnounceCommit(k) PROVE SaidOfBanks' /\ SaidOfAggregators'
  <2>1. AnnounceDoes(k, op[k])
    BY <1>10, AnnounceFacts
  <2>2. SaidOfBanks'
    BY <1>1, <2>1 DEF SaidOfBanks, AnnounceDoes
  <2>3. ASSUME NEW x \in Aggrs \ stale'
        PROVE  IF x \in Minted' THEN told'[x] = Said(aggr'[x]) ELSE told'[x] = None
    <3>1. aggr' = aggr /\ ((x \notin stale /\ told'[x] = told[x]) \/ (x \in Minted /\ told'[x] = Said(aggr[x])))
      BY <2>1 DEF AnnounceDoes
    <3>2. QED
      BY <1>1, <3>1 DEF SaidOfAggregators, Minted
  <2>4. QED
    BY <2>2, <2>3 DEF SaidOfAggregators, Said
<1>11. SaidOfBanks' /\ SaidOfAggregators'
  BY <1>2, <1>3, <1>4, <1>5, <1>6, <1>7, <1>8, <1>9, <1>10, NextCases
<1>12. QED
  BY <1>11 DEF LastWordTrue, SaidOfBanks, SaidOfAggregators

-----------------------------------------------------------------------------
LEMMA InvInit == Init => Inv
<1> SUFFICES ASSUME Init PROVE Inv
  OBVIOUS
<1>1. TypeOK
  BY IdleType DEF Init, TypeOK, Row
<1>2. Minted = {} /\ Defaults = {}
  BY DEF Init, Minted, Defaults, Nothing
<1>3. \A k \in Keys : op[k] = Idle
  BY DEF Init
<1>4. Kinds
  BY <1>3, IdleFields, MasterAssumption DEF Kinds, Shape, Nothing
<1>5. \A k \in Requests : op[k].kind = None
  BY <1>3, IdleFields DEF Keys
<1>6. Guarded
  BY <1>2, <1>5, MasterAssumption DEF Guarded, Init
<1>7. OneWriter
  BY <1>5, MasterAssumption DEF OneWriter
<1>8. OneDefault /\ CodeResolvesForGood /\ DefaultBearsName
  BY <1>2 DEF OneDefault, CodeResolvesForGood, DefaultBearsName, Init
<1>9. LastWordTrue
  BY <1>2, MasterAssumption DEF LastWordTrue, Init
<1>10. QED
  BY <1>1, <1>4, <1>6, <1>7, <1>8, <1>9 DEF Inv

LEMMA InvStep == Inv /\ [Next]_vars => Inv'
<1> SUFFICES ASSUME Inv, [Next]_vars PROVE Inv'
  OBVIOUS
<1>1. CASE Next
  <2>1. TypeOK' /\ Grows /\ Keeps
    BY <1>1, Step, StepKeeps
  <2>2. PICK k \in Keys : Moves(k)
    BY <1>1, Step
  <2>3. Kinds' /\ Guarded' /\ CodeResolvesForGood' /\ OneWriter'
    BY <2>1, <2>2, KindsStep, GuardedStep, OneWriterStep
  <2>4. OneDefault' /\ DefaultBearsName' /\ LastWordTrue'
    BY <1>1, <2>1, OneDefaultStep, BearsNameStep, LastWordStep
  <2>5. QED
    BY <2>1, <2>3, <2>4 DEF Inv
<1>2. CASE UNCHANGED vars
  <2>1. UNCHANGED <<tenant, aggr, op, told, announced, matched, stale, forked, renamed, loose>>
    BY <1>2 DEF vars, master, history
  <2>2. (Minted' = Minted) /\ (Defaults' = Defaults)
    BY <2>1 DEF Minted, Defaults
  <2>3. TypeOK' /\ Kinds'
    BY <2>1, <2>2 DEF Inv, TypeOK, Kinds, Shape
  <2>4. Guarded' /\ OneWriter'
    BY <2>1, <2>2 DEF Inv, Guarded, OneWriter, Holder
  <2>5. OneDefault' /\ CodeResolvesForGood'
    BY <2>1, <2>2 DEF Inv, OneDefault, CodeResolvesForGood, Minted, Defaults, Holder
  <2>6. DefaultBearsName' /\ LastWordTrue'
    BY <2>1, <2>2 DEF Inv, DefaultBearsName, LastWordTrue, Minted, Defaults, Said
  <2>7. QED
    BY <2>3, <2>4, <2>5, <2>6 DEF Inv
<1>3. QED
  BY <1>1, <1>2

(* The inductive invariant of the bank master, for any banks, codes,       *)
(* operators and rows.                                                     *)
THEOREM Invariance == Spec => []Inv
BY InvInit, InvStep, PTL DEF Spec

(* Every bank has exactly one default aggregator, which bears the bank's   *)
(* own code, and no code of a bank leads to two aggregators.               *)
THEOREM DefaultsAreOne == Spec => []OneDefault
<1>1. Inv => OneDefault
  BY DEF Inv
<1>2. QED
  BY <1>1, Invariance, PTL

(* A code that a row has matched leads to the same aggregator for good, but*)
(* where an edit of the code was open with the row.                        *)
THEOREM CodesResolve == Spec => []CodeResolvesForGood
<1>1. Inv => CodeResolvesForGood
  BY DEF Inv
<1>2. QED
  BY <1>1, Invariance, PTL

(* A default aggregator follows its bank's name until it is renamed by     *)
(* itself, but where two renames of the bank overlapped.                   *)
THEOREM NamesFollow == Spec => []DefaultBearsName
<1>1. Inv => DefaultBearsName
  BY DEF Inv
<1>2. QED
  BY <1>1, Invariance, PTL

(* The last fact about a bank or an aggregator says what its row says, but *)
(* where the fact was composed from an outdated read.                      *)
THEOREM LastWords == Spec => []LastWordTrue
<1>1. Inv => LastWordTrue
  BY DEF Inv
<1>2. QED
  BY <1>1, Invariance, PTL
=============================================================================
