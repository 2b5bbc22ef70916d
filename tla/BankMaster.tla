----------------------------- MODULE BankMaster -----------------------------
(***************************************************************************)
(* The bank master of services/identity: tenants and their aggregators,    *)
(* written by operators (ops.ts: createBankMaster, editBankMaster,         *)
(* createAggregator, editAggregator), by the rows of bank files            *)
(* (project.ts: resolveTenant, resolveAggregator) and announced by a job   *)
(* (announce.ts).                                                          *)
(*                                                                         *)
(* Every door reads with a plain SELECT and writes later in the same READ  *)
(* COMMITTED transaction, so a read and a commit are steps of their own;   *)
(* an UPDATE keeps what it does not name (COALESCE), while the fact is     *)
(* composed from what was read.  A bank is its reference code, which never *)
(* changes.                                                                *)
(***************************************************************************)
EXTENDS Naturals

CONSTANTS
    Banks,      \* bank reference codes
    Codes,      \* aggregator codes, the banks' own among them
    Names,      \* display names; ingest takes a code for one
    Aggrs,      \* aggregator ids
    Requests,   \* client keys of operators, and runs of the job
    RowFacts,   \* rows of bank files
    RowOf,      \* the bank and the code a row carries
    None

STATUSES == {"ACTIVE", "SUSPENDED"}
Tenant == [name : Names, status : STATUSES]
Aggregator == [bank : Banks, code : Codes, name : Names, status : STATUSES,
               isDefault : BOOLEAN, locked : BOOLEAN]
Fact == [name : Names, code : Codes, status : STATUSES]

ASSUME MasterAssumption ==
    /\ Banks \subseteq Codes /\ Codes \subseteq Names
    /\ RowOf \in [RowFacts -> [bank : Banks, code : Codes]]
    /\ Requests \cap RowFacts = {} /\ Banks \cap Aggrs = {}
    /\ None \notin Banks \cup Names \cup Aggrs \cup STATUSES \cup Tenant \cup Aggregator \cup Fact
    /\ None \notin {"bank", "aggregator", "announce", "row"}

VARIABLES
    tenant,     \* [Banks -> None or name, status]
    aggr,       \* [Aggrs -> None or row]
    op,         \* the transactions
    told,       \* what the last fact about a tenant or an aggregator said
    announced,  \* identity's inbox for the announcing job
    matched,    \* history: the aggregator a code of a bank first led a row to
    stale,      \* history: told from a read that another commit had outdated
    forked,     \* history: banks renamed by two edits that overlapped
    renamed,    \* history: aggregators renamed by an edit of their own
    loose       \* history: codes a row matched while another edit was open
master == <<tenant, aggr, told, announced>>
history == <<matched, stale, forked, renamed, loose>>
vars == <<master, op, history>>

Keys == Requests \cup RowFacts
Nothing == [a \in Aggrs |-> None]
Idle == [step |-> "free", kind |-> None, of |-> None, name |-> None, code |-> None,
         status |-> None, bank |-> None, seen |-> Nothing]
Done == [Idle EXCEPT !.step = "done"]

Init ==
    /\ tenant = [b \in Banks |-> None]
    /\ aggr = Nothing
    /\ op = [k \in Keys |-> Idle]
    /\ told = [x \in Banks \cup Aggrs |-> None]
    /\ announced = {}
    /\ matched = [bc \in Banks \X Codes |-> None]
    /\ stale = {} /\ forked = {} /\ renamed = {} /\ loose = {}

Minted == {a \in Aggrs : aggr[a] # None}
Holder(b, c) == {a \in Minted : aggr[a].bank = b /\ aggr[a].code = c}
Defaults == {a \in Minted : aggr[a].isDefault}
Said(row) == [name |-> row.name, code |-> row.code, status |-> row.status]
Given(new, old) == IF new = None THEN old ELSE new

NewRow(b, c, n, isDefault, locked) ==
    [bank |-> b, code |-> c, name |-> n, status |-> "ACTIVE", isDefault |-> isDefault, locked |-> locked]
NewTenant(n) == [name |-> n, status |-> "ACTIVE"]

(* A fact from an outdated read leaves its subject stale until one from a  *)
(* current read.                                                           *)
Spoke(outdated, said) == stale' = (stale \cup outdated) \ (said \ outdated)

-----------------------------------------------------------------------------
(* Inserts: one statement decides, so that a door is one step.             *)

CreateBank_Fault(k, b, n, a) ==
    /\ op[k] = Idle /\ tenant[b] = None /\ a \notin Minted
    /\ tenant' = [tenant EXCEPT ![b] = NewTenant(n)]
    /\ aggr' = [aggr EXCEPT ![a] = NewRow(b, b, n, TRUE, FALSE)]
    /\ op' = [op EXCEPT ![k] = Done]
    /\ UNCHANGED <<told, announced, history>>
CreateBank(k, b, n, a) ==
    /\ op[k] = Idle /\ tenant[b] = None /\ a \notin Minted
    /\ tenant' = [tenant EXCEPT ![b] = NewTenant(n)]
    /\ aggr' = [aggr EXCEPT ![a] = NewRow(b, b, n, TRUE, FALSE)]
    /\ told' = [told EXCEPT ![b] = NewTenant(n), ![a] = Said(aggr'[a])]
    /\ op' = [op EXCEPT ![k] = Done]
    /\ UNCHANGED <<announced, history>>

CreateAggregator(k, b, c, n, a) ==
    /\ op[k] = Idle /\ tenant[b] # None /\ a \notin Minted
    /\ Holder(b, c) = {}
    /\ aggr' = [aggr EXCEPT ![a] = NewRow(b, c, n, FALSE, FALSE)]
    /\ told' = [told EXCEPT ![a] = Said(aggr'[a])]
    /\ op' = [op EXCEPT ![k] = Done]
    /\ UNCHANGED <<tenant, announced, history>>

(* The first row of an unknown bank mints it, its default aggregator a and,*)
(* if the row's code is another one, the aggregator e of that code.        *)
RowMints(i, a, e) ==
    LET b == RowOf[i].bank
        c == RowOf[i].code
        own == c = b
        hit == IF own THEN a ELSE e
    IN
    /\ op[i] = Idle /\ tenant[b] = None
    /\ a \notin Minted /\ e \notin Minted /\ (own <=> a = e)
    /\ tenant' = [tenant EXCEPT ![b] = NewTenant(b)]
    /\ aggr' = [x \in Aggrs |-> IF x = a THEN NewRow(b, b, b, TRUE, own)
                                ELSE IF x = e THEN NewRow(b, c, c, FALSE, TRUE) ELSE aggr[x]]
    /\ told' = [x \in Banks \cup Aggrs |->
                  IF x = b THEN NewTenant(b)
                  ELSE IF x \in {a, e} THEN Said(aggr'[x]) ELSE told[x]]
    /\ matched' = [matched EXCEPT ![<<b, c>>] = hit]
    /\ op' = [op EXCEPT ![i] = Done]
    /\ UNCHANGED <<announced, stale, forked, renamed, loose>>

-----------------------------------------------------------------------------
(* Ingest of a known bank's row: resolveAggregator.                        *)

RowRead(i) ==
    LET b == RowOf[i].bank  c == RowOf[i].code IN
    /\ op[i] = Idle /\ tenant[b] # None
    /\ \E hit \in Holder(b, c) \cup {None} :
          /\ hit = None => Holder(b, c) = {}
          /\ op' = [op EXCEPT ![i] = [Idle EXCEPT !.step = "read", !.kind = "row", !.of = hit]]
    /\ UNCHANGED <<master, history>>

(* The hit is locked by its id, whatever its code is by now.               *)
RowLocks_Fault(i) ==
    LET bc == <<RowOf[i].bank, RowOf[i].code>>
        a == op[i].of
    IN
    /\ op[i].step = "read" /\ a # None
    /\ matched' = [matched EXCEPT ![bc] = IF @ = None THEN a ELSE @]
    /\ loose' = IF aggr[a].code # RowOf[i].code THEN loose \cup {bc} ELSE loose
    /\ op' = [op EXCEPT ![i] = Done]
    /\ UNCHANGED <<master, stale, forked, renamed>>
RowLocks(i) ==
    LET bc == <<RowOf[i].bank, RowOf[i].code>>
        a == op[i].of
    IN
    /\ op[i].step = "read" /\ a # None
    /\ aggr' = [aggr EXCEPT ![a].locked = TRUE]
    /\ matched' = [matched EXCEPT ![bc] = IF @ = None THEN a ELSE @]
    /\ loose' = IF aggr[a].code # RowOf[i].code THEN loose \cup {bc} ELSE loose
    /\ op' = [op EXCEPT ![i] = Done]
    /\ UNCHANGED <<tenant, told, announced, stale, forked, renamed>>

(* A miss is inserted ON CONFLICT DO NOTHING; whoever came first stays as  *)
(* it is, not locked.                                                      *)
RowInserts(i, a) ==
    LET b == RowOf[i].bank
        c == RowOf[i].code
        first == Holder(b, c) = {}
    IN
    /\ op[i].step = "read" /\ op[i].of = None /\ a \notin Minted
    /\ aggr' = IF first THEN [aggr EXCEPT ![a] = NewRow(b, c, c, FALSE, TRUE)] ELSE aggr
    /\ told' = IF first THEN [told EXCEPT ![a] = Said(aggr'[a])] ELSE told
    /\ matched' = IF first /\ matched[<<b, c>>] = None
                    THEN [matched EXCEPT ![<<b, c>>] = a] ELSE matched
    /\ loose' = IF first THEN loose ELSE loose \cup {<<b, c>>}
    /\ op' = [op EXCEPT ![i] = Done]
    /\ UNCHANGED <<tenant, announced, stale, forked, renamed>>

-----------------------------------------------------------------------------
(* editBankMaster.                                                         *)

EditBankRead(k, b, n, s) ==
    /\ op[k] = Idle /\ tenant[b] # None
    /\ op' = [op EXCEPT ![k] = [Idle EXCEPT !.step = "read", !.kind = "bank", !.of = b,
                                            !.name = n, !.status = s, !.bank = tenant[b]]]
    /\ UNCHANGED <<master, history>>

TenantLocked(b) == \E k \in Requests : op[k].kind = "bank" /\ op[k].step = "wrote" /\ op[k].of = b

(* The UPDATE locks the tenant's row; then the default aggregator is read, *)
(* which follows a new name if it still bears the old one.                 *)
EditBankWrite_Fault(k) ==
    /\ op[k].kind = "bank" /\ op[k].step = "read" /\ ~TenantLocked(op[k].of)
    /\ op' = [op EXCEPT ![k].step = "wrote"]
    /\ UNCHANGED <<master, history>>
EditBankWrite(k) ==
    LET o == op[k]
        follows == {a \in Defaults : /\ aggr[a].bank = o.of
                                     /\ o.name \notin {None, o.bank.name}
                                     /\ aggr[a].name = o.bank.name}
    IN
    /\ o.kind = "bank" /\ o.step = "read" /\ ~TenantLocked(o.of)
    /\ op' = [op EXCEPT ![k].step = "wrote",
                        ![k].seen = [a \in Aggrs |-> IF a \in follows THEN aggr[a] ELSE None]]
    /\ UNCHANGED <<master, history>>

EditBankCommit(k) ==
    LET o == op[k]
        b == o.of
        says == [name |-> Given(o.name, o.bank.name), status |-> Given(o.status, o.bank.status)]
        follows == {a \in Aggrs : o.seen[a] # None}
        said == follows \cup IF says # o.bank THEN {b} ELSE {}
    IN
    /\ o.kind = "bank" /\ o.step = "wrote"
    /\ tenant' = [tenant EXCEPT ![b] = [name |-> Given(o.name, @.name), status |-> Given(o.status, @.status)]]
    /\ aggr' = [a \in Aggrs |-> IF a \in follows THEN [aggr[a] EXCEPT !.name = o.name] ELSE aggr[a]]
    /\ told' = [x \in Banks \cup Aggrs |->
                  IF x \notin said THEN told[x]
                  ELSE IF x = b THEN says ELSE [Said(o.seen[x]) EXCEPT !.name = o.name]]
    /\ Spoke({a \in follows : Said(aggr[a]) # Said(o.seen[a])} \cup IF tenant[b] # o.bank THEN {b} ELSE {},
             said)
    /\ forked' = IF o.name # None /\ tenant[b].name # o.bank.name THEN forked \cup {b} ELSE forked
    /\ op' = [op EXCEPT ![k] = Done]
    /\ UNCHANGED <<announced, matched, renamed, loose>>

-----------------------------------------------------------------------------
(* editAggregator.                                                         *)

(* What it refuses of the row and the tenant it has read.                  *)
Refused_Fault(row, c, s) ==
    \/ c \notin {None, row.code} /\ row.locked
    \/ row.isDefault /\ s = "SUSPENDED" /\ tenant[row.bank].status = "ACTIVE"
Refused(row, c, s) ==
    \/ c \notin {None, row.code} /\ (row.locked \/ row.isDefault)
    \/ row.isDefault /\ s = "SUSPENDED" /\ tenant[row.bank].status = "ACTIVE"

EditAggregatorRead(k, a, n, c, s) ==
    /\ op[k] = Idle /\ a \in Minted
    /\ ~Refused(aggr[a], c, s)
    /\ op' = [op EXCEPT ![k] = [Idle EXCEPT !.step = "read", !.kind = "aggregator", !.of = a,
                                            !.name = n, !.code = c, !.status = s,
                                            !.seen = [Nothing EXCEPT ![a] = aggr[a]]]]
    /\ UNCHANGED <<master, history>>

(* UNIQUE (tenant, code) refuses a code another aggregator has taken; the  *)
(* request's key is not spent.                                             *)
Edited(row, o) == [row EXCEPT !.name = Given(o.name, @), !.code = Given(o.code, @), !.status = Given(o.status, @)]

EditAggregatorCommit(k) ==
    LET o == op[k]
        a == o.of
        before == o.seen[a]
        now == aggr[a]
        then == Edited(now, o)
        says == Said(Edited(before, o))
        said == IF says # Said(before) THEN {a} ELSE {}
    IN
    /\ o.kind = "aggregator" /\ o.step = "read"
    /\ Holder(now.bank, then.code) \subseteq {a}
    /\ aggr' = [aggr EXCEPT ![a] = then]
    /\ told' = IF said = {} THEN told ELSE [told EXCEPT ![a] = says]
    /\ Spoke(IF Said(now) # Said(before) THEN {a} ELSE {}, said)
    /\ renamed' = IF then.name # now.name THEN renamed \cup {a} ELSE renamed
    /\ loose' = IF now.locked # before.locked \/ now.code # before.code
                  THEN loose \cup {<<now.bank, now.code>>} ELSE loose
    /\ op' = [op EXCEPT ![k] = Done]
    /\ UNCHANGED <<tenant, announced, matched, forked>>

-----------------------------------------------------------------------------
(* announceDefaultAggregators: once for every aggregator.                  *)

AnnounceRead(k) ==
    /\ op[k] = Idle
    /\ op' = [op EXCEPT ![k] = [Idle EXCEPT !.step = "read", !.kind = "announce",
                  !.seen = [a \in Aggrs |-> IF a \in Defaults THEN aggr[a] ELSE None]]]
    /\ UNCHANGED <<master, history>>

AnnounceCommit(k) ==
    LET o == op[k]
        said == {a \in Aggrs \ announced : o.seen[a] # None}
    IN
    /\ o.kind = "announce" /\ o.step = "read"
    /\ announced' = announced \cup said
    /\ told' = [x \in Banks \cup Aggrs |-> IF x \in said THEN Said(o.seen[x]) ELSE told[x]]
    /\ Spoke({a \in said : Said(aggr[a]) # Said(o.seen[a])}, said)
    /\ op' = [op EXCEPT ![k] = Done]
    /\ UNCHANGED <<tenant, aggr, matched, forked, renamed, loose>>

(* A refusal or a crash rolls back; the key may be used again.             *)
Abort(k) ==
    /\ op[k].step \in {"read", "wrote"}
    /\ op' = [op EXCEPT ![k] = Idle]
    /\ UNCHANGED <<master, history>>

-----------------------------------------------------------------------------
Operator(k) ==
    \/ \E b \in Banks, n \in Names, a \in Aggrs :
          CreateBank(k, b, n, a) \/ \E c \in Codes : CreateAggregator(k, b, c, n, a)
    \/ \E b \in Banks, n \in Names \cup {None}, s \in STATUSES \cup {None} : EditBankRead(k, b, n, s)
    \/ EditBankWrite(k) \/ EditBankCommit(k)
    \/ \E a \in Aggrs, n \in Names \cup {None}, c \in Codes \cup {None}, s \in STATUSES \cup {None} :
          EditAggregatorRead(k, a, n, c, s)
    \/ EditAggregatorCommit(k)
    \/ AnnounceRead(k) \/ AnnounceCommit(k)

Ingest(i) ==
    \/ \E a, e \in Aggrs : RowMints(i, a, e)
    \/ RowRead(i) \/ RowLocks(i) \/ \E a \in Aggrs : RowInserts(i, a)

Next == \/ \E k \in Requests : Operator(k)
        \/ \E i \in RowFacts : Ingest(i)
        \/ \E k \in Keys : Abort(k)

Spec == Init /\ [][Next]_vars

-----------------------------------------------------------------------------
(* Properties.                                                             *)

Row == Aggregator \cup {None}
Transaction ==
    [step : {"free", "read", "wrote", "done"}, kind : {"bank", "aggregator", "announce", "row", None},
     of : Banks \cup Aggrs \cup {None}, name : Names \cup {None}, code : Codes \cup {None},
     status : STATUSES \cup {None}, bank : Tenant \cup {None}, seen : [Aggrs -> Row]]
TypeOK ==
    /\ tenant \in [Banks -> Tenant \cup {None}]
    /\ aggr \in [Aggrs -> Row]
    /\ op \in [Keys -> Transaction]
    /\ told \in [Banks \cup Aggrs -> Tenant \cup Fact \cup {None}]
    /\ announced \subseteq Aggrs
    /\ matched \in [Banks \X Codes -> Aggrs \cup {None}]
    /\ stale \subseteq Banks \cup Aggrs /\ forked \subseteq Banks
    /\ renamed \subseteq Aggrs /\ loose \subseteq Banks \X Codes

(***************************************************************************)
(* "Exactly one is_default row per tenant", which carries the tenant's own *)
(* reference code, and one aggregator per code: however edits, creations   *)
(* and rows interleave, no second door to a bank's own code opens.         *)
(***************************************************************************)
OneDefault ==
    /\ \A b \in Banks : tenant[b] # None =>
          \E a \in Defaults : /\ aggr[a].bank = b /\ aggr[a].code = b
                              /\ \A e \in Defaults : aggr[e].bank = b => e = a
    /\ \A a, e \in Minted : aggr[a].bank = aggr[e].bank /\ aggr[a].code = aggr[e].code => a = e

(***************************************************************************)
(* A code a row has matched leads to the same aggregator for good ("a code *)
(* change after lock would fork what ingest resolves"), unless the row and *)
(* an edit of the code, or its creation, were open at once.                *)
(***************************************************************************)
CodeResolvesForGood ==
    \A b \in Banks, c \in Codes :
        matched[<<b, c>>] # None /\ <<b, c>> \notin loose => matched[<<b, c>>] \in Holder(b, c)

(***************************************************************************)
(* The default aggregator bears its tenant's name until an edit of its own *)
(* renames it, unless two edits of the tenant's name overlapped.           *)
(***************************************************************************)
DefaultBearsName ==
    \A a \in Defaults \ renamed : aggr[a].bank \notin forked => aggr[a].name = tenant[aggr[a].bank].name

(***************************************************************************)
(* The last fact about a tenant or an aggregator says what its row says,   *)
(* although a fact is composed from a read and the row from an UPDATE, and *)
(* an edit that changes nothing announces nothing, unless the last edit    *)
(* had read a row that another one changed before it wrote.                *)
(***************************************************************************)
LastWordTrue ==
    /\ \A b \in Banks \ stale : told[b] = tenant[b]
    /\ \A a \in Aggrs \ stale : IF a \in Minted THEN told[a] = Said(aggr[a]) ELSE told[a] = None

-----------------------------------------------------------------------------
(* The strengthening: what an open transaction still may rely on.          *)

(* A transaction has the shape of its kind, and what it is about exists.   *)
Shape(k) ==
    LET o == op[k] IN
    /\ o.step \in {"free", "done"} <=> o.kind = None
    /\ k \in RowFacts => o.kind \in {"row", None}
    /\ k \in Requests => o.kind # "row"
    /\ o.kind = "bank" => /\ o.of \in Banks /\ tenant[o.of] # None /\ o.bank # None
                          /\ \A a \in Aggrs : o.seen[a] # None => a \in Defaults /\ aggr[a].bank = o.of
    /\ o.kind = "aggregator" => o.of \in Minted /\ o.seen[o.of] # None
    /\ o.kind = "row" => /\ tenant[RowOf[k].bank] # None /\ o.of \in Minted \cup {None}
                         /\ o.of # None => aggr[o.of].bank = RowOf[k].bank
    /\ \A a \in Aggrs : o.seen[a] # None =>
          a \in Minted /\ o.seen[a].bank = aggr[a].bank /\ o.seen[a].isDefault = aggr[a].isDefault
Kinds == \A k \in Keys : Shape(k)

(* An edit of a code was not refused, and only a default bears its bank's  *)
(* code as one that cannot change.                                         *)
Guarded ==
    /\ \A k \in Requests :
          LET o == op[k] IN
          o.kind = "aggregator" /\ o.code \notin {None, o.seen[o.of].code} =>
              ~o.seen[o.of].locked /\ ~o.seen[o.of].isDefault
    /\ \A k \in Requests :
          op[k].kind = "aggregator" /\ aggr[op[k].of].isDefault => op[k].seen[op[k].of].code = aggr[op[k].of].code
    /\ \A a \in Minted : tenant[aggr[a].bank] # None
    /\ \A bc \in Banks \X Codes :
          matched[bc] # None /\ bc \notin loose => aggr[matched[bc]].locked

(* The row lock of a tenant: one edit writes at a time, and it has read    *)
(* the default aggregator as it still is.                                  *)
OneWriter ==
    /\ \A k, j \in Requests :
          op[k].kind = "bank" /\ op[k].step = "wrote" /\ op[j].kind = "bank" /\ op[j].step = "wrote"
          /\ op[k].of = op[j].of => k = j
    /\ \A k \in Requests :
          LET o == op[k] IN
          /\ o.kind = "bank" /\ (\E a \in Aggrs : o.seen[a] # None) => o.name \notin {None, o.bank.name}
          /\ o.kind = "bank" /\ o.step = "wrote" /\ o.name \notin {None, o.bank.name}
             /\ tenant[o.of].name = o.bank.name /\ o.of \notin forked =>
                \A a \in Defaults \ renamed : aggr[a].bank = o.of => o.seen[a] # None

(***************************************************************************)
(* The inductive invariant: the four properties and what they rest on.     *)
(***************************************************************************)
Inv ==
    /\ TypeOK /\ Kinds /\ Guarded /\ OneWriter
    /\ OneDefault /\ CodeResolvesForGood /\ DefaultBearsName /\ LastWordTrue
=============================================================================
