---------------------------- MODULE OrderIntake ----------------------------
(***************************************************************************)
(* A bank's request file becomes orders: services/tms ingest.ts, ops.ts    *)
(* (commitBankFile, resolveQuarantineRow, closeQuarantineRow),             *)
(* projections.ts and assignment.ts (createAssignmentFromEnrollment), with *)
(* services/identity project.ts (projectRowFact) and ops.ts                *)
(* (createMerchant) in between.                                            *)
(*                                                                         *)
(* tms accepts a row into pending_row and tells identity; identity mints   *)
(* the merchant and answers with a merchant fact and an enrolment; tms     *)
(* joins the enrolment with the pending row and the merchant it knows.     *)
(* Facts between the two arrive at least once, in any order, and take      *)
(* effect once (FactDelivery).  A merchant is known by its VPA.            *)
(***************************************************************************)
EXTENDS Naturals, Sequences, FiniteSets

CONSTANTS
    Files,          \* bank files, by client key
    Keys,           \* client keys of the operators' actions on a hold
    Ids,            \* {file_id}|{row_no}
    Rows,           \* the rows of the files
    Corrections,    \* the rows an operator may send to cure a hold
    Vpas,
    Names,          \* what a row says of its merchant: name, address, category
    Manual,         \* <<VPA, name>>: the merchants an operator may create
    None

(* paper stands for a positive standee or sticker count, valid for a row   *)
(* that requestRowRejectReason lets pass.                                  *)
Row == [id : Ids, file : Files \cup {None}, no : Nat, vpa : Vpas, name : Names,
        soundbox : BOOLEAN, paper : BOOLEAN, valid : BOOLEAN]

Pending == [row : Row, when : Nat, raced : BOOLEAN]
Held == [resolution : {None, "cured", "closed"}, by : Ids \cup {None}]

ASSUME RowsAssumption ==
    /\ Rows \subseteq Row /\ Corrections \subseteq Row
    /\ \A r \in Rows : r.file \in Files
    /\ Files \cap Keys = {}
    /\ Manual \subseteq Vpas \X Names
    /\ None \notin Pending \cup Held \cup Ids \cup Row \cup Names \cup {"cured", "closed"}
    /\ \A r, s \in Rows : r.id = s.id => r = s
    /\ \A r, s \in Rows : r.file = s.file /\ r.no = s.no => r = s

VARIABLES
    pending,    \* pending_row: [Ids -> None or row, when, raced]
    held,       \* quarantine_row: [Ids -> None or resolution, by]
    spent,      \* the client keys whose effect has committed
    tx,         \* the open ingests, by client key
    clock,      \* history: number of ingests that have committed
    said,       \* identity: every state of a merchant, each a merchant fact
    projected,  \* identity's inbox, and the enrolments it has emitted
    tenant,     \* the tenant fact: "unseen", "minted", "projected"
    heard,      \* tms' inbox for the facts of a merchant
    known,      \* merchant_projection
    joined,     \* tms' inbox for enrolments
    orders      \* assignment: [Ids -> None or legs, name]
tms == <<pending, held, spent, tx, clock>>
identity == <<said, projected, tenant>>
projections == <<heard, known, joined, orders>>
vars == <<tms, identity, projections>>

Accepted == {i \in Ids : pending[i] # None}
IsOpen(i) == held[i] # None /\ held[i].resolution = None

NotRun == [open |-> FALSE, seed |-> {}, target |-> None, row |-> None, alone |-> TRUE]

Init ==
    /\ pending = [i \in Ids |-> None]
    /\ held = [i \in Ids |-> None]
    /\ spent = {}
    /\ tx = [k \in Files \cup Keys |-> NotRun]
    /\ clock = 0
    /\ said = [v \in Vpas |-> <<>>]
    /\ projected = {}
    /\ tenant = "unseen"
    /\ heard = [v \in Vpas |-> {}]
    /\ known = [v \in Vpas |-> None]
    /\ joined = {}
    /\ orders = [i \in Ids |-> None]

-----------------------------------------------------------------------------
(* Ingest.                                                                 *)

(* seedKnownVpaOriginals: the VPAs of pending_row and assignment, except   *)
(* those of the row i itself.  A row that became an order stays pending_row*)
(* with status consumed.                                                   *)
KnownVpas(i) == {pending[j].row.vpa : j \in Accepted \ {i}}

Started(k, seed, target, row) ==
    /\ ~tx[k].open /\ k \notin spent
    /\ LET alone == \A j \in DOMAIN tx : ~tx[j].open IN
       tx' = [j \in DOMAIN tx |->
                IF j = k THEN [open |-> TRUE, seed |-> seed, target |-> target, row |-> row, alone |-> alone]
                ELSE IF tx[j].open THEN [tx[j] EXCEPT !.alone = FALSE] ELSE tx[j]]
    /\ UNCHANGED <<pending, held, spent, clock, identity, projections>>

Ended(k) == tx' = [tx EXCEPT ![k] = NotRun]

(* commitBankFile: the client key's inbox row, then the seed, once for the *)
(* whole file.                                                             *)
UploadRead(f) == Started(f, KnownVpas(None), None, None)

RowsOf(f) == {r \in Rows : r.file = f}

(* duplicateVpaVerdicts: every row seeds the rows after it, whatever its   *)
(* own verdict; only a soundbox row is held.                               *)
Repeats_Fault(f, r) == r.soundbox /\ r.vpa \in tx[f].seed
Repeats(f, r) ==
    /\ r.soundbox
    /\ \/ r.vpa \in tx[f].seed
       \/ \E s \in RowsOf(f) : s.no < r.no /\ s.vpa = r.vpa

Hold == [resolution |-> None, by |-> None]
Accept(k, r) == [row |-> r, when |-> clock, raced |-> ~tx[k].alone]

(* The loop of commitBankFile over ingestRequestRowWithinTx.               *)
UploadCommit(f) ==
    LET goes == {r \in RowsOf(f) : r.valid /\ ~Repeats(f, r)}
        fresh == {r \in goes : pending[r.id] = None}
        stays == {r \in RowsOf(f) \ goes : held[r.id] = None}
    IN
    /\ tx[f].open
    /\ pending' = [i \in Ids |-> IF \E r \in fresh : r.id = i
                                 THEN Accept(f, CHOOSE r \in fresh : r.id = i) ELSE pending[i]]
    /\ held' = [i \in Ids |-> IF \E r \in stays : r.id = i THEN Hold ELSE held[i]]
    /\ spent' = spent \cup {f}
    /\ clock' = clock + 1
    /\ Ended(f)
    /\ UNCHANGED <<identity, projections>>

(* The portal pins the id of a correction to its hold; through the API it  *)
(* may carry an id nobody has used.                                        *)
Aimed(h, r) ==
    \/ r.id = h
    \/ /\ r.id \notin {s.id : s \in Rows} /\ held[r.id] = None /\ pending[r.id] = None
       /\ \A j \in Keys : tx[j].open => tx[j].row.id # r.id

(* resolveQuarantineRow: the gate looks this one row up by itself.         *)
CureRead(k, h, r) ==
    /\ held[h] # None
    /\ Aimed(h, r)
    /\ Started(k, KnownVpas(r.id), h, r)

(* Only an accepted ingest stamps the hold, if it is not stamped yet.      *)
CureCommit_Fault(k) ==
    LET r == tx[k].row
        h == tx[k].target
        goes == r.valid /\ ~(r.soundbox /\ r.vpa \in tx[k].seed)
        accepted == goes /\ pending[r.id] = None
    IN
    /\ tx[k].open
    /\ pending' = IF accepted THEN [pending EXCEPT ![r.id] = Accept(k, r)] ELSE pending
    /\ held' = [i \in Ids |->
         IF i = h /\ IsOpen(h) THEN [resolution |-> "cured", by |-> r.id]
         ELSE IF i = r.id /\ ~goes /\ held[i] = None THEN Hold ELSE held[i]]
    /\ spent' = spent \cup {k}
    /\ clock' = clock + 1
    /\ Ended(k)
    /\ UNCHANGED <<identity, projections>>
CureCommit(k) ==
    LET r == tx[k].row
        h == tx[k].target
        goes == r.valid /\ ~(r.soundbox /\ r.vpa \in tx[k].seed)
        accepted == goes /\ pending[r.id] = None
    IN
    /\ tx[k].open
    /\ pending' = IF accepted THEN [pending EXCEPT ![r.id] = Accept(k, r)] ELSE pending
    /\ held' = [i \in Ids |->
         IF i = h /\ accepted /\ IsOpen(h) THEN [resolution |-> "cured", by |-> r.id]
         ELSE IF i = r.id /\ ~goes /\ held[i] = None THEN Hold ELSE held[i]]
    /\ spent' = spent \cup {k}
    /\ clock' = clock + 1
    /\ Ended(k)
    /\ UNCHANGED <<identity, projections>>

(* closeQuarantineRow is one statement.                                    *)
Close(k, h) ==
    /\ k \notin spent /\ ~tx[k].open /\ held[h] # None
    /\ held' = IF IsOpen(h) THEN [held EXCEPT ![h].resolution = "closed"] ELSE held
    /\ spent' = spent \cup {k}
    /\ UNCHANGED <<pending, tx, clock, identity, projections>>

(* A crash: the operator sends the same key again, or not.                 *)
Abort_Fault(k) ==
    /\ tx[k].open
    /\ Ended(k)
    /\ spent' = spent \cup {k}
    /\ UNCHANGED <<pending, held, clock, identity, projections>>
Abort(k) ==
    /\ tx[k].open
    /\ Ended(k)
    /\ UNCHANGED <<pending, held, spent, clock, identity, projections>>

-----------------------------------------------------------------------------
(* Identity.                                                               *)

(* projectRowFact: the first row mints the tenant and its merchant, a      *)
(* later one that says otherwise updates the merchant, one that says       *)
(* nothing new emits no merchant fact.  Every row emits its enrolment.     *)
ProjectRow(i) ==
    LET r == pending[i].row
        before == said[r.vpa]
        same == before # <<>> /\ before[Len(before)] = r.name
    IN
    /\ i \in Accepted \ projected
    /\ projected' = projected \cup {i}
    /\ tenant' = IF tenant = "unseen" THEN "minted" ELSE tenant
    /\ said' = IF same THEN said ELSE [said EXCEPT ![r.vpa] = Append(@, r.name)]
    /\ UNCHANGED <<tms, projections>>

(* createMerchant: an operator mints a merchant no row has brought yet; a  *)
(* VPA the bank has already is refused.  There is no enrolment, since no   *)
(* row stands behind it.                                                   *)
CreateMerchant(v, n) ==
    /\ tenant # "unseen" /\ said[v] = <<>>
    /\ said' = [said EXCEPT ![v] = <<n>>]
    /\ UNCHANGED <<tms, projected, tenant, projections>>

-----------------------------------------------------------------------------
(* What tms hears.                                                         *)

(* projectMerchantFact overwrites, whatever it had.                        *)
ProjectMerchant_Fault(v, n) ==
    /\ n \in DOMAIN said[v] \ heard[v]
    /\ heard' = [heard EXCEPT ![v] = @ \cup {n}]
    /\ known' = IF known[v] = None THEN [known EXCEPT ![v] = said[v][n]] ELSE known
    /\ UNCHANGED <<tms, identity, joined, orders>>
ProjectMerchant(v, n) ==
    /\ n \in DOMAIN said[v] \ heard[v]
    /\ heard' = [heard EXCEPT ![v] = @ \cup {n}]
    /\ known' = [known EXCEPT ![v] = said[v][n]]
    /\ UNCHANGED <<tms, identity, joined, orders>>

ProjectTenant ==
    /\ tenant = "minted"
    /\ tenant' = "projected"
    /\ UNCHANGED <<tms, said, projected, projections>>

(* dispatchGroupsFor: a row that asks for nothing is a collateral order.   *)
LegsOf_Fault(r) == (IF r.soundbox THEN {"SOUNDBOX"} ELSE {}) \cup (IF r.paper THEN {"COLLATERAL"} ELSE {})
LegsOf(r) ==
    (IF r.soundbox THEN {"SOUNDBOX"} ELSE {}) \cup (IF r.paper \/ ~r.soundbox THEN {"COLLATERAL"} ELSE {})

(* createAssignmentFromEnrollment throws, and the enrolment is retried,    *)
(* until the merchant and the tenant are known.                            *)
CreateAssignment(i) ==
    LET r == pending[i].row IN
    /\ i \in projected \ joined
    /\ known[r.vpa] # None /\ tenant = "projected"
    /\ joined' = joined \cup {i}
    /\ orders' = IF LegsOf(r) = {} THEN orders
                 ELSE [orders EXCEPT ![i] = [legs |-> LegsOf(r), name |-> known[r.vpa]]]
    /\ UNCHANGED <<tms, identity, heard, known>>

Next ==
    \/ \E f \in Files : UploadRead(f) \/ UploadCommit(f)
    \/ \E k \in Keys : \/ \E h \in Ids : (\E r \in Corrections : CureRead(k, h, r)) \/ Close(k, h)
                       \/ CureCommit(k)
    \/ \E k \in Files \cup Keys : Abort(k)
    \/ \E i \in Ids : ProjectRow(i) \/ CreateAssignment(i)
    \/ \E m \in Manual : CreateMerchant(m[1], m[2])
    \/ \E v \in Vpas : \E n \in DOMAIN said[v] : ProjectMerchant(v, n)
    \/ ProjectTenant

Spec == Init /\ [][Next]_vars

(* The rail delivers every fact in the end and retries a consumer that     *)
(* throws; nobody has to upload, cure or close.                            *)
Delivery ==
    /\ \A i \in Ids : WF_vars(ProjectRow(i)) /\ WF_vars(CreateAssignment(i))
    /\ \A v \in Vpas : WF_vars(\E n \in DOMAIN said[v] : ProjectMerchant(v, n))
    /\ WF_vars(ProjectTenant)
FairSpec == Spec /\ Delivery

-----------------------------------------------------------------------------
(* Properties.                                                             *)

TypeOK ==
    /\ pending \in [Ids -> Pending \cup {None}]
    /\ held \in [Ids -> Held \cup {None}]
    /\ spent \subseteq Files \cup Keys
    /\ tx \in [Files \cup Keys -> [open : BOOLEAN, seed : SUBSET Vpas, target : Ids \cup {None},
                                   row : Corrections \cup {None}, alone : BOOLEAN]]
    /\ clock \in Nat
    /\ said \in [Vpas -> Seq(Names)]
    /\ projected \subseteq Ids /\ joined \subseteq Ids
    /\ tenant \in {"unseen", "minted", "projected"}
    /\ heard \in [Vpas -> SUBSET (Nat \ {0})]
    /\ known \in [Vpas -> Names \cup {None}]
    /\ orders \in [Ids -> [legs : SUBSET {"SOUNDBOX", "COLLATERAL"}, name : Names] \cup {None}]

(* The order in which rows were accepted.                                  *)
Before(i, j) == \/ pending[i].when < pending[j].when
                \/ pending[i].when = pending[j].when /\ pending[i].row.no < pending[j].row.no

(***************************************************************************)
(* The soundbox duplicate-VPA gate: a row accepted for a soundbox is the   *)
(* first for its VPA, over all the files and the corrections, unless       *)
(* another ingest was open at the same time (its seed is an unlocked       *)
(* read).                                                                  *)
(***************************************************************************)
NoSecondSoundboxInTurn ==
    \A i, j \in Accepted :
        i # j /\ pending[i].row.vpa = pending[j].row.vpa /\ pending[j].row.soundbox /\ ~pending[j].raced
            => ~Before(i, j)

(***************************************************************************)
(* "A cure is only a cure if the corrected row ingested": a hold that      *)
(* reads cured has its order, and an open hold has none of its own, so     *)
(* that no request is lost and none is worked on twice.                    *)
(***************************************************************************)
HoldsAnswered ==
    \A h \in Ids : held[h] # None =>
        /\ held[h].resolution = "cured" => held[h].by \in Accepted
        /\ held[h].resolution = None => h \notin Accepted

(***************************************************************************)
(* Every row of a file that was uploaded is an order to be, or was held.   *)
(***************************************************************************)
RowsAccountedFor == \A r \in Rows : r.file \in spent => r.id \in Accepted \/ held[r.id] # None

(***************************************************************************)
(* Close "ingests NOTHING": a request archived as closed never becomes an  *)
(* order.                                                                  *)
(***************************************************************************)
ClosedIsArchived == \A h \in Ids : held[h] # None /\ held[h].resolution = "closed" => h \notin Accepted

(* The facts heard so far are a prefix: nothing overtook anything.         *)
InStep(v) == \A m \in heard[v] : \A n \in 1..m : n \in heard[v]

(***************************************************************************)
(* What tms believes of a merchant, once it has heard everything, is what  *)
(* identity believes, unless it heard an older fact after a newer one.     *)
(***************************************************************************)
ProjectionFollows ==
    [][\A v \in Vpas : InStep(v) /\ InStep(v)' /\ heard'[v] # heard[v] =>
            known'[v] = said[v][Cardinality(heard'[v])]]_vars

(***************************************************************************)
(* A row that was accepted becomes an order with every leg it asked for    *)
(* and at least one, across both services and whatever arrives first.      *)
(***************************************************************************)
AcceptedBecomesOrder ==
    \A i \in Ids : i \in Accepted ~> /\ orders[i] # None
                                     /\ orders[i].legs # {}
                                     /\ pending[i].row.soundbox => "SOUNDBOX" \in orders[i].legs
                                     /\ pending[i].row.paper => "COLLATERAL" \in orders[i].legs

(***************************************************************************)
(* The inductive invariant: what the four rest on.  A row is found under   *)
(* its own id, and a file leaves no row before its commit                  *)
(* (commitBankFile is one transaction).  An ingest nobody overtook holds a *)
(* current seed.  A correction aims at its hold, or at an unused id.       *)
(***************************************************************************)
RowsInPlace ==
    /\ \A i \in Accepted : pending[i].row.id = i /\ pending[i].when < clock
    /\ projected \subseteq Accepted
    /\ \A r \in Rows : r.file \notin spent => pending[r.id] = None /\ held[r.id] = None
SeedsCurrent ==
    \A k \in Files \cup Keys : tx[k].open =>
        /\ k \notin spent
        /\ tx[k].alone => \A j \in Files \cup Keys : tx[j].open => j = k
        /\ tx[k].alone => \A i \in Accepted :
              pending[i].row.vpa \in tx[k].seed \/ (k \in Keys /\ i = tx[k].row.id)
CuresAimed ==
    \A k \in Keys : tx[k].open =>
        /\ tx[k].row \in Corrections /\ tx[k].target \in Ids /\ held[tx[k].target] # None
        /\ \/ tx[k].row.id = tx[k].target
           \/ /\ tx[k].row.id \notin {s.id : s \in Rows}
              /\ held[tx[k].row.id] = None /\ pending[tx[k].row.id] = None
              /\ \A j \in Keys \ {k} : tx[j].open => tx[j].row.id # tx[k].row.id

Inv ==
    /\ TypeOK /\ RowsInPlace /\ SeedsCurrent /\ CuresAimed
    /\ NoSecondSoundboxInTurn /\ HoldsAnswered /\ RowsAccountedFor
=============================================================================
