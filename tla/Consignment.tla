---------------------------- MODULE Consignment ----------------------------
(***************************************************************************)
(* One batch from its composition to its close: consumeBatchFact and       *)
(* sendBatchToVendorWithinTx of services/fulfillment/src/dispatch.ts, the  *)
(* return sheets of return-sheet.ts through both doors, and the operator's *)
(* sendBatchToVendor, correctDispatchState and closeBatch of ops.ts.       *)
(*                                                                         *)
(* A sheet is one transaction over several rows.  It reads other sheets'   *)
(* work only once that is committed, takes no row lock before it writes,   *)
(* and waits only where it inserts a key that an open transaction has      *)
(* inserted: the AWB of a shpt, or the inbox key of a device or of a       *)
(* collateral link.  tx[f] holds what sheet f has written so far.          *)
(*                                                                         *)
(* A row that is quarantined leaves an intake_exception, which no step     *)
(* reads, and is no step here.                                             *)
(***************************************************************************)
EXTENDS Naturals, FiniteSets

CONSTANTS
    Dispatches,     \* pending_pool_entry rows of the batch
    Group,          \* their dispatch_group, COMBINED for a legacy NULL
    Units,          \* devices in inventory
    Awbs,
    Files,          \* return sheets
    MaxRows,        \* bound on the rows of a sheet that pass the guards
    MaxCorrections, \* bound on correctDispatchState
    None

Groups == {"SOUNDBOX", "COLLATERAL", "COMBINED"}
DISPATCH_STATES == {"QR_GENERATED", "SENT_TO_VENDOR", "DISPATCHED_BY_VENDOR"}
DISPATCH_STATE_RANK == [s \in DISPATCH_STATES \cup {"NULL"} |->
    CASE s = "QR_GENERATED" -> 1 [] s = "SENT_TO_VENDOR" -> 2
      [] s = "DISPATCHED_BY_VENDOR" -> 3 [] OTHER -> 0]
BATCH_STATUSES == {"BATCHED", "SENT_TO_PRINT_VENDOR", "CLOSED"}
TERMINAL_SHIPMENT_STATUSES == {"DELIVERED", "RETURNED"}
ShptStatuses == {"DISPATCHED_BY_VENDOR"} \cup TERMINAL_SHIPMENT_STATUSES

ASSUME ConstantsAssumption ==
    /\ Group \in [Dispatches -> Groups]
    /\ MaxRows \in Nat /\ MaxCorrections \in Nat
    /\ None \notin Units /\ None \notin Awbs /\ None \notin Dispatches

Row == [unit : Units \cup {None}, asgn : Dispatches, awb : Awbs]
Pair == [unit : Units, asgn : Dispatches, awb : Awbs]
Link == [asgn : Dispatches, awb : Awbs]

VARIABLES
    dispatchState, \* pending_pool_entry.dispatch_state
    link,          \* pending_pool_entry.collateral_shipment
    batch,         \* batch.status
    bound,         \* whether batch.print_vndr is set
    asgnOf,        \* unit.asgn_id
    shptOf,        \* unit.shipment
    damaged,       \* units DAMAGED
    shpt,          \* status of a born shpt, NONE for an AWB not born
    tx,            \* the sheets
    told,          \* dispatch facts: how often each told each state, to 2
    shptTold,      \* AWBs a shipment fact announced as born with devices
    linkTold,      \* dispatch, AWB and sheet of each collateral fact
    closing,       \* whether a closeBatch has read a settled batch
    corrections,
    overlap,       \* history: whether two sheets were open at once
    early,         \* history: dispatches a sheet shipped before their send
    corrected      \* history: dispatches corrected by hand

entryVars == <<dispatchState, link>>
batchVars == <<batch, bound, closing>>
unitVars == <<asgnOf, shptOf>>
factVars == <<told, shptTold, linkTold>>
history == <<overlap, early, corrected>>
vars == <<entryVars, batchVars, unitVars, damaged, shpt, tx, factVars, corrections, history>>

NewSheet == [phase |-> "new", row |-> None, rows |-> 0,
             births |-> {}, joined |-> {}, pairs |-> {}, links |-> {}, covered |-> {}]

TypeOK ==
    /\ dispatchState \in [Dispatches -> DISPATCH_STATES \cup {"NULL"}]
    /\ link \in [Dispatches -> Awbs \cup {None}]
    /\ batch \in BATCH_STATUSES /\ bound \in BOOLEAN /\ closing \in BOOLEAN
    /\ asgnOf \in [Units -> Dispatches \cup {None}]
    /\ shptOf \in [Units -> Awbs \cup {None}]
    /\ damaged \subseteq Units
    /\ shpt \in [Awbs -> ShptStatuses \cup {"NONE"}]
    /\ tx \in [Files -> [phase : {"new", "open", "done"}, row : Row \cup {None}, rows : 0..MaxRows,
                         births : SUBSET Awbs, joined : SUBSET Awbs, pairs : SUBSET Pair,
                         links : SUBSET Link, covered : SUBSET Dispatches]]
    /\ told \in [Dispatches -> [DISPATCH_STATES -> 0..2]]
    /\ shptTold \subseteq Awbs
    /\ linkTold \subseteq [asgn : Dispatches, awb : Awbs, file : Files]
    /\ corrections \in 0..MaxCorrections
    /\ overlap \in BOOLEAN
    /\ early \subseteq Dispatches /\ corrected \subseteq Dispatches

Init ==
    /\ dispatchState = [d \in Dispatches |-> "NULL"]
    /\ link = [d \in Dispatches |-> None]
    /\ batch = "BATCHED" /\ bound = FALSE /\ closing = FALSE
    /\ asgnOf = [u \in Units |-> None] /\ shptOf = [u \in Units |-> None]
    /\ damaged = {}
    /\ shpt = [a \in Awbs |-> "NONE"]
    /\ tx = [f \in Files |-> NewSheet]
    /\ told = [d \in Dispatches |-> [s \in DISPATCH_STATES |-> 0]]
    /\ shptTold = {} /\ linkTold = {}
    /\ corrections = 0
    /\ overlap = FALSE /\ early = {} /\ corrected = {}

-----------------------------------------------------------------------------
(* Composition and sending.                                                *)

Twice(n) == IF n = 2 THEN 2 ELSE n + 1
Tell(ds, s) == told' = [d \in Dispatches |->
    IF d \in ds THEN [told[d] EXCEPT ![s] = Twice(@)] ELSE told[d]]

(* consumeBatchFact.  A composition that lacks a rendered artifact throws  *)
(* and is retried whole.                                                   *)
Compose ==
    /\ \A d \in Dispatches : dispatchState[d] = "NULL"
    /\ dispatchState' = [d \in Dispatches |-> "QR_GENERATED"]
    /\ Tell(Dispatches, "QR_GENERATED")
    /\ UNCHANGED <<link, batchVars, unitVars, damaged, shpt, tx, shptTold, linkTold, corrections, history>>

(* sendBatchToVendor, under the key {btch}|dispatch.  Refused while the    *)
(* roster has not exactly one active print vendor.                         *)
SendBatchToVendor_Fault ==
    LET sent == {d \in Dispatches : dispatchState[d] = "QR_GENERATED"} IN
    /\ ~bound
    /\ \A d \in Dispatches : dispatchState[d] # "NULL"
    /\ sent # {}
    /\ bound' = TRUE
    /\ batch' = "SENT_TO_PRINT_VENDOR"
    /\ dispatchState' = [d \in Dispatches |-> "SENT_TO_VENDOR"]
    /\ Tell(Dispatches, "SENT_TO_VENDOR")
    /\ UNCHANGED <<link, closing, unitVars, damaged, shpt, tx, shptTold, linkTold, corrections, history>>
SendBatchToVendor ==
    LET sent == {d \in Dispatches : dispatchState[d] = "QR_GENERATED"} IN
    /\ ~bound
    /\ \A d \in Dispatches : dispatchState[d] # "NULL"
    /\ sent # {}
    /\ bound' = TRUE
    /\ batch' = "SENT_TO_PRINT_VENDOR"
    /\ dispatchState' = [d \in Dispatches |-> IF d \in sent THEN "SENT_TO_VENDOR" ELSE dispatchState[d]]
    /\ Tell(sent, "SENT_TO_VENDOR")
    /\ UNCHANGED <<link, closing, unitVars, damaged, shpt, tx, shptTold, linkTold, corrections, history>>

(* correctDispatchState: forward only, and never out of NULL.              *)
CorrectDispatchState(d, s) ==
    /\ corrections < MaxCorrections
    /\ corrections' = corrections + 1
    /\ s # "QR_GENERATED" /\ dispatchState[d] # "NULL"
    /\ DISPATCH_STATE_RANK[dispatchState[d]] < DISPATCH_STATE_RANK[s]
    /\ dispatchState' = [dispatchState EXCEPT ![d] = s]
    /\ Tell({d}, s)
    /\ corrected' = corrected \cup {d}
    /\ UNCHANGED <<link, batchVars, unitVars, damaged, shpt, tx, shptTold, linkTold, overlap, early>>

-----------------------------------------------------------------------------
(* A return sheet.                                                         *)

(* The vendor's door asks nothing of the batch; the operator's asks for a  *)
(* bound vendor, and adds no behaviour.                                    *)
OpenSheet(f) ==
    /\ tx[f].phase = "new"
    /\ tx' = [tx EXCEPT ![f].phase = "open"]
    /\ overlap' = (overlap \/ \E g \in Files : tx[g].phase = "open")
    /\ UNCHANGED <<entryVars, batchVars, unitVars, damaged, shpt, factVars, corrections, early, corrected>>

(* What sheet f sees: the committed rows and its own.                      *)
SeesPaired(f, u) == shptOf[u] # None \/ \E p \in tx[f].pairs : p.unit = u
SeesDevice(f, d, u) ==
    \/ \E v \in Units \ {u} : asgnOf[v] = d
    \/ \E p \in tx[f].pairs : p.asgn = d /\ p.unit # u
SeesLink(f, d) == link[d] # None \/ \E l \in tx[f].links : l.asgn = d

(* The guards of a row, read before it writes anything.  Reads of one row  *)
(* that a commit falls between end as if it fell before or after them all. *)
Accepts_CapFault(f, r) ==
    IF r.unit # None
    THEN /\ ~SeesPaired(f, r.unit)
         /\ Group[r.asgn] # "COLLATERAL"
    ELSE /\ Group[r.asgn] # "SOUNDBOX"
         /\ ~SeesLink(f, r.asgn)
Accepts(f, r) ==
    IF r.unit # None
    THEN /\ ~SeesPaired(f, r.unit)
         /\ Group[r.asgn] # "COLLATERAL"
         /\ ~SeesDevice(f, r.asgn, r.unit)
    ELSE /\ Group[r.asgn] # "SOUNDBOX"
         /\ ~SeesLink(f, r.asgn)

ReadRow(f, r) ==
    /\ tx[f].phase = "open" /\ tx[f].row = None /\ tx[f].rows < MaxRows
    /\ Accepts(f, r)
    /\ tx' = [tx EXCEPT ![f].row = r, ![f].rows = @ + 1]
    /\ UNCHANGED <<entryVars, batchVars, unitVars, damaged, shpt, factVars, corrections, history>>

(* The inserts wait for a transaction that holds the same key.             *)
Waits(f, r) == \E g \in Files \ {f} :
    \/ r.awb \in tx[g].births
    \/ r.unit # None /\ \E p \in tx[g].pairs : p.unit = r.unit
    \/ r.unit = None /\ \E l \in tx[g].links : l.asgn = r.asgn

(* onceWithin on {unit}|print_for and on {asgn}|collateral_shipment.       *)
KeyTaken_Fault(f, r) == FALSE
KeyTaken(f, r) == IF r.unit # None THEN SeesPaired(f, r.unit) ELSE SeesLink(f, r.asgn)

(* The rows whose dispatch the end of the file will try to advance.        *)
Covers(r) == r.unit # None \/ Group[r.asgn] = "COLLATERAL"

(* The shpt is born unless the AWB is known; the pairing or the link is    *)
(* made unless its inbox key is there by now; the rest is done regardless. *)
WriteRow(f) ==
    LET r == tx[f].row
        births == IF shpt[r.awb] = "NONE" THEN tx[f].births \cup {r.awb} ELSE tx[f].births
        fresh == ~KeyTaken(f, r)
    IN
    /\ r # None /\ ~Waits(f, r)
    /\ tx' = [tx EXCEPT
         ![f].row = None,
         ![f].births = births,
         ![f].joined = IF r.unit # None /\ r.awb \in births THEN @ \cup {r.awb} ELSE @,
         ![f].pairs = IF r.unit # None /\ fresh THEN @ \cup {r} ELSE @,
         ![f].links = IF r.unit = None /\ fresh
                      THEN @ \cup {[asgn |-> r.asgn, awb |-> r.awb]} ELSE @,
         ![f].covered = IF Covers(r) THEN @ \cup {r.asgn} ELSE @]
    /\ UNCHANGED <<entryVars, batchVars, unitVars, damaged, shpt, factVars, corrections, history>>

(* The end of the file: the covered dispatches that were sent advance, and *)
(* everything commits.                                                     *)
Advanced_Fault(f) == {d \in tx[f].covered : dispatchState[d] # "DISPATCHED_BY_VENDOR"}
Advanced(f) == {d \in tx[f].covered : dispatchState[d] = "SENT_TO_VENDOR"}

CommitSheet(f) ==
    LET t == tx[f]  adv == Advanced(f) IN
    /\ t.phase = "open" /\ t.row = None
    /\ dispatchState' = [d \in Dispatches |-> IF d \in adv THEN "DISPATCHED_BY_VENDOR" ELSE dispatchState[d]]
    /\ Tell(adv, "DISPATCHED_BY_VENDOR")
    /\ link' = [d \in Dispatches |->
         IF \E l \in t.links : l.asgn = d THEN (CHOOSE l \in t.links : l.asgn = d).awb ELSE link[d]]
    /\ asgnOf' = [u \in Units |->
         IF \E p \in t.pairs : p.unit = u THEN (CHOOSE p \in t.pairs : p.unit = u).asgn ELSE asgnOf[u]]
    /\ shptOf' = [u \in Units |->
         IF \E p \in t.pairs : p.unit = u THEN (CHOOSE p \in t.pairs : p.unit = u).awb ELSE shptOf[u]]
    /\ shpt' = [a \in Awbs |-> IF a \in t.births THEN "DISPATCHED_BY_VENDOR" ELSE shpt[a]]
    /\ shptTold' = shptTold \cup t.joined
    /\ linkTold' = linkTold \cup {[asgn |-> l.asgn, awb |-> l.awb, file |-> f] : l \in t.links}
    /\ early' = early \cup {d \in t.covered : dispatchState[d] \in {"NULL", "QR_GENERATED"}}
    /\ tx' = [tx EXCEPT ![f] = [NewSheet EXCEPT !.phase = "done"]]
    /\ UNCHANGED <<batchVars, damaged, corrections, overlap, corrected>>

(* The process dies or loses a deadlock; the file may be uploaded again.   *)
AbortSheet(f) ==
    /\ tx[f].phase = "open"
    /\ tx' = [tx EXCEPT ![f] = NewSheet]
    /\ UNCHANGED <<entryVars, batchVars, unitVars, damaged, shpt, factVars, corrections, history>>

-----------------------------------------------------------------------------
(* The parcels, the devices and the close.                                 *)

(* The courier settles a parcel; an operator may override how.             *)
SettleShpt(a, s) ==
    /\ shpt[a] # "NONE"
    /\ shpt' = [shpt EXCEPT ![a] = s]
    /\ UNCHANGED <<entryVars, batchVars, unitVars, damaged, tx, factVars, corrections, history>>

FlagDamage(u) ==
    /\ shptOf[u] # None /\ u \notin damaged
    /\ damaged' = damaged \cup {u}
    /\ UNCHANGED <<entryVars, batchVars, unitVars, shpt, tx, factVars, corrections, history>>

CancelDamage(u) ==
    /\ u \in damaged
    /\ damaged' = damaged \ {u}
    /\ UNCHANGED <<entryVars, batchVars, unitVars, shpt, tx, factVars, corrections, history>>

(* readBatchSettlementWithinTx.                                            *)
ShptsOf(d) == ({link[d]} \cup {shptOf[u] : u \in {v \in Units : asgnOf[v] = d}}) \ {None}

DispatchSettled_Fault(d) ==
    \/ \E u \in damaged : asgnOf[u] = d
    \/ \A a \in ShptsOf(d) : shpt[a] \in TERMINAL_SHIPMENT_STATUSES
DispatchSettled(d) ==
    \/ \E u \in damaged : asgnOf[u] = d
    \/ /\ ShptsOf(d) # {}
       /\ \A a \in ShptsOf(d) : shpt[a] \in TERMINAL_SHIPMENT_STATUSES

CloseRead ==
    /\ batch # "CLOSED" /\ ~closing
    /\ Dispatches # {} /\ \A d \in Dispatches : DispatchSettled(d)
    /\ closing' = TRUE
    /\ UNCHANGED <<entryVars, batch, bound, unitVars, damaged, shpt, tx, factVars, corrections, history>>

CloseWrite ==
    /\ closing
    /\ batch' = "CLOSED" /\ closing' = FALSE
    /\ UNCHANGED <<entryVars, bound, unitVars, damaged, shpt, tx, factVars, corrections, history>>

-----------------------------------------------------------------------------
Sheet(f) == OpenSheet(f) \/ (\E r \in Row : ReadRow(f, r)) \/ WriteRow(f) \/ CommitSheet(f) \/ AbortSheet(f)

Next ==
    \/ Compose \/ SendBatchToVendor
    \/ \E d \in Dispatches, s \in DISPATCH_STATES : CorrectDispatchState(d, s)
    \/ \E f \in Files : Sheet(f)
    \/ \E a \in Awbs, s \in TERMINAL_SHIPMENT_STATUSES : SettleShpt(a, s)
    \/ \E u \in Units : FlagDamage(u) \/ CancelDamage(u)
    \/ CloseRead \/ CloseWrite

Spec == Init /\ [][Next]_vars

-----------------------------------------------------------------------------
(* Properties.                                                             *)

DevicesOf(d) == {u \in Units : asgnOf[u] = d}

(***************************************************************************)
(* One AWB per dispatch id (D-13): a leg of its own travels in at most one *)
(* parcel, whatever sheets report it.                                      *)
(***************************************************************************)
OneAwbPerDispatch ==
    \A d \in Dispatches : Group[d] # "COMBINED" => \A a, b \in ShptsOf(d) : a = b

(***************************************************************************)
(* The same, as long as no two sheets were open at once: the guards that   *)
(* read the persisted rows suffice within a file, across files, and across *)
(* files that were aborted and uploaded again.                             *)
(***************************************************************************)
OneAwbInTurn ==
    ~overlap => /\ OneAwbPerDispatch
                /\ \A d \in Dispatches : \A u, v \in DevicesOf(d) : u = v

(***************************************************************************)
(* No parcel without a content: a shpt that was born carries a device or   *)
(* somebody's collateral and was announced, unless sheets overlapped (the  *)
(* orphan shpt the already-paired guard of the return sheet is there for). *)
(***************************************************************************)
ParcelsCarry ==
    ~overlap => \A a \in Awbs : shpt[a] # "NONE" =>
        /\ (\E u \in Units : shptOf[u] = a) \/ (\E d \in Dispatches : link[d] = a)
        /\ a \in shptTold \/ \E l \in linkTold : l.awb = a

(***************************************************************************)
(* The state of a dispatch was told once, and no state more than once, by  *)
(* composition, send, sheets and corrections together: what analytics and  *)
(* the damage case fold agrees with the row.                               *)
(***************************************************************************)
ToldOnce ==
    \A d \in Dispatches :
        /\ \A s \in DISPATCH_STATES : told[d][s] <= 1
        /\ dispatchState[d] # "NULL" => told[d][dispatchState[d]] = 1
        /\ \A s \in DISPATCH_STATES : told[d][s] = 1 =>
              DISPATCH_STATE_RANK[s] <= DISPATCH_STATE_RANK[dispatchState[d]]

(***************************************************************************)
(* A collateral link is announced by exactly one fact, which names the AWB *)
(* the row keeps, also when two sheets raced for it.                       *)
(***************************************************************************)
LinkToldOnce ==
    \A d \in Dispatches :
        /\ \A l, k \in linkTold : l.asgn = d /\ k.asgn = d => l = k
        /\ link[d] # None <=> \E l \in linkTold : l.asgn = d
        /\ \A l \in linkTold : l.asgn = d => l.awb = link[d]

(***************************************************************************)
(* A leg with a parcel has left the vendor, unless its sheet was read      *)
(* before the batch was sent.                                              *)
(***************************************************************************)
LegShipped ==
    \A d \in Dispatches \ early :
        /\ DevicesOf(d) # {} => dispatchState[d] = "DISPATCHED_BY_VENDOR"
        /\ Group[d] = "COLLATERAL" /\ link[d] # None => dispatchState[d] = "DISPATCHED_BY_VENDOR"

(***************************************************************************)
(* A dispatch that left the vendor has the parcel it left in, unless an    *)
(* operator said so or sheets overlapped; a combined one left with its     *)
(* device ("DISPATCHED_BY_VENDOR would claim the device kit left").        *)
(***************************************************************************)
ShippedHasParcel ==
    ~overlap => \A d \in Dispatches \ corrected :
        dispatchState[d] = "DISPATCHED_BY_VENDOR" =>
            IF Group[d] = "COLLATERAL" THEN link[d] # None ELSE DevicesOf(d) # {}

(***************************************************************************)
(* A closed batch has nothing the vendor never returned: every dispatch is *)
(* in a parcel, though closing reads and writes without a lock.            *)
(***************************************************************************)
ClosedHasParcels == batch = "CLOSED" => \A d \in Dispatches : ShptsOf(d) # {}

(***************************************************************************)
(* dispatch_state never regresses, and skips a step only by an operator's  *)
(* correction.                                                             *)
(***************************************************************************)
ClimbsInOrder ==
    [][\A d \in Dispatches : dispatchState'[d] # dispatchState[d] =>
          IF corrections' = corrections
          THEN DISPATCH_STATE_RANK[dispatchState'[d]] = DISPATCH_STATE_RANK[dispatchState[d]] + 1
          ELSE DISPATCH_STATE_RANK[dispatchState'[d]] > DISPATCH_STATE_RANK[dispatchState[d]]]_vars
-----------------------------------------------------------------------------
(* The strengthening: what an open sheet holds.                            *)

(* The row a sheet is about and what it has written have the shape of      *)
(* their group, and so has what was committed.                             *)
Shapes ==
    /\ \A f \in Files :
         /\ tx[f].row # None =>
              IF tx[f].row.unit # None THEN Group[tx[f].row.asgn] # "COLLATERAL"
                                       ELSE Group[tx[f].row.asgn] # "SOUNDBOX"
         /\ \A p \in tx[f].pairs : Group[p.asgn] # "COLLATERAL"
         /\ \A l \in tx[f].links : Group[l.asgn] # "SOUNDBOX"
    /\ \A u \in Units : asgnOf[u] # None => Group[asgnOf[u]] # "COLLATERAL"
    /\ \A d \in Dispatches : link[d] # None => Group[d] # "SOUNDBOX"

(* The keys an open sheet has inserted are its own.                        *)
Held ==
    /\ \A f \in Files :
         /\ tx[f].phase # "open" => tx[f].row = None /\ tx[f].births = {} /\ tx[f].joined = {}
                                    /\ tx[f].pairs = {} /\ tx[f].links = {} /\ tx[f].covered = {}
         /\ tx[f].phase # "done" => \A l \in linkTold : l.file # f
         /\ \A p \in tx[f].pairs : shptOf[p.unit] = None
         /\ \A l \in tx[f].links : link[l.asgn] = None
         /\ \A p, q \in tx[f].pairs : p.unit = q.unit => p = q
         /\ \A l, k \in tx[f].links : l.asgn = k.asgn => l = k
    /\ \A f, g \in Files : f # g =>
         /\ \A p \in tx[f].pairs, q \in tx[g].pairs : p.unit # q.unit
         /\ \A l \in tx[f].links, k \in tx[g].links : l.asgn # k.asgn

(* A device has a dispatch exactly if it has a parcel.                     *)
Paired ==
    /\ \A u \in Units : asgnOf[u] = None <=> shptOf[u] = None
    /\ \A u \in damaged : shptOf[u] # None

(* What a sheet covers it has reported, and the other way round.           *)
Reports ==
    \A f \in Files :
        /\ \A p \in tx[f].pairs : p.asgn \in tx[f].covered
        /\ \A l \in tx[f].links : Group[l.asgn] = "COLLATERAL" => l.asgn \in tx[f].covered

CloseSound == closing \/ batch = "CLOSED" => \A d \in Dispatches : ShptsOf(d) # {}

(* A sheet that never met another one still sees what it read.             *)
Alone ==
    ~overlap =>
        /\ \A f, g \in Files : tx[f].phase = "open" /\ tx[g].phase = "open" => f = g
        /\ \A f \in Files :
             /\ tx[f].row # None => Accepts(f, tx[f].row)
             /\ \A p, q \in tx[f].pairs : p.asgn = q.asgn => p = q
             /\ \A p \in tx[f].pairs : DevicesOf(p.asgn) = {}
             /\ \A a \in tx[f].births :
                  /\ (\E p \in tx[f].pairs : p.awb = a) \/ (\E l \in tx[f].links : l.awb = a)
                  /\ a \in tx[f].joined \/ \E l \in tx[f].links : l.awb = a
             /\ \A d \in tx[f].covered :
                  IF Group[d] = "COLLATERAL" THEN SeesLink(f, d)
                  ELSE DevicesOf(d) # {} \/ \E p \in tx[f].pairs : p.asgn = d

(***************************************************************************)
(* The inductive invariant: the properties above and what they rest on.    *)
(***************************************************************************)
Inv ==
    /\ TypeOK
    /\ Shapes /\ Held /\ Paired /\ Reports /\ CloseSound /\ Alone
    /\ OneAwbInTurn /\ ParcelsCarry /\ ToldOnce /\ LinkToldOnce
    /\ LegShipped /\ ShippedHasParcel

=============================================================================
