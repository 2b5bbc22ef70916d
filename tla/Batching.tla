------------------------------ MODULE Batching ------------------------------
(***************************************************************************)
(* The batching of one (tenant, program) pool, services/fulfillment/src/   *)
(* batching.ts with the demand route of apps/consumer/src/routes.ts, the   *)
(* timer engine of packages/engine and the hold, release and manual batch  *)
(* operations of ops.ts.                                                   *)
(*                                                                         *)
(* Three kinds of process share the database: Kafka consumers that pool a  *)
(* demand fact and then evaluate the lot size, schedulers that claim due   *)
(* max_wait timers and fire them, and operators' requests.  A transaction  *)
(* that supersedes timers is two steps: the statements, which choose and   *)
(* lock rows, and the commit, which makes their effect visible.  Between   *)
(* them the other processes see the old rows, skip the locked timers       *)
(* (SKIP LOCKED) and wait for the locked entries.                          *)
(*                                                                         *)
(* Time is a coarse clock that runs only between handlers: entries carry   *)
(* their age and timers the time left, both saturating, so the state       *)
(* space is finite without a horizon.  A handler or a claim transaction    *)
(* lasts seconds (Prisma's transaction timeout is 5 s), a tick of this     *)
(* clock is a fraction of the 7 day max wait.                              *)
(***************************************************************************)
EXTENDS Naturals, FiniteSets

CONSTANTS
    Asgns,        \* dispatch ids; each arrives once as a demand fact
    Replacements, \* those of Asgns that a cancelled damage case may withdraw
    Holdable,     \* those of Asgns an operator may hold
    RequestOf,    \* source_event_id of a dispatch: the two legs of one bank row share it
    BankOf,       \* bank_reference_code of a dispatch
    BankLot,      \* per-bank minimum lot override, 0 when the bank has none
    MinLot,       \* the pool's minLotSize
    MaxWait,      \* the pool's maxWaitSeconds, in ticks
    Consumers,    \* fulfillment consumers
    Schedulers,   \* processes that run runBatchingTick
    OpsTokens,    \* client keys of manual batch requests
    Timers,       \* saga_timer rows alive at one time; a settled row's slot is reused
    MaxCrashes,   \* bound on crashes and failed handlers
    None

Procs == Consumers \cup Schedulers \cup OpsTokens

ASSUME ConstantsAssumption ==
    /\ MinLot \in Nat \ {0}
    /\ MaxWait \in Nat \ {0}
    /\ MaxCrashes \in Nat
    /\ Replacements \subseteq Asgns
    /\ Holdable \subseteq Asgns
    /\ \A a \in Asgns : BankLot[BankOf[a]] \in Nat
    /\ IsFiniteSet(Asgns)
ASSUME DisjointAssumption ==
    /\ None \notin Asgns \cup Timers
    /\ Consumers \cap Schedulers = {}
    /\ Consumers \cap OpsTokens = {}
    /\ Schedulers \cap OpsTokens = {}
    /\ Asgns \cap Timers = {}
    /\ Asgns \cap OpsTokens = {}
    /\ Timers \cap OpsTokens = {}

VARIABLES
    entry,    \* pending_pool_entry.pool_status, "NONE" when there is no row
    age,      \* now - created_at of a waiting entry, saturating at MaxWait
    waited,   \* history: time since the entry last became POOLED, saturating
    batches,  \* the batch facts committed to the outbox
    inbox,    \* trigger epochs already consumed (fact of LOT_SIZE, timer of MAX_WAIT, token of MANUAL)
    pool,     \* whether the batch_pool anchor row exists
    timer,    \* saga_timer.status of the pool's max_wait timers
    ttl,      \* fire_at - now of a pending timer
    tx,       \* the open transaction of each process
    cpc,      \* where each consumer is in the demand handler
    fact,     \* the demand fact it handles
    spc,      \* where each scheduler is in claimAndFireDueTimers
    claim,    \* the timers its claim transaction holds locked
    fired,    \* those whose effect has returned (marked fired, not yet committed)
    firing,   \* the timer whose effect is running
    rest,     \* the remainder of the oldest entry's wait read by that effect
    crashes

poolVars == <<entry, age, waited, batches>>
timerVars == <<pool, timer, ttl, inbox>>
consumerVars == <<cpc, fact>>
schedulerVars == <<spc, claim, fired, firing, rest>>
vars == <<poolVars, timerVars, tx, consumerVars, schedulerVars, crashes>>

-----------------------------------------------------------------------------
PoolStatus == {"NONE", "POOLED", "HELD", "BATCHED", "CANCELLED"}
Reasons == {"LOT_SIZE", "MAX_WAIT", "MANUAL"}

EmptyTx(r) == [reason |-> r, claims |-> {}, supersedes |-> {}, arms |-> {}, delay |-> 0]
NoTx == EmptyTx("none")
TxRecord == [reason : Reasons \cup {"none", "REARM"}, claims : SUBSET Asgns,
             supersedes : SUBSET Timers, arms : SUBSET Timers, delay : 0..MaxWait]

BatchFact == [reason : Reasons, asgns : SUBSET Asgns]

TypeOK ==
    /\ entry \in [Asgns -> PoolStatus]
    /\ age \in [Asgns -> 0..MaxWait]
    /\ waited \in [Asgns -> 0..MaxWait]
    /\ batches \subseteq BatchFact
    /\ inbox \subseteq Asgns \cup Timers \cup OpsTokens
    /\ pool \in BOOLEAN
    /\ timer \in [Timers -> {"settled", "pending"}]
    /\ ttl \in [Timers -> 0..MaxWait]
    /\ tx \in [Procs -> TxRecord]
    /\ cpc \in [Consumers -> {"idle", "ensure", "create", "count", "trigger"}]
    /\ fact \in [Consumers -> Asgns \cup {None}]
    /\ \A c \in Consumers : cpc[c] # "idle" => fact[c] # None
    /\ spc \in [Schedulers -> {"idle", "pick", "read", "rearm", "trigger"}]
    /\ claim \in [Schedulers -> SUBSET Timers]
    /\ fired \in [Schedulers -> SUBSET Timers]
    /\ firing \in [Schedulers -> Timers \cup {None}]
    /\ \A s \in Schedulers : spc[s] \in {"read", "rearm", "trigger"} => firing[s] \in claim[s]
    /\ rest \in [Schedulers -> 0..MaxWait]
    /\ crashes \in 0..MaxCrashes

Init ==
    /\ entry = [a \in Asgns |-> "NONE"]
    /\ age = [a \in Asgns |-> 0]
    /\ waited = [a \in Asgns |-> 0]
    /\ batches = {}
    /\ inbox = {}
    /\ pool = FALSE
    /\ timer = [t \in Timers |-> "settled"]
    /\ ttl = [t \in Timers |-> 0]
    /\ tx = [p \in Procs |-> NoTx]
    /\ cpc = [c \in Consumers |-> "idle"]
    /\ fact = [c \in Consumers |-> None]
    /\ spc = [s \in Schedulers |-> "idle"]
    /\ claim = [s \in Schedulers |-> {}]
    /\ fired = [s \in Schedulers |-> {}]
    /\ firing = [s \in Schedulers |-> None]
    /\ rest = [s \in Schedulers |-> 0]
    /\ crashes = 0

-----------------------------------------------------------------------------
(* Rows, locks and reads.                                                  *)

(* Faults used to test the properties stand before the definition they     *)
(* replace and end in _Fault.                                              *)
Pooled == {a \in Asgns : entry[a] = "POOLED"}
PooledOf(b) == {a \in Pooled : BankOf[a] = b}
Requests(S) == {RequestOf[a] : a \in S}

InTx(p) == tx[p].reason # "none"
PoolLocked == \E p \in Procs : tx[p].reason \in Reasons
EntryLocked(a) == \E p \in Procs : a \in tx[p].claims
TimerLocked(t) == \/ \E s \in Schedulers : t \in claim[s]
                  \/ \E p \in Procs : t \in tx[p].supersedes

Pending == {t \in Timers : timer[t] = "pending"}
Unlocked == {t \in Pending : ~TimerLocked(t)}
FreshTimers == {t \in Timers : timer[t] = "settled" /\ \A p \in Procs : t \notin tx[p].arms}
NewTimer == CHOOSE t \in FreshTimers : TRUE

(***************************************************************************)
(* The statements of supersedeAndRearmMaxWait: every pending timer nobody  *)
(* holds is to be superseded, except the one that is firing, and one fresh *)
(* timer is to be armed.                                                   *)
(***************************************************************************)
SupersedeAndRearm(p, reason, rows, exempt, delay) ==
    /\ FreshTimers # {}
    /\ tx' = [tx EXCEPT ![p] = [reason |-> reason, claims |-> rows,
                                supersedes |-> Unlocked \ exempt,
                                arms |-> {NewTimer}, delay |-> delay]]

(* Before T0b.1: a firing timer that finds nothing is not replaced.        *)
TriggerBatch_Fault(p, reason, scope, exempt) ==
    /\ ~PoolLocked
    /\ pool
    /\ \/ scope # {} /\ SupersedeAndRearm(p, reason, scope, exempt, MaxWait)
       \/ scope = {} /\ tx' = [tx EXCEPT ![p] = EmptyTx(reason)]

(***************************************************************************)
(* triggerBatchWithinTx up to its commit, for an epoch not yet consumed:   *)
(* take the pool lock, claim the POOLED rows in scope, and re-arm when     *)
(* there was something to batch or a timer is being consumed.              *)
(***************************************************************************)
TriggerBatch(p, reason, scope, exempt) ==
    /\ ~PoolLocked
    /\ pool
    /\ \/ /\ scope # {} \/ exempt # {}
          /\ SupersedeAndRearm(p, reason, scope, exempt, MaxWait)
       \/ /\ scope = {} /\ exempt = {}
          /\ tx' = [tx EXCEPT ![p] = EmptyTx(reason)]

(* The commit of either kind of transaction.                               *)
Apply(p, epoch) ==
    LET t == tx[p] IN
    /\ entry' = [a \in Asgns |-> IF a \in t.claims THEN "BATCHED" ELSE entry[a]]
    /\ age' = [a \in Asgns |-> IF a \in t.claims THEN 0 ELSE age[a]]
    /\ waited' = [a \in Asgns |-> IF a \in t.claims THEN 0 ELSE waited[a]]
    /\ batches' = IF t.claims = {} THEN batches
                  ELSE batches \cup {[reason |-> t.reason, asgns |-> t.claims]}
    /\ timer' = [i \in Timers |-> IF i \in t.arms THEN "pending"
                                  ELSE IF i \in t.supersedes THEN "settled" ELSE timer[i]]
    /\ ttl' = [i \in Timers |-> IF i \in t.arms THEN t.delay
                                ELSE IF i \in t.supersedes THEN 0 ELSE ttl[i]]
    /\ inbox' = (inbox \ t.supersedes) \cup (IF t.reason = "REARM" THEN {} ELSE {epoch})
    /\ tx' = [tx EXCEPT ![p] = NoTx]
    /\ UNCHANGED <<pool, crashes>>

-----------------------------------------------------------------------------
(* The demand fact's handler: projectDemandFact, then onDemandAccrued.     *)

(***************************************************************************)
(* projectDemandFact in its own transaction.  A redelivered fact finds its *)
(* row and the handler returns before onDemandAccrued, which is no step.   *)
(***************************************************************************)
ProjectDemandFact(c, a) ==
    /\ cpc[c] = "idle"
    /\ entry[a] = "NONE"
    /\ entry' = [entry EXCEPT ![a] = "POOLED"]
    /\ cpc' = [cpc EXCEPT ![c] = "ensure"]
    /\ fact' = [fact EXCEPT ![c] = a]
    /\ UNCHANGED <<age, waited, batches, timerVars, tx, schedulerVars, crashes>>

EnsurePool(c) ==
    /\ cpc[c] = "ensure"
    /\ cpc' = [cpc EXCEPT ![c] = IF pool THEN "count" ELSE "create"]
    /\ UNCHANGED <<poolVars, timerVars, tx, fact, schedulerVars, crashes>>

(***************************************************************************)
(* The anchor and its first timer; the loser of the ON CONFLICT race rolls *)
(* back and re-selects the winner's row.                                   *)
(***************************************************************************)
CreatePool(c) ==
    /\ cpc[c] = "create"
    /\ \/ pool /\ UNCHANGED <<timer, ttl>>
       \/ /\ ~pool /\ FreshTimers # {}
          /\ timer' = [timer EXCEPT ![NewTimer] = "pending"]
          /\ ttl' = [ttl EXCEPT ![NewTimer] = MaxWait]
    /\ pool' = TRUE
    /\ cpc' = [cpc EXCEPT ![c] = "count"]
    /\ UNCHANGED <<poolVars, inbox, tx, fact, schedulerVars, crashes>>

(* A bank with an override is judged on its own pooled requests, any other *)
(* on the whole pool.                                                      *)
Scope(a) == IF BankLot[BankOf[a]] > 0 THEN PooledOf(BankOf[a]) ELSE Pooled
Lot(a) == IF BankLot[BankOf[a]] > 0 THEN BankLot[BankOf[a]] ELSE MinLot
LotReached_Fault(a) == Cardinality(Requests(Scope(a))) > Lot(a)
LotReached(a) == Cardinality(Requests(Scope(a))) >= Lot(a)

Return(c) == /\ cpc' = [cpc EXCEPT ![c] = "idle"]
             /\ fact' = [fact EXCEPT ![c] = None]

CountPooled(c) ==
    /\ cpc[c] = "count"
    /\ IF LotReached(fact[c])
         THEN cpc' = [cpc EXCEPT ![c] = "trigger"] /\ UNCHANGED fact
         ELSE Return(c)
    /\ UNCHANGED <<poolVars, timerVars, tx, schedulerVars, crashes>>

TriggerLotSize(c) ==
    /\ cpc[c] = "trigger" /\ ~InTx(c)
    /\ IF fact[c] \in inbox
         THEN Return(c) /\ UNCHANGED tx
         ELSE TriggerBatch(c, "LOT_SIZE", Scope(fact[c]), {}) /\ UNCHANGED consumerVars
    /\ UNCHANGED <<poolVars, timerVars, schedulerVars, crashes>>

CommitLotSize(c) ==
    /\ InTx(c)
    /\ Apply(c, fact[c])
    /\ Return(c)
    /\ UNCHANGED schedulerVars

-----------------------------------------------------------------------------
(* The scheduler: claimAndFireDueTimers with runDueBatchTimers' effect.    *)

ClaimDueTimers(s) ==
    LET due == {t \in Unlocked : ttl[t] = 0} IN
    /\ spc[s] = "idle"
    /\ due # {}
    /\ claim' = [claim EXCEPT ![s] = due]
    /\ spc' = [spc EXCEPT ![s] = "pick"]
    /\ UNCHANGED <<poolVars, timerVars, tx, consumerVars, fired, firing, rest, crashes>>

FireNext(s) ==
    /\ spc[s] = "pick"
    /\ \E t \in claim[s] \ fired[s] : firing' = [firing EXCEPT ![s] = t]
    /\ spc' = [spc EXCEPT ![s] = "read"]
    /\ UNCHANGED <<poolVars, timerVars, tx, consumerVars, claim, fired, rest, crashes>>

(* Before T3.3: re-arm a full window whatever the oldest entry's age.      *)
ReadOldest_FullWindowFault(s) ==
    /\ spc[s] = "read"
    /\ \/ /\ Pooled # {} /\ \A a \in Pooled : age[a] < MaxWait
          /\ rest' = [rest EXCEPT ![s] = MaxWait]
          /\ spc' = [spc EXCEPT ![s] = "rearm"]
       \/ /\ Pooled = {} \/ \E a \in Pooled : age[a] = MaxWait
          /\ spc' = [spc EXCEPT ![s] = "trigger"]
          /\ UNCHANGED rest
    /\ UNCHANGED <<poolVars, timerVars, tx, consumerVars, claim, fired, firing, crashes>>

(* The unlocked read of the oldest POOLED entry's age decides.             *)
ReadOldest(s) ==
    /\ spc[s] = "read"
    /\ \/ /\ \A a \in Pooled : age[a] < MaxWait
          /\ \E a \in Pooled :
                /\ \A b \in Pooled : age[b] <= age[a]
                /\ rest' = [rest EXCEPT ![s] = MaxWait - age[a]]
          /\ spc' = [spc EXCEPT ![s] = "rearm"]
       \/ /\ Pooled = {} \/ \E a \in Pooled : age[a] = MaxWait
          /\ spc' = [spc EXCEPT ![s] = "trigger"]
          /\ UNCHANGED rest
    /\ UNCHANGED <<poolVars, timerVars, tx, consumerVars, claim, fired, firing, crashes>>

(* The effect has returned: the timer is marked fired in the claim tx.     *)
EffectDone(s) ==
    /\ fired' = [fired EXCEPT ![s] = @ \cup {firing[s]}]
    /\ firing' = [firing EXCEPT ![s] = None]
    /\ spc' = [spc EXCEPT ![s] = "pick"]
    /\ rest' = [rest EXCEPT ![s] = 0]
    /\ UNCHANGED claim

RearmRemainder(s) ==
    /\ spc[s] = "rearm" /\ ~InTx(s)
    /\ SupersedeAndRearm(s, "REARM", {}, {firing[s]}, rest[s])
    /\ UNCHANGED <<poolVars, timerVars, consumerVars, schedulerVars, crashes>>

TriggerMaxWait(s) ==
    /\ spc[s] = "trigger" /\ ~InTx(s)
    /\ IF firing[s] \in inbox
         THEN EffectDone(s) /\ UNCHANGED tx
         ELSE TriggerBatch(s, "MAX_WAIT", Pooled, {firing[s]}) /\ UNCHANGED schedulerVars
    /\ UNCHANGED <<poolVars, timerVars, consumerVars, crashes>>

CommitEffect(s) ==
    /\ InTx(s)
    /\ Apply(s, firing[s])
    /\ EffectDone(s)
    /\ UNCHANGED consumerVars

(* The claim transaction commits: its timers are fired, for good.          *)
CommitClaim(s) ==
    /\ spc[s] = "pick"
    /\ fired[s] = claim[s]
    /\ timer' = [t \in Timers |-> IF t \in claim[s] THEN "settled" ELSE timer[t]]
    /\ inbox' = inbox \ claim[s]
    /\ spc' = [spc EXCEPT ![s] = "idle"]
    /\ claim' = [claim EXCEPT ![s] = {}]
    /\ fired' = [fired EXCEPT ![s] = {}]
    /\ UNCHANGED <<poolVars, pool, ttl, tx, consumerVars, firing, rest, crashes>>

-----------------------------------------------------------------------------
(* Operators, and the damage fact that withdraws a replacement.            *)

ManualBatch(k) ==
    /\ ~InTx(k) /\ k \notin inbox
    /\ TriggerBatch(k, "MANUAL", Pooled, {})
    /\ UNCHANGED <<poolVars, timerVars, consumerVars, schedulerVars, crashes>>

CommitManual(k) ==
    /\ InTx(k)
    /\ Apply(k, k)
    /\ UNCHANGED <<consumerVars, schedulerVars>>

HoldRecord(a) ==
    /\ a \in Holdable
    /\ entry[a] = "POOLED" /\ ~EntryLocked(a)
    /\ entry' = [entry EXCEPT ![a] = "HELD"]
    /\ waited' = [waited EXCEPT ![a] = 0]
    /\ UNCHANGED <<age, batches, timerVars, tx, consumerVars, schedulerVars, crashes>>

ReleaseRecord(a) ==
    /\ entry[a] = "HELD"
    /\ entry' = [entry EXCEPT ![a] = "POOLED"]
    /\ UNCHANGED <<age, waited, batches, timerVars, tx, consumerVars, schedulerVars, crashes>>

WithdrawReplacement_Fault(a) ==
    /\ a \in Replacements
    /\ entry[a] \in {"POOLED", "HELD", "BATCHED"} /\ ~EntryLocked(a)
    /\ entry' = [entry EXCEPT ![a] = "CANCELLED"]
    /\ age' = [age EXCEPT ![a] = 0]
    /\ waited' = [waited EXCEPT ![a] = 0]
    /\ UNCHANGED <<batches, timerVars, tx, consumerVars, schedulerVars, crashes>>

WithdrawReplacement(a) ==
    /\ a \in Replacements
    /\ entry[a] \in {"POOLED", "HELD"} /\ ~EntryLocked(a)
    /\ entry' = [entry EXCEPT ![a] = "CANCELLED"]
    /\ age' = [age EXCEPT ![a] = 0]
    /\ waited' = [waited EXCEPT ![a] = 0]
    /\ UNCHANGED <<batches, timerVars, tx, consumerVars, schedulerVars, crashes>>

-----------------------------------------------------------------------------
(* Failures and time.                                                      *)

Fail == crashes < MaxCrashes /\ crashes' = crashes + 1

(* A consumer dies, or its handler throws and the retry ladder redelivers: *)
(* the open transaction rolls back and the fact comes again later.         *)
ConsumerFails(c) ==
    /\ cpc[c] # "idle"
    /\ Return(c)
    /\ tx' = [tx EXCEPT ![c] = NoTx]
    /\ Fail
    /\ UNCHANGED <<poolVars, timerVars, schedulerVars>>

(* The claim transaction and the effect's own transaction roll back.       *)
SchedulerFails(s) ==
    /\ spc[s] # "idle"
    /\ tx' = [tx EXCEPT ![s] = NoTx]
    /\ spc' = [spc EXCEPT ![s] = "idle"]
    /\ claim' = [claim EXCEPT ![s] = {}]
    /\ fired' = [fired EXCEPT ![s] = {}]
    /\ firing' = [firing EXCEPT ![s] = None]
    /\ rest' = [rest EXCEPT ![s] = 0]
    /\ Fail
    /\ UNCHANGED <<poolVars, timerVars, consumerVars>>

RequestFails(k) ==
    /\ InTx(k)
    /\ tx' = [tx EXCEPT ![k] = NoTx]
    /\ Fail
    /\ UNCHANGED <<poolVars, timerVars, consumerVars, schedulerVars>>

Quiet == /\ \A c \in Consumers : cpc[c] = "idle"
         /\ \A s \in Schedulers : spc[s] = "idle"
         /\ \A p \in Procs : ~InTx(p)

Older(x) == IF x < MaxWait THEN x + 1 ELSE MaxWait

Tick ==
    /\ Quiet
    /\ age' = [a \in Asgns |-> IF entry[a] \in {"POOLED", "HELD"} THEN Older(age[a]) ELSE age[a]]
    /\ waited' = [a \in Asgns |-> IF entry[a] = "POOLED" THEN Older(waited[a]) ELSE waited[a]]
    /\ ttl' = [t \in Timers |-> IF timer[t] = "pending" /\ ttl[t] > 0 THEN ttl[t] - 1 ELSE ttl[t]]
    /\ UNCHANGED <<entry, batches, pool, timer, inbox, tx, consumerVars, schedulerVars, crashes>>

-----------------------------------------------------------------------------
ConsumerStep(c) ==
    \/ \E a \in Asgns : ProjectDemandFact(c, a)
    \/ EnsurePool(c) \/ CreatePool(c) \/ CountPooled(c)
    \/ TriggerLotSize(c) \/ CommitLotSize(c)

SchedulerStep(s) ==
    \/ ClaimDueTimers(s) \/ FireNext(s) \/ ReadOldest(s) \/ RearmRemainder(s)
    \/ TriggerMaxWait(s) \/ CommitEffect(s) \/ CommitClaim(s)

Next ==
    \/ \E c \in Consumers : ConsumerStep(c) \/ ConsumerFails(c)
    \/ \E s \in Schedulers : SchedulerStep(s) \/ SchedulerFails(s)
    \/ \E k \in OpsTokens : ManualBatch(k) \/ CommitManual(k) \/ RequestFails(k)
    \/ \E a \in Asgns : HoldRecord(a) \/ ReleaseRecord(a) \/ WithdrawReplacement(a)
    \/ Tick

Spec == Init /\ [][Next]_vars

(***************************************************************************)
(* Consumers and the scheduler loop run again after a failure, an open     *)
(* request ends, and time passes.  Operators and damage cases owe nothing. *)
(***************************************************************************)
Fairness ==
    /\ \A c \in Consumers : WF_vars(ConsumerStep(c))
    /\ \A s \in Schedulers : WF_vars(SchedulerStep(s))
    /\ \A k \in OpsTokens : WF_vars(CommitManual(k))
    /\ WF_vars(Tick)

FairSpec == Spec /\ Fairness

-----------------------------------------------------------------------------
(* Properties.                                                             *)

(***************************************************************************)
(* Every batched dispatch is announced by exactly one batch fact, and a    *)
(* batch fact announces only batched dispatches: concurrent LOT_SIZE,      *)
(* MAX_WAIT and MANUAL triggers never both take an entry, and no trigger   *)
(* takes an entry whose fact is not announced (batching.ts, C4).           *)
(***************************************************************************)
DispatchInOneBatch ==
    /\ \A a \in Asgns : entry[a] = "BATCHED" <=> \E b \in batches : a \in b.asgns
    /\ \A b, d \in batches : b # d => b.asgns \cap d.asgns = {}

(***************************************************************************)
(* Max wait is never disarmed: once the anchor exists there is always a    *)
(* pending timer whose firing has not been consumed, whatever triggers     *)
(* interleave and wherever a claim or an effect dies (T0b.1).              *)
(***************************************************************************)
MaxWaitArmed ==
    pool => \E t \in Pending : t \notin inbox /\ \A s \in Schedulers : t \notin fired[s]

(***************************************************************************)
(* No entry outwaits its window: whenever the pool is at rest and nothing  *)
(* has crashed, some timer wakes no later than the moment a POOLED entry   *)
(* has been pooled for MaxWait ("the sweep lands within a tick of the      *)
(* entry's own deadline whatever the pool did before it").                 *)
(***************************************************************************)
DeadlineCovered ==
    Quiet /\ crashes = 0 => \A a \in Pooled : \E t \in Pending : ttl[t] <= MaxWait - waited[a]

(***************************************************************************)
(* A lot is not left behind: with no demand fact in hand, the requests     *)
(* still pooled are fewer than the minimum lot, although each consumer     *)
(* counts without the pool lock and may count rows another has claimed.    *)
(* Not after a crash: a demand whose projection committed is redelivered   *)
(* as a duplicate, which triggers nothing, and the lot waits for a timer.  *)
(***************************************************************************)
NoFullLotLeftBehind ==
    crashes = 0 /\ (\A c \in Consumers : cpc[c] = "idle") => Cardinality(Requests(Pooled)) < MinLot

(***************************************************************************)
(* A held dispatch is out of reach of every trigger until it is released,  *)
(* even one that counted it before the hold.                               *)
(***************************************************************************)
HeldNeverSwept ==
    [][\A a \in Asgns : entry[a] = "HELD" => entry'[a] \in {"HELD", "POOLED", "CANCELLED"}]_entry

(***************************************************************************)
(* Once the pool has its anchor, a pooled dispatch does not stay pooled    *)
(* for ever: the timers batch it if the lot size never does.               *)
(***************************************************************************)
PooledLeaves ==
    \A a \in Asgns : (pool /\ entry[a] = "POOLED") ~> entry[a] # "POOLED"

Promise == INSTANCE DispatchPool WITH announced <- {b.asgns : b \in batches}

(* The pool keeps what DispatchPool promises, step by step.                *)
ImplementsDispatchPool == Promise!Spec

(***************************************************************************)
(* The inductive invariant behind the safety properties.  Locks relates    *)
(* open transactions and claims to the rows they hold; Positions relates   *)
(* an open transaction to the place of its process in the code.            *)
(***************************************************************************)
Locks ==
    /\ \A p \in Procs :
          /\ tx[p].claims \subseteq Pooled
          /\ tx[p].claims # {} => tx[p].reason \in Reasons
          /\ tx[p].supersedes \subseteq Pending
          /\ tx[p].arms \cap Pending = {}
          /\ tx[p].supersedes # {} => tx[p].arms # {}
    /\ \A p, q \in Procs : p # q =>
          /\ tx[p].reason \in Reasons => tx[q].reason \notin Reasons
          /\ tx[p].supersedes \cap tx[q].supersedes = {}
          /\ tx[p].arms \cap tx[q].arms = {}
    /\ \A s \in Schedulers :
          /\ claim[s] \subseteq Pending
          /\ fired[s] \subseteq claim[s]
          /\ \A p \in Procs : claim[s] \cap tx[p].supersedes = {}
          /\ \A r \in Schedulers \ {s} : claim[r] \cap claim[s] = {}
    /\ inbox \cap Timers \subseteq Pending

Positions ==
    /\ \A c \in Consumers : InTx(c) => cpc[c] = "trigger" /\ tx[c].reason = "LOT_SIZE"
    /\ \A k \in OpsTokens : InTx(k) => tx[k].reason = "MANUAL"
    /\ \A s \in Schedulers :
          /\ InTx(s) => /\ spc[s] \in {"rearm", "trigger"}
                        /\ tx[s].reason \in {"REARM", "MAX_WAIT"}
                        /\ tx[s].arms # {}
          /\ spc[s] = "idle" => claim[s] = {}

Inv == TypeOK /\ Locks /\ Positions /\ DispatchInOneBatch /\ MaxWaitArmed

(***************************************************************************)
(* What DeadlineCovered rests on, where no bank has a lot of its own.  No  *)
(* open transaction leaves an entry behind that its new timer would not    *)
(* reach in time, nor does a re-arm about to be opened; until the anchor   *)
(* exists nobody has waited, since the handler of the first demand is not  *)
(* done; behind an anchor each pooled entry has its timer.                 *)
(***************************************************************************)
NoBankLot == \A a \in Asgns : BankLot[BankOf[a]] = 0

InTime(a, d) == waited[a] + d <= MaxWait
Covered(a) == \E t \in Pending :
    InTime(a, ttl[t]) /\ t \notin inbox /\ \A s \in Schedulers : t \notin fired[s]

Ages == \A a \in Asgns : waited[a] <= age[a] /\ (entry[a] # "POOLED" => waited[a] = 0)
LeftInTime == \A p \in Procs : InTx(p) => \A a \in Pooled \ tx[p].claims : InTime(a, tx[p].delay)
RestInTime == \A s \in Schedulers : spc[s] = "rearm" => \A a \in Pooled : InTime(a, rest[s])
AnchorComing == crashes = 0 /\ ~pool => \A a \in Asgns :
    /\ waited[a] = 0
    /\ entry[a] # "NONE" => \E c \in Consumers : cpc[c] \in {"ensure", "create"}
TimersCover == crashes = 0 /\ pool => \A a \in Pooled : Covered(a)

Deadlines == Ages /\ LeftInTime /\ RestInTime /\ AnchorComing /\ TimersCover

(***************************************************************************)
(* What NoFullLotLeftBehind rests on, where nothing is held either.  Each  *)
(* consumer handles a fact of its own that no trigger has consumed, and    *)
(* while a full lot is pooled some consumer has yet to count, is about to  *)
(* claim, or has claimed enough of it.                                     *)
(***************************************************************************)
LotPooled(S) == Cardinality(Requests(S)) >= MinLot

OwnFacts ==
    /\ \A a \in Asgns : a \in inbox => entry[a] # "NONE"
    /\ \A a \in Asgns : entry[a] = "HELD" => a \in Holdable
    /\ \A c \in Consumers : cpc[c] # "idle" =>
          /\ entry[fact[c]] # "NONE" /\ fact[c] \notin inbox
          /\ \A d \in Consumers \ {c} : cpc[d] # "idle" => fact[d] # fact[c]

AtLot(c) ==
    \/ cpc[c] \in {"ensure", "create", "count"}
    \/ cpc[c] = "trigger" /\ (InTx(c) => ~LotPooled(Pooled \ tx[c].claims))

LotsAttended == crashes = 0 /\ LotPooled(Pooled) => \E c \in Consumers : AtLot(c)
=============================================================================
