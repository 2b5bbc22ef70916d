--------------------------- MODULE BatchingProofs ---------------------------
(***************************************************************************)
(* Proofs about Batching for every value of its constants: its invariant,  *)
(* what follows from it, that it implements DispatchPool, and, where the   *)
(* whole pool is one lot, the deadlines of its entries and the lots.       *)
(***************************************************************************)
EXTENDS Batching, FiniteSetTheorems, TLAPS

USE ConstantsAssumption, DisjointAssumption

(* What a process has after opening a transaction: a record that locks     *)
(* only unlocked timers and arms a fresh one, or touches no timer.         *)
Opened(p) ==
    /\ tx' = [tx EXCEPT ![p] = tx'[p]]
    /\ tx'[p] \in TxRecord
    /\ tx'[p].supersedes \subseteq Unlocked
    /\ \/ \E t \in FreshTimers : tx'[p].arms = {t}
       \/ tx'[p].arms = {} /\ tx'[p].supersedes = {}

LEMMA NewTimerIsFresh ==
  ASSUME FreshTimers # {}
  PROVE  NewTimer \in FreshTimers
BY DEF NewTimer

LEMMA OpenedBySupersede ==
  ASSUME TypeOK, NEW p, NEW reason, NEW rows, NEW exempt, NEW delay,
         p \in Procs, reason \in Reasons \cup {"REARM"}, rows \subseteq Asgns,
         delay \in 0..MaxWait,
         SupersedeAndRearm(p, reason, rows, exempt, delay)
  PROVE  /\ Opened(p)
         /\ tx'[p].reason = reason
         /\ tx'[p].claims = rows
         /\ tx'[p].arms # {}
         /\ tx'[p].delay = delay
<1> DEFINE r == [reason |-> reason, claims |-> rows, supersedes |-> Unlocked \ exempt,
                 arms |-> {NewTimer}, delay |-> delay]
<1>1. NewTimer \in FreshTimers
  BY NewTimerIsFresh DEF SupersedeAndRearm
<1>2. Unlocked \subseteq Timers /\ FreshTimers \subseteq Timers
  BY DEF Unlocked, Pending, FreshTimers
<1>3. r \in TxRecord
  BY <1>1, <1>2 DEF TxRecord
<1>4. tx' = [tx EXCEPT ![p] = r]
  BY DEF SupersedeAndRearm
<1>5. tx'[p] = r
  BY <1>4 DEF TypeOK
<1> HIDE DEF r
<1>6. /\ r.reason = reason /\ r.claims = rows /\ r.supersedes \subseteq Unlocked
      /\ r.arms = {NewTimer} /\ r.delay = delay
  BY DEF r
<1>7. QED
  BY <1>1, <1>3, <1>4, <1>5, <1>6 DEF Opened

LEMMA OpenedByTrigger ==
  ASSUME TypeOK, NEW p, NEW reason, NEW scope, NEW exempt,
         p \in Procs, reason \in Reasons, scope \subseteq Asgns,
         TriggerBatch(p, reason, scope, exempt)
  PROVE  /\ ~PoolLocked
         /\ pool
         /\ Opened(p)
         /\ tx'[p].reason = reason
         /\ tx'[p].claims = scope
         /\ exempt # {} => tx'[p].arms # {}
<1>1. ~PoolLocked /\ pool
  BY DEF TriggerBatch
<1>2. CASE SupersedeAndRearm(p, reason, scope, exempt, MaxWait)
  <2>1. MaxWait \in 0..MaxWait /\ reason \in Reasons \cup {"REARM"}
    OBVIOUS
  <2>2. QED
    BY <1>1, <1>2, <2>1, OpenedBySupersede
<1>3. CASE scope = {} /\ exempt = {} /\ tx' = [tx EXCEPT ![p] = EmptyTx(reason)]
  <2>1. EmptyTx(reason) \in TxRecord
    BY DEF TxRecord, EmptyTx
  <2>2. tx' = [tx EXCEPT ![p] = EmptyTx(reason)] /\ tx'[p] = EmptyTx(reason)
    BY <1>3 DEF TypeOK
  <2>3. /\ EmptyTx(reason).reason = reason /\ EmptyTx(reason).claims = {}
        /\ EmptyTx(reason).supersedes = {} /\ EmptyTx(reason).arms = {}
    BY DEF EmptyTx
  <2>4. QED
    BY <1>1, <1>3, <2>1, <2>2, <2>3 DEF Opened
<1>4. QED
  BY <1>2, <1>3 DEF TriggerBatch

LEMMA ScopeIsPooled ==
  ASSUME NEW a
  PROVE  Scope(a) \subseteq Pooled /\ Pooled \subseteq Asgns
BY DEF Scope, PooledOf, Pooled

-----------------------------------------------------------------------------
(* Types. *)

LEMMA InitInv == Init => Inv
<1> SUFFICES ASSUME Init PROVE Inv
  OBVIOUS
<1>1. NoTx \in TxRecord /\ NoTx.reason = "none" /\ NoTx.claims = {} /\ NoTx.supersedes = {} /\ NoTx.arms = {}
  BY DEF NoTx, EmptyTx, TxRecord, Reasons
<1>3. \A p \in Procs : tx[p] = NoTx
  BY DEF Init
<1>2. TypeOK
  <2>1. tx \in [Procs -> TxRecord]
    BY <1>1 DEF Init
  <2>2. 0 \in 0..MaxWait /\ 0 \in 0..MaxCrashes
    OBVIOUS
  <2>3. entry \in [Asgns -> PoolStatus] /\ age \in [Asgns -> 0..MaxWait] /\ waited \in [Asgns -> 0..MaxWait]
    BY <2>2 DEF Init, PoolStatus
  <2>4. timer \in [Timers -> {"settled", "pending"}] /\ ttl \in [Timers -> 0..MaxWait]
    BY <2>2 DEF Init
  <2>5. QED
    BY <2>1, <2>2, <2>3, <2>4 DEF Init, TypeOK
<1>4. Locks
  BY <1>1, <1>3 DEF Init, Locks, Reasons, Procs
<1>5. Positions
  BY <1>1, <1>3 DEF Init, Positions, InTx, Procs
<1>6. DispatchInOneBatch /\ MaxWaitArmed
  BY DEF Init, DispatchInOneBatch, MaxWaitArmed
<1>7. QED
  BY <1>2, <1>4, <1>5, <1>6 DEF Inv

LEMMA OpenedType ==
  ASSUME TypeOK, NEW p, p \in Procs, Opened(p)
  PROVE  tx' \in [Procs -> TxRecord]
BY DEF TypeOK, Opened

LEMMA RolledBackType ==
  ASSUME TypeOK, NEW p, p \in Procs, tx' = [tx EXCEPT ![p] = NoTx]
  PROVE  tx' \in [Procs -> TxRecord]
<1>1. NoTx \in TxRecord
  BY DEF NoTx, EmptyTx, TxRecord, Reasons
<1>2. QED
  BY <1>1 DEF TypeOK

LEMMA ApplyType ==
  ASSUME TypeOK, Locks, NEW p, NEW epoch, p \in Procs,
         epoch \in Asgns \cup Timers \cup OpsTokens, Apply(p, epoch)
  PROVE  /\ entry' \in [Asgns -> PoolStatus]
         /\ age' \in [Asgns -> 0..MaxWait]
         /\ waited' \in [Asgns -> 0..MaxWait]
         /\ batches' \subseteq BatchFact
         /\ timer' \in [Timers -> {"settled", "pending"}]
         /\ ttl' \in [Timers -> 0..MaxWait]
         /\ inbox' \subseteq Asgns \cup Timers \cup OpsTokens
         /\ tx' \in [Procs -> TxRecord]
         /\ UNCHANGED <<pool, crashes>>
<1>1. /\ tx[p].claims \subseteq Asgns
      /\ tx[p].supersedes \subseteq Timers
      /\ tx[p].arms \subseteq Timers
      /\ tx[p].delay \in 0..MaxWait
      /\ tx[p].claims # {} => tx[p].reason \in Reasons
  BY DEF TypeOK, TxRecord, Locks
<1>2. entry' \in [Asgns -> PoolStatus] /\ age' \in [Asgns -> 0..MaxWait] /\ waited' \in [Asgns -> 0..MaxWait]
  BY DEF Apply, TypeOK, PoolStatus
<1>3. batches' \subseteq BatchFact
  <2>1. CASE tx[p].claims = {}
    BY <2>1 DEF Apply, TypeOK
  <2>2. CASE tx[p].claims # {}
    <3> DEFINE f == [reason |-> tx[p].reason, asgns |-> tx[p].claims]
    <3>1. f \in BatchFact
      BY <1>1, <2>2 DEF BatchFact
    <3>2. batches' = batches \cup {f}
      BY <2>2 DEF Apply
    <3>3. QED
      BY <3>1, <3>2 DEF TypeOK
  <2>3. QED
    BY <2>1, <2>2
<1>4. timer' \in [Timers -> {"settled", "pending"}] /\ ttl' \in [Timers -> 0..MaxWait]
  BY <1>1 DEF Apply, TypeOK
<1>5. inbox' \subseteq Asgns \cup Timers \cup OpsTokens
  BY <1>1 DEF Apply, TypeOK
<1>6. tx' \in [Procs -> TxRecord]
  BY RolledBackType DEF Apply
<1>7. UNCHANGED <<pool, crashes>>
  BY DEF Apply
<1>8. QED
  BY <1>2, <1>3, <1>4, <1>5, <1>6, <1>7

LEMMA ConsumerType ==
  ASSUME Inv, NEW c \in Consumers, ConsumerStep(c)
  PROVE  TypeOK'
<1> USE DEF Inv, vars, poolVars, timerVars, consumerVars, schedulerVars
<1>0. c \in Procs
  BY DEF Procs
<1>1. ASSUME NEW a \in Asgns, ProjectDemandFact(c, a) PROVE TypeOK'
  BY <1>1 DEF ProjectDemandFact, TypeOK, PoolStatus
<1>2. CASE EnsurePool(c)
  BY <1>2 DEF EnsurePool, TypeOK
<1>3. CASE CreatePool(c)
  <2>1. FreshTimers # {} => NewTimer \in Timers
    BY NewTimerIsFresh DEF FreshTimers
  <2>2. timer' \in [Timers -> {"settled", "pending"}] /\ ttl' \in [Timers -> 0..MaxWait]
    BY <1>3, <2>1 DEF CreatePool, TypeOK
  <2>3. QED
    BY <1>3, <2>2 DEF CreatePool, TypeOK
<1>4. CASE CountPooled(c)
  BY <1>4 DEF CountPooled, Return, TypeOK
<1>5. CASE TriggerLotSize(c)
  <2>1. CASE fact[c] \in inbox
    BY <1>5, <2>1 DEF TriggerLotSize, Return, TypeOK
  <2>2. CASE fact[c] \notin inbox
    <3>1. TriggerBatch(c, "LOT_SIZE", Scope(fact[c]), {}) /\ UNCHANGED consumerVars
      BY <1>5, <2>2 DEF TriggerLotSize
    <3>2. Opened(c)
      BY <1>0, <3>1, ScopeIsPooled, OpenedByTrigger DEF Reasons
    <3>3. tx' \in [Procs -> TxRecord]
      BY <1>0, <3>2, OpenedType
    <3>4. QED
      BY <1>5, <3>1, <3>3 DEF TriggerLotSize, TypeOK
  <2>3. QED
    BY <2>1, <2>2
<1>6. CASE CommitLotSize(c)
  <2>1. cpc[c] = "trigger" /\ fact[c] \in Asgns
    BY <1>6 DEF CommitLotSize, Positions, TypeOK
  <2>2. Apply(c, fact[c]) /\ Return(c) /\ UNCHANGED schedulerVars
    BY <1>6 DEF CommitLotSize
  <2>3. QED
    BY <1>0, <2>1, <2>2, ApplyType DEF Return, TypeOK
<1>7. QED
  BY <1>1, <1>2, <1>3, <1>4, <1>5, <1>6 DEF ConsumerStep

LEMMA SchedulerType ==
  ASSUME Inv, NEW s \in Schedulers, SchedulerStep(s)
  PROVE  TypeOK'
<1> USE DEF Inv, vars, poolVars, timerVars, consumerVars, schedulerVars
<1>0. s \in Procs
  BY DEF Procs
<1>a. spc[s] \in {"read", "rearm", "trigger"} => firing[s] \in Timers
  BY DEF TypeOK
<1>1. CASE ClaimDueTimers(s)
  <2>1. {t \in Unlocked : ttl[t] = 0} \subseteq Timers
    BY DEF Unlocked, Pending
  <2>2. QED
    BY <1>1, <2>1 DEF ClaimDueTimers, TypeOK
<1>2. CASE FireNext(s)
  BY <1>2 DEF FireNext, TypeOK
<1>3. CASE ReadOldest(s)
  <2>1. rest' \in [Schedulers -> 0..MaxWait]
    BY <1>3 DEF ReadOldest, TypeOK, Pooled
  <2>2. QED
    BY <1>3, <2>1 DEF ReadOldest, TypeOK
<1>4. CASE RearmRemainder(s)
  <2>1. SupersedeAndRearm(s, "REARM", {}, {firing[s]}, rest[s]) /\ rest[s] \in 0..MaxWait
    BY <1>4 DEF RearmRemainder, TypeOK
  <2>2. Opened(s)
    BY <1>0, <2>1, OpenedBySupersede
  <2>3. tx' \in [Procs -> TxRecord]
    BY <1>0, <2>2, OpenedType
  <2>4. QED
    BY <1>4, <2>3 DEF RearmRemainder, TypeOK
<1>5. CASE TriggerMaxWait(s)
  <2>1. CASE firing[s] \in inbox
    BY <1>5, <1>a, <2>1 DEF TriggerMaxWait, EffectDone, TypeOK
  <2>2. CASE firing[s] \notin inbox
    <3>1. TriggerBatch(s, "MAX_WAIT", Pooled, {firing[s]}) /\ UNCHANGED schedulerVars
      BY <1>5, <2>2 DEF TriggerMaxWait
    <3>2. Opened(s)
      BY <1>0, <3>1, ScopeIsPooled, OpenedByTrigger DEF Reasons
    <3>3. tx' \in [Procs -> TxRecord]
      BY <1>0, <3>2, OpenedType
    <3>4. QED
      BY <1>5, <3>1, <3>3 DEF TriggerMaxWait, TypeOK
  <2>3. QED
    BY <2>1, <2>2
<1>6. CASE CommitEffect(s)
  <2>1. firing[s] \in Timers
    BY <1>6, <1>a DEF CommitEffect, Positions
  <2>2. Apply(s, firing[s]) /\ EffectDone(s) /\ UNCHANGED consumerVars
    BY <1>6 DEF CommitEffect
  <2>3. QED
    BY <1>0, <2>1, <2>2, ApplyType DEF EffectDone, TypeOK
<1>7. CASE CommitClaim(s)
  BY <1>7 DEF CommitClaim, TypeOK
<1>8. QED
  BY <1>1, <1>2, <1>3, <1>4, <1>5, <1>6, <1>7 DEF SchedulerStep

LEMMA NextType ==
  ASSUME Inv, Next
  PROVE  TypeOK'
<1> USE DEF Inv, vars, poolVars, timerVars, consumerVars, schedulerVars
<1>0. Consumers \subseteq Procs /\ Schedulers \subseteq Procs /\ OpsTokens \subseteq Procs
  BY DEF Procs
<1>1. ASSUME NEW c \in Consumers, ConsumerFails(c) PROVE TypeOK'
  <2>1. tx' \in [Procs -> TxRecord]
    BY <1>0, <1>1, RolledBackType DEF ConsumerFails
  <2>2. QED
    BY <1>1, <2>1 DEF ConsumerFails, Return, Fail, TypeOK
<1>2. ASSUME NEW s \in Schedulers, SchedulerFails(s) PROVE TypeOK'
  <2>1. tx' \in [Procs -> TxRecord]
    BY <1>0, <1>2, RolledBackType DEF SchedulerFails
  <2>2. QED
    BY <1>2, <2>1 DEF SchedulerFails, Fail, TypeOK
<1>3. ASSUME NEW k \in OpsTokens, ManualBatch(k) PROVE TypeOK'
  <2>1. Opened(k)
    BY <1>0, <1>3, ScopeIsPooled, OpenedByTrigger DEF ManualBatch, Reasons
  <2>2. tx' \in [Procs -> TxRecord]
    BY <1>0, <2>1, OpenedType
  <2>3. QED
    BY <1>3, <2>2 DEF ManualBatch, TypeOK
<1>4. ASSUME NEW k \in OpsTokens, CommitManual(k) PROVE TypeOK'
  <2>1. Apply(k, k) /\ UNCHANGED <<consumerVars, schedulerVars>>
    BY <1>4 DEF CommitManual
  <2>2. QED
    BY <1>0, <2>1, ApplyType DEF TypeOK
<1>5. ASSUME NEW k \in OpsTokens, RequestFails(k) PROVE TypeOK'
  <2>1. tx' \in [Procs -> TxRecord]
    BY <1>0, <1>5, RolledBackType DEF RequestFails
  <2>2. QED
    BY <1>5, <2>1 DEF RequestFails, Fail, TypeOK
<1>6. ASSUME NEW a \in Asgns, HoldRecord(a) \/ ReleaseRecord(a) \/ WithdrawReplacement(a)
      PROVE TypeOK'
  <2>1. entry' \in [Asgns -> PoolStatus] /\ age' \in [Asgns -> 0..MaxWait] /\ waited' \in [Asgns -> 0..MaxWait]
    BY <1>6 DEF HoldRecord, ReleaseRecord, WithdrawReplacement, TypeOK, PoolStatus
  <2>2. QED
    BY <1>6, <2>1 DEF HoldRecord, ReleaseRecord, WithdrawReplacement, TypeOK
<1>7. CASE Tick
  <2>1. \A x \in 0..MaxWait : Older(x) \in 0..MaxWait
    BY DEF Older
  <2>2. age' \in [Asgns -> 0..MaxWait] /\ waited' \in [Asgns -> 0..MaxWait]
    BY <1>7, <2>1 DEF Tick, TypeOK
  <2>3. ttl' \in [Timers -> 0..MaxWait]
    BY <1>7 DEF Tick, TypeOK
  <2>4. QED
    BY <1>7, <2>2, <2>3 DEF Tick, TypeOK
<1>8. QED
  BY <1>1, <1>2, <1>3, <1>4, <1>5, <1>6, <1>7, ConsumerType, SchedulerType DEF Next

-----------------------------------------------------------------------------
(* Locks. *)

LEMMA OpenedKeepsLocks ==
  ASSUME Inv, NEW p, p \in Procs, Opened(p),
         tx'[p].claims \subseteq Pooled,
         tx'[p].claims # {} => tx'[p].reason \in Reasons,
         tx'[p].reason \in Reasons => ~PoolLocked,
         UNCHANGED <<entry, timer, inbox, claim, fired>>
  PROVE  Locks'
<1> USE DEF Inv
<1>1. Pooled' = Pooled /\ Pending' = Pending
  BY DEF Pooled, Pending
<1>2. \A q \in Procs \ {p} : tx'[q] = tx[q]
  BY DEF Opened, TypeOK
<1>3. /\ tx'[p].supersedes \subseteq Pending
      /\ \A q \in Procs : tx'[p].supersedes \cap tx[q].supersedes = {}
      /\ \A s \in Schedulers : tx'[p].supersedes \cap claim[s] = {}
  BY DEF Opened, Unlocked, TimerLocked
<1>4. /\ tx'[p].arms \cap Pending = {}
      /\ \A q \in Procs : tx'[p].arms \cap tx[q].arms = {}
      /\ tx'[p].supersedes # {} => tx'[p].arms # {}
  BY DEF Opened, FreshTimers, Pending
<1>5. tx'[p].reason \in Reasons => \A q \in Procs : tx[q].reason \notin Reasons
  BY DEF PoolLocked
<1>6. ASSUME NEW q \in Procs
      PROVE  (/\ tx[q].claims \subseteq Pooled
              /\ tx[q].claims # {} => tx[q].reason \in Reasons
              /\ tx[q].supersedes \subseteq Pending
              /\ tx[q].arms \cap Pending = {}
              /\ tx[q].supersedes # {} => tx[q].arms # {})'
  BY <1>1, <1>2, <1>3, <1>4 DEF Locks
<1>7. ASSUME NEW q \in Procs, NEW r \in Procs, q # r
      PROVE  (/\ tx[q].reason \in Reasons => tx[r].reason \notin Reasons
              /\ tx[q].supersedes \cap tx[r].supersedes = {}
              /\ tx[q].arms \cap tx[r].arms = {})'
  <2>1. CASE q # p /\ r # p
    BY <1>2, <1>7, <2>1 DEF Locks
  <2>2. CASE q = p
    BY <1>2, <1>3, <1>4, <1>5, <1>7, <2>2
  <2>3. CASE r = p
    BY <1>2, <1>3, <1>4, <1>5, <1>7, <2>3
  <2>4. QED
    BY <2>1, <2>2, <2>3
<1>8. ASSUME NEW s \in Schedulers
      PROVE  (/\ claim[s] \subseteq Pending
              /\ fired[s] \subseteq claim[s]
              /\ \A q \in Procs : claim[s] \cap tx[q].supersedes = {}
              /\ \A r \in Schedulers \ {s} : claim[r] \cap claim[s] = {})'
  BY <1>1, <1>2, <1>3 DEF Locks
<1>9. inbox' \cap Timers \subseteq Pending'
  BY <1>1 DEF Locks
<1>10. QED
  BY <1>6, <1>7, <1>8, <1>9 DEF Locks

LEMMA RolledBackKeepsLocks ==
  ASSUME Inv, NEW p, p \in Procs, tx' = [tx EXCEPT ![p] = NoTx],
         UNCHANGED <<entry, timer, inbox>>,
         \A s \in Schedulers : \/ claim'[s] = claim[s] /\ fired'[s] = fired[s]
                               \/ claim'[s] = {} /\ fired'[s] = {}
  PROVE  Locks'
<1> USE DEF Inv
<1>1. Pooled' = Pooled /\ Pending' = Pending
  BY DEF Pooled, Pending
<1>2. NoTx.reason \notin Reasons /\ NoTx.claims = {} /\ NoTx.supersedes = {} /\ NoTx.arms = {}
  BY DEF NoTx, EmptyTx, Reasons
<1>3. \A q \in Procs : tx'[q] = IF q = p THEN NoTx ELSE tx[q]
  BY DEF TypeOK
<1>4. ASSUME NEW q \in Procs
      PROVE  (/\ tx[q].claims \subseteq Pooled
              /\ tx[q].claims # {} => tx[q].reason \in Reasons
              /\ tx[q].supersedes \subseteq Pending
              /\ tx[q].arms \cap Pending = {}
              /\ tx[q].supersedes # {} => tx[q].arms # {})'
  BY <1>1, <1>2, <1>3 DEF Locks
<1>5. ASSUME NEW q \in Procs, NEW r \in Procs, q # r
      PROVE  (/\ tx[q].reason \in Reasons => tx[r].reason \notin Reasons
              /\ tx[q].supersedes \cap tx[r].supersedes = {}
              /\ tx[q].arms \cap tx[r].arms = {})'
  BY <1>2, <1>3, <1>5 DEF Locks
<1>6. ASSUME NEW s \in Schedulers
      PROVE  (/\ claim[s] \subseteq Pending
              /\ fired[s] \subseteq claim[s]
              /\ \A q \in Procs : claim[s] \cap tx[q].supersedes = {}
              /\ \A r \in Schedulers \ {s} : claim[r] \cap claim[s] = {})'
  BY <1>1, <1>2, <1>3 DEF Locks
<1>7. inbox' \cap Timers \subseteq Pending'
  BY <1>1 DEF Locks
<1>8. QED
  BY <1>4, <1>5, <1>6, <1>7 DEF Locks

LEMMA ApplyKeepsLocks ==
  ASSUME Inv, NEW p, NEW epoch, p \in Procs, Apply(p, epoch),
         epoch \in Timers => epoch \in Pending /\ epoch \notin tx[p].supersedes,
         UNCHANGED claim,
         \A s \in Schedulers : fired'[s] \subseteq claim[s]
  PROVE  Locks'
<1> USE DEF Inv
<1>1. tx[p].supersedes \subseteq Pending /\ tx[p].arms \subseteq Timers
  BY DEF Locks, TypeOK, TxRecord
<1>2. Pooled' = Pooled \ tx[p].claims
  BY DEF Apply, Pooled
<1>3. Pending' = (Pending \ tx[p].supersedes) \cup tx[p].arms
  BY <1>1 DEF Apply, Pending, Locks
<1>4. NoTx.reason \notin Reasons /\ NoTx.claims = {} /\ NoTx.supersedes = {} /\ NoTx.arms = {}
  BY DEF NoTx, EmptyTx, Reasons
<1>5. \A q \in Procs : tx'[q] = IF q = p THEN NoTx ELSE tx[q]
  BY DEF Apply, TypeOK
<1>6. \A q \in Procs \ {p} : tx[q].claims \cap tx[p].claims = {}
  BY DEF Locks
<1>7. ASSUME NEW q \in Procs
      PROVE  (/\ tx[q].claims \subseteq Pooled
              /\ tx[q].claims # {} => tx[q].reason \in Reasons
              /\ tx[q].supersedes \subseteq Pending
              /\ tx[q].arms \cap Pending = {}
              /\ tx[q].supersedes # {} => tx[q].arms # {})'
  <2>1. CASE q = p
    BY <1>4, <1>5, <2>1
  <2>2. CASE q # p
    BY <1>2, <1>3, <1>5, <1>6, <2>2 DEF Locks
  <2>3. QED
    BY <2>1, <2>2
<1>8. ASSUME NEW q \in Procs, NEW r \in Procs, q # r
      PROVE  (/\ tx[q].reason \in Reasons => tx[r].reason \notin Reasons
              /\ tx[q].supersedes \cap tx[r].supersedes = {}
              /\ tx[q].arms \cap tx[r].arms = {})'
  BY <1>4, <1>5, <1>8 DEF Locks
<1>9. ASSUME NEW s \in Schedulers
      PROVE  (/\ claim[s] \subseteq Pending
              /\ fired[s] \subseteq claim[s]
              /\ \A q \in Procs : claim[s] \cap tx[q].supersedes = {}
              /\ \A r \in Schedulers \ {s} : claim[r] \cap claim[s] = {})'
  BY <1>3, <1>4, <1>5 DEF Locks
<1>10. inbox' \cap Timers \subseteq Pending'
  BY <1>3 DEF Apply, Locks
<1>11. QED
  BY <1>7, <1>8, <1>9, <1>10 DEF Locks

(* The steps that leave the open transactions alone. *)
LEMMA SameTxKeepsLocks ==
  ASSUME Inv, UNCHANGED tx,
         \A a \in Pooled : (\E p \in Procs : a \in tx[p].claims) => a \in Pooled',
         \A t \in Pending : t \notin Pending' =>
            /\ \A p \in Procs : t \notin tx[p].supersedes
            /\ \A s \in Schedulers : t \notin claim'[s]
            /\ t \notin inbox',
         \A t \in Pending' \ Pending : \A p \in Procs : t \notin tx[p].arms,
         inbox' \cap Timers \subseteq inbox,
         \A s \in Schedulers :
            /\ claim'[s] \subseteq claim[s] \cup Unlocked
            /\ fired'[s] \subseteq claim'[s]
            /\ \A r \in Schedulers \ {s} : claim'[r] \cap claim'[s] = {}
  PROVE  Locks'
<1> USE DEF Inv
<1>1. \A p \in Procs : tx[p].claims \subseteq Pooled'
  BY DEF Locks
<1>2. \A p \in Procs : tx[p].supersedes \subseteq Pending'
  BY DEF Locks
<1>3. \A p \in Procs : tx[p].arms \cap Pending' = {}
  BY DEF Locks
<1>4. \A t \in Unlocked : t \in Pending /\ \A p \in Procs : t \notin tx[p].supersedes
  BY DEF Unlocked, TimerLocked
<1>5. \A s \in Schedulers : claim'[s] \subseteq Pending' /\ \A p \in Procs : claim'[s] \cap tx[p].supersedes = {}
  BY <1>4 DEF Locks
<1>6. inbox' \cap Timers \subseteq Pending'
  BY DEF Locks
<1>7. QED
  BY <1>1, <1>2, <1>3, <1>5, <1>6 DEF Locks

LEMMA ConsumerLocks ==
  ASSUME Inv, NEW c \in Consumers, ConsumerStep(c)
  PROVE  Locks'
<1> USE DEF Inv, vars, poolVars, timerVars, consumerVars, schedulerVars
<1>0. c \in Procs
  BY DEF Procs
<1>1. ASSUME NEW a \in Asgns, ProjectDemandFact(c, a) PROVE Locks'
  <2>1. Pooled \subseteq Pooled' /\ Pending' = Pending
    BY <1>1 DEF ProjectDemandFact, Pooled, Pending, TypeOK
  <2>2. QED
    BY <1>1, <2>1, SameTxKeepsLocks DEF ProjectDemandFact, Locks
<1>2. CASE EnsurePool(c) \/ CountPooled(c)
  <2>1. Pooled' = Pooled /\ Pending' = Pending
    BY <1>2 DEF EnsurePool, CountPooled, Pooled, Pending
  <2>2. QED
    BY <1>2, <2>1, SameTxKeepsLocks DEF EnsurePool, CountPooled, Locks
<1>3. CASE CreatePool(c)
  <2>1. Pooled' = Pooled
    BY <1>3 DEF CreatePool, Pooled
  <2>2. Pending' = Pending \/ (NewTimer \in FreshTimers /\ Pending' = Pending \cup {NewTimer})
    BY <1>3, NewTimerIsFresh DEF CreatePool, Pending, FreshTimers, TypeOK
  <2>3. \A t \in Pending' \ Pending : \A p \in Procs : t \notin tx[p].arms
    BY <2>2 DEF FreshTimers
  <2>4. QED
    BY <1>3, <2>1, <2>2, <2>3, SameTxKeepsLocks DEF CreatePool, Locks
<1>4. CASE TriggerLotSize(c)
  <2>1. CASE fact[c] \in inbox
    <3>1. Pooled' = Pooled /\ Pending' = Pending
      BY <1>4 DEF TriggerLotSize, Pooled, Pending
    <3>2. QED
      BY <1>4, <2>1, <3>1, SameTxKeepsLocks DEF TriggerLotSize, Locks
  <2>2. CASE fact[c] \notin inbox
    <3>1. TriggerBatch(c, "LOT_SIZE", Scope(fact[c]), {})
      BY <1>4, <2>2 DEF TriggerLotSize
    <3>2. ~PoolLocked /\ Opened(c) /\ tx'[c].reason = "LOT_SIZE" /\ tx'[c].claims = Scope(fact[c])
      BY <1>0, <3>1, ScopeIsPooled, OpenedByTrigger DEF Reasons
    <3>3. QED
      BY <1>0, <1>4, <3>2, ScopeIsPooled, OpenedKeepsLocks DEF TriggerLotSize, Reasons
  <2>3. QED
    BY <2>1, <2>2
<1>5. CASE CommitLotSize(c)
  <2>1. fact[c] \in Asgns
    BY <1>5 DEF CommitLotSize, Positions, TypeOK
  <2>2. Apply(c, fact[c]) /\ UNCHANGED schedulerVars
    BY <1>5 DEF CommitLotSize
  <2>3. QED
    BY <1>0, <2>1, <2>2, ApplyKeepsLocks DEF Locks
<1>6. QED
  BY <1>1, <1>2, <1>3, <1>4, <1>5 DEF ConsumerStep

LEMMA SchedulerLocks ==
  ASSUME Inv, NEW s \in Schedulers, SchedulerStep(s)
  PROVE  Locks'
<1> USE DEF Inv, vars, poolVars, timerVars, consumerVars, schedulerVars
<1>0. s \in Procs
  BY DEF Procs
<1>1. CASE ClaimDueTimers(s)
  <2> DEFINE due == {t \in Unlocked : ttl[t] = 0}
  <2>1. Pooled' = Pooled /\ Pending' = Pending /\ claim' = [claim EXCEPT ![s] = due] /\ due \subseteq Unlocked
    BY <1>1 DEF ClaimDueTimers, Pooled, Pending
  <2>2. claim[s] = {} /\ fired[s] = {}
    BY <1>1 DEF ClaimDueTimers, Positions, Locks
  <2>3. \A r \in Schedulers : due \cap claim[r] = {}
    BY DEF Unlocked, TimerLocked
  <2> HIDE DEF due
  <2>4. claim'[s] = due /\ \A r \in Schedulers \ {s} : claim'[r] = claim[r]
    BY <2>1 DEF TypeOK
  <2>5. \A r \in Schedulers :
            /\ claim'[r] \subseteq claim[r] \cup Unlocked
            /\ fired'[r] \subseteq claim'[r]
            /\ \A q \in Schedulers \ {r} : claim'[q] \cap claim'[r] = {}
    BY <1>1, <2>1, <2>2, <2>3, <2>4 DEF ClaimDueTimers, Locks
  <2>6. QED
    BY <1>1, <2>1, <2>5, SameTxKeepsLocks DEF ClaimDueTimers
<1>2. CASE FireNext(s) \/ ReadOldest(s)
  <2>1. Pooled' = Pooled /\ Pending' = Pending
    BY <1>2 DEF FireNext, ReadOldest, Pooled, Pending
  <2>2. QED
    BY <1>2, <2>1, SameTxKeepsLocks DEF FireNext, ReadOldest, Locks
<1>3. CASE RearmRemainder(s)
  <2>1. SupersedeAndRearm(s, "REARM", {}, {firing[s]}, rest[s]) /\ rest[s] \in 0..MaxWait
    BY <1>3 DEF RearmRemainder, TypeOK
  <2>2. Opened(s) /\ tx'[s].reason = "REARM" /\ tx'[s].claims = {}
    BY <1>0, <2>1, OpenedBySupersede
  <2>3. QED
    BY <1>0, <1>3, <2>2, OpenedKeepsLocks DEF RearmRemainder, Reasons
<1>4. CASE TriggerMaxWait(s)
  <2>1. CASE firing[s] \in inbox
    <3>1. Pooled' = Pooled /\ Pending' = Pending
      BY <1>4 DEF TriggerMaxWait, Pooled, Pending
    <3>2. firing[s] \in claim[s]
      BY <1>4 DEF TriggerMaxWait, TypeOK
    <3>3. claim' = claim /\ \A r \in Schedulers : fired'[r] \subseteq claim[r]
      BY <1>4, <2>1, <3>2 DEF TriggerMaxWait, EffectDone, Locks, TypeOK
    <3>4. QED
      BY <1>4, <2>1, <3>1, <3>3, SameTxKeepsLocks DEF TriggerMaxWait, Locks
  <2>2. CASE firing[s] \notin inbox
    <3>1. TriggerBatch(s, "MAX_WAIT", Pooled, {firing[s]}) /\ UNCHANGED schedulerVars
      BY <1>4, <2>2 DEF TriggerMaxWait
    <3>2. ~PoolLocked /\ Opened(s) /\ tx'[s].reason = "MAX_WAIT" /\ tx'[s].claims = Pooled
      BY <1>0, <3>1, ScopeIsPooled, OpenedByTrigger DEF Reasons
    <3>3. QED
      BY <1>0, <1>4, <3>1, <3>2, OpenedKeepsLocks DEF TriggerMaxWait, Reasons
  <2>3. QED
    BY <2>1, <2>2
<1>5. CASE CommitEffect(s)
  <2>1. firing[s] \in claim[s]
    BY <1>5 DEF CommitEffect, Positions, TypeOK
  <2>2. firing[s] \in Pending /\ firing[s] \notin tx[s].supersedes
    BY <1>0, <2>1 DEF Locks
  <2>3. claim' = claim /\ \A r \in Schedulers : fired'[r] \subseteq claim[r]
    BY <1>5, <2>1 DEF CommitEffect, EffectDone, Locks, TypeOK
  <2>4. Apply(s, firing[s])
    BY <1>5 DEF CommitEffect
  <2>5. QED
    BY <1>0, <2>2, <2>3, <2>4, ApplyKeepsLocks
<1>6. CASE CommitClaim(s)
  <2>1. Pooled' = Pooled /\ Pending' = Pending \ claim[s] /\ inbox' = inbox \ claim[s]
    BY <1>6 DEF CommitClaim, Pooled, Pending
  <2>2. \A r \in Schedulers : claim'[r] = (IF r = s THEN {} ELSE claim[r]) /\ fired'[r] = (IF r = s THEN {} ELSE fired[r])
    BY <1>6 DEF CommitClaim, TypeOK
  <2>3. \A t \in Pending : t \notin Pending' =>
            /\ \A p \in Procs : t \notin tx[p].supersedes
            /\ \A r \in Schedulers : t \notin claim'[r]
            /\ t \notin inbox'
    BY <2>1, <2>2 DEF Locks
  <2>4. \A r \in Schedulers :
            /\ claim'[r] \subseteq claim[r] \cup Unlocked
            /\ fired'[r] \subseteq claim'[r]
            /\ \A q \in Schedulers \ {r} : claim'[q] \cap claim'[r] = {}
    BY <2>2 DEF Locks
  <2>5. QED
    BY <1>6, <2>1, <2>3, <2>4, SameTxKeepsLocks DEF CommitClaim
<1>7. QED
  BY <1>1, <1>2, <1>3, <1>4, <1>5, <1>6 DEF SchedulerStep

LEMMA NextLocks ==
  ASSUME Inv, Next
  PROVE  Locks'
<1> USE DEF Inv, vars, poolVars, timerVars, consumerVars, schedulerVars
<1>0. Consumers \subseteq Procs /\ Schedulers \subseteq Procs /\ OpsTokens \subseteq Procs
  BY DEF Procs
<1>1. ASSUME NEW c \in Consumers, ConsumerFails(c) PROVE Locks'
  BY <1>0, <1>1, RolledBackKeepsLocks DEF ConsumerFails
<1>2. ASSUME NEW s \in Schedulers, SchedulerFails(s) PROVE Locks'
  <2>1. \A r \in Schedulers : \/ claim'[r] = claim[r] /\ fired'[r] = fired[r]
                              \/ claim'[r] = {} /\ fired'[r] = {}
    BY <1>2 DEF SchedulerFails, TypeOK
  <2>2. QED
    BY <1>0, <1>2, <2>1, RolledBackKeepsLocks DEF SchedulerFails
<1>3. ASSUME NEW k \in OpsTokens, ManualBatch(k) PROVE Locks'
  <2>1. ~PoolLocked /\ Opened(k) /\ tx'[k].reason = "MANUAL" /\ tx'[k].claims = Pooled
    BY <1>0, <1>3, ScopeIsPooled, OpenedByTrigger DEF ManualBatch, Reasons
  <2>2. QED
    BY <1>0, <1>3, <2>1, OpenedKeepsLocks DEF ManualBatch, Reasons
<1>4. ASSUME NEW k \in OpsTokens, CommitManual(k) PROVE Locks'
  <2>1. Apply(k, k) /\ k \notin Timers /\ UNCHANGED schedulerVars
    BY <1>4 DEF CommitManual
  <2>2. QED
    BY <1>0, <2>1, ApplyKeepsLocks DEF Locks
<1>5. ASSUME NEW k \in OpsTokens, RequestFails(k) PROVE Locks'
  BY <1>0, <1>5, RolledBackKeepsLocks DEF RequestFails
<1>6. ASSUME NEW a \in Asgns, HoldRecord(a) \/ ReleaseRecord(a) \/ WithdrawReplacement(a)
      PROVE Locks'
  <2>1. \A b \in Pooled : (\E p \in Procs : b \in tx[p].claims) => b \in Pooled'
    BY <1>6 DEF HoldRecord, ReleaseRecord, WithdrawReplacement, EntryLocked, Pooled, TypeOK
  <2>2. Pending' = Pending
    BY <1>6 DEF HoldRecord, ReleaseRecord, WithdrawReplacement, Pending
  <2>3. UNCHANGED <<timerVars, tx, schedulerVars>>
    BY <1>6 DEF HoldRecord, ReleaseRecord, WithdrawReplacement
  <2>4. QED
    BY <2>1, <2>2, <2>3, SameTxKeepsLocks DEF Locks
<1>7. CASE Tick
  <2>1. Pooled' = Pooled /\ Pending' = Pending
    BY <1>7 DEF Tick, Pooled, Pending
  <2>2. QED
    BY <1>7, <2>1, SameTxKeepsLocks DEF Tick, Locks
<1>8. QED
  BY <1>1, <1>2, <1>3, <1>4, <1>5, <1>6, <1>7, ConsumerLocks, SchedulerLocks DEF Next

-----------------------------------------------------------------------------
(* Positions. *)

LEMMA NextPositions ==
  ASSUME Inv, Next
  PROVE  Positions'
<1> USE DEF Inv, vars, poolVars, timerVars, consumerVars, schedulerVars
<1>0. Consumers \subseteq Procs /\ Schedulers \subseteq Procs /\ OpsTokens \subseteq Procs
  BY DEF Procs
<1>a. NoTx.reason = "none"
  BY DEF NoTx, EmptyTx
<1>1. ASSUME NEW c \in Consumers, ConsumerStep(c) PROVE Positions'
  <2>1. ASSUME NEW a \in Asgns, ProjectDemandFact(c, a) PROVE Positions'
    BY <2>1 DEF ProjectDemandFact, Positions, InTx, TypeOK
  <2>2. CASE EnsurePool(c) \/ CreatePool(c) \/ CountPooled(c)
    BY <2>2 DEF EnsurePool, CreatePool, CountPooled, Return, Positions, InTx, TypeOK
  <2>3. CASE TriggerLotSize(c)
    <3>1. CASE fact[c] \in inbox
      BY <2>3, <3>1 DEF TriggerLotSize, Return, Positions, InTx, TypeOK
    <3>2. CASE fact[c] \notin inbox
      <4>1. TriggerBatch(c, "LOT_SIZE", Scope(fact[c]), {})
        BY <2>3, <3>2 DEF TriggerLotSize
      <4>2. Opened(c) /\ tx'[c].reason = "LOT_SIZE"
        BY <1>0, <4>1, ScopeIsPooled, OpenedByTrigger DEF Reasons
      <4>3. \A q \in Procs \ {c} : tx'[q] = tx[q]
        BY <4>2 DEF Opened, TypeOK
      <4>4. UNCHANGED <<consumerVars, schedulerVars>> /\ cpc[c] = "trigger"
        BY <2>3, <3>2 DEF TriggerLotSize
      <4>5. QED
        BY <1>0, <4>2, <4>3, <4>4 DEF Positions, InTx
    <3>3. QED
      BY <3>1, <3>2
  <2>4. CASE CommitLotSize(c)
    <3>1. \A q \in Procs : tx'[q] = IF q = c THEN NoTx ELSE tx[q]
      BY <1>0, <2>4 DEF CommitLotSize, Apply, TypeOK
    <3>2. /\ \A d \in Consumers \ {c} : cpc'[d] = cpc[d]
          /\ UNCHANGED schedulerVars
      BY <2>4 DEF CommitLotSize, Return, TypeOK
    <3>3. QED
      BY <1>0, <1>a, <3>1, <3>2 DEF Positions, InTx
  <2>5. QED
    BY <1>1, <2>1, <2>2, <2>3, <2>4 DEF ConsumerStep
<1>2. ASSUME NEW s \in Schedulers, SchedulerStep(s) PROVE Positions'
  <2>1. CASE ClaimDueTimers(s) \/ FireNext(s) \/ ReadOldest(s) \/ CommitClaim(s)
    <3>1. UNCHANGED <<tx, consumerVars>> /\ ~InTx(s)
      BY <2>1 DEF ClaimDueTimers, FireNext, ReadOldest, CommitClaim, Positions
    <3>2. \A r \in Schedulers \ {s} : spc'[r] = spc[r] /\ claim'[r] = claim[r]
      BY <2>1 DEF ClaimDueTimers, FireNext, ReadOldest, CommitClaim, TypeOK
    <3>3. spc'[s] = "idle" => claim'[s] = {}
      BY <2>1 DEF ClaimDueTimers, FireNext, ReadOldest, CommitClaim, TypeOK
    <3>4. QED
      BY <3>1, <3>2, <3>3 DEF Positions, InTx
  <2>2. CASE RearmRemainder(s)
    <3>1. SupersedeAndRearm(s, "REARM", {}, {firing[s]}, rest[s]) /\ rest[s] \in 0..MaxWait
      BY <2>2 DEF RearmRemainder, TypeOK
    <3>2. Opened(s) /\ tx'[s].reason = "REARM" /\ tx'[s].arms # {}
      BY <1>0, <3>1, OpenedBySupersede
    <3>3. \A q \in Procs \ {s} : tx'[q] = tx[q]
      BY <3>2 DEF Opened, TypeOK
    <3>4. UNCHANGED <<consumerVars, schedulerVars>> /\ spc[s] = "rearm"
      BY <2>2 DEF RearmRemainder
    <3>5. QED
      BY <1>0, <3>2, <3>3, <3>4 DEF Positions, InTx
  <2>3. CASE TriggerMaxWait(s)
    <3>1. CASE firing[s] \in inbox
      <4>1. UNCHANGED <<tx, consumerVars, claim>> /\ ~InTx(s)
        BY <2>3, <3>1 DEF TriggerMaxWait, EffectDone
      <4>2. spc' = [spc EXCEPT ![s] = "pick"]
        BY <2>3, <3>1 DEF TriggerMaxWait, EffectDone
      <4>3. QED
        BY <4>1, <4>2 DEF Positions, InTx, TypeOK
    <3>2. CASE firing[s] \notin inbox
      <4>1. TriggerBatch(s, "MAX_WAIT", Pooled, {firing[s]}) /\ UNCHANGED schedulerVars
        BY <2>3, <3>2 DEF TriggerMaxWait
      <4>2. Opened(s) /\ tx'[s].reason = "MAX_WAIT" /\ tx'[s].arms # {}
        BY <1>0, <4>1, ScopeIsPooled, OpenedByTrigger DEF Reasons
      <4>3. \A q \in Procs \ {s} : tx'[q] = tx[q]
        BY <4>2 DEF Opened, TypeOK
      <4>4. UNCHANGED consumerVars /\ spc[s] = "trigger"
        BY <2>3 DEF TriggerMaxWait
      <4>5. QED
        BY <1>0, <4>1, <4>2, <4>3, <4>4 DEF Positions, InTx
    <3>3. QED
      BY <3>1, <3>2
  <2>4. CASE CommitEffect(s)
    <3>1. \A q \in Procs : tx'[q] = IF q = s THEN NoTx ELSE tx[q]
      BY <1>0, <2>4 DEF CommitEffect, Apply, TypeOK
    <3>2. /\ \A r \in Schedulers \ {s} : spc'[r] = spc[r]
          /\ spc'[s] = "pick"
          /\ UNCHANGED <<consumerVars, claim>>
      BY <2>4 DEF CommitEffect, EffectDone, TypeOK
    <3>3. QED
      BY <1>0, <1>a, <3>1, <3>2 DEF Positions, InTx
  <2>5. QED
    BY <1>2, <2>1, <2>2, <2>3, <2>4 DEF SchedulerStep
<1>3. ASSUME NEW c \in Consumers, ConsumerFails(c) PROVE Positions'
  <2>1. \A q \in Procs : tx'[q] = IF q = c THEN NoTx ELSE tx[q]
    BY <1>0, <1>3 DEF ConsumerFails, TypeOK
  <2>2. (\A d \in Consumers \ {c} : cpc'[d] = cpc[d]) /\ UNCHANGED schedulerVars
    BY <1>3 DEF ConsumerFails, Return, TypeOK
  <2>3. QED
    BY <1>0, <1>a, <2>1, <2>2 DEF Positions, InTx
<1>4. ASSUME NEW s \in Schedulers, SchedulerFails(s) PROVE Positions'
  <2>1. \A q \in Procs : tx'[q] = IF q = s THEN NoTx ELSE tx[q]
    BY <1>0, <1>4 DEF SchedulerFails, TypeOK
  <2>2. /\ \A r \in Schedulers \ {s} : spc'[r] = spc[r] /\ claim'[r] = claim[r]
        /\ claim'[s] = {}
        /\ UNCHANGED consumerVars
    BY <1>4 DEF SchedulerFails, TypeOK
  <2>3. QED
    BY <1>0, <1>a, <2>1, <2>2 DEF Positions, InTx
<1>5. ASSUME NEW k \in OpsTokens, ManualBatch(k) PROVE Positions'
  <2>1. Opened(k) /\ tx'[k].reason = "MANUAL"
    BY <1>0, <1>5, ScopeIsPooled, OpenedByTrigger DEF ManualBatch, Reasons
  <2>2. \A q \in Procs \ {k} : tx'[q] = tx[q]
    BY <2>1 DEF Opened, TypeOK
  <2>3. UNCHANGED <<consumerVars, schedulerVars>>
    BY <1>5 DEF ManualBatch
  <2>4. QED
    BY <1>0, <2>1, <2>2, <2>3 DEF Positions, InTx
<1>6. ASSUME NEW k \in OpsTokens, CommitManual(k) \/ RequestFails(k) PROVE Positions'
  <2>1. \A q \in Procs : tx'[q] = IF q = k THEN NoTx ELSE tx[q]
    BY <1>0, <1>6 DEF CommitManual, RequestFails, Apply, TypeOK
  <2>2. UNCHANGED <<consumerVars, schedulerVars>>
    BY <1>6 DEF CommitManual, RequestFails
  <2>3. QED
    BY <1>0, <1>a, <2>1, <2>2 DEF Positions, InTx
<1>7. CASE Tick \/ \E a \in Asgns : HoldRecord(a) \/ ReleaseRecord(a) \/ WithdrawReplacement(a)
  <2>1. UNCHANGED <<tx, consumerVars, schedulerVars>>
    BY <1>7 DEF Tick, HoldRecord, ReleaseRecord, WithdrawReplacement
  <2>2. QED
    BY <2>1 DEF Positions, InTx
<1>8. QED
  BY <1>1, <1>2, <1>3, <1>4, <1>5, <1>6, <1>7 DEF Next

-----------------------------------------------------------------------------
(* Dispatches and their batches. *)

LEMMA ApplyKeepsOneBatch ==
  ASSUME Inv, NEW p, NEW epoch, p \in Procs, Apply(p, epoch)
  PROVE  DispatchInOneBatch'
<1> USE DEF Inv
<1>1. tx[p].claims \subseteq Asgns /\ \A a \in tx[p].claims : entry[a] = "POOLED"
  BY DEF Locks, Pooled
<1>2. CASE tx[p].claims = {}
  <2>1. batches' = batches /\ \A a \in Asgns : entry'[a] = entry[a]
    BY <1>2 DEF Apply
  <2>2. QED
    BY <2>1 DEF DispatchInOneBatch
<1>3. CASE tx[p].claims # {}
  <2> DEFINE f == [reason |-> tx[p].reason, asgns |-> tx[p].claims]
  <2>1. batches' = batches \cup {f}
    BY <1>3 DEF Apply
  <2>2. f.asgns = tx[p].claims
    OBVIOUS
  <2> HIDE DEF f
  <2>3. \A a \in Asgns : entry'[a] = IF a \in tx[p].claims THEN "BATCHED" ELSE entry[a]
    BY DEF Apply
  <2>4. \A b \in batches : b.asgns \cap tx[p].claims = {}
    BY <1>1 DEF DispatchInOneBatch, TypeOK, BatchFact
  <2>5. \A a \in Asgns : entry'[a] = "BATCHED" <=> \E b \in batches' : a \in b.asgns
    BY <2>1, <2>2, <2>3 DEF DispatchInOneBatch
  <2>6. \A b, d \in batches' : b # d => b.asgns \cap d.asgns = {}
    BY <2>1, <2>2, <2>4 DEF DispatchInOneBatch
  <2>7. QED
    BY <2>5, <2>6 DEF DispatchInOneBatch
<1>4. QED
  BY <1>2, <1>3

LEMMA NextOneBatch ==
  ASSUME Inv, Next
  PROVE  DispatchInOneBatch'
<1> USE DEF Inv, vars, poolVars, timerVars, consumerVars, schedulerVars
<1>0. Consumers \subseteq Procs /\ Schedulers \subseteq Procs /\ OpsTokens \subseteq Procs
  BY DEF Procs
<1>1. ASSUME NEW p \in Procs, NEW e, Apply(p, e) PROVE DispatchInOneBatch'
  BY <1>1, ApplyKeepsOneBatch
<1>2. ASSUME UNCHANGED batches,
             \A a \in Asgns : entry'[a] = "BATCHED" <=> entry[a] = "BATCHED"
      PROVE  DispatchInOneBatch'
  BY <1>2 DEF DispatchInOneBatch
<1>3. ASSUME NEW c \in Consumers, ConsumerStep(c) \/ ConsumerFails(c) PROVE DispatchInOneBatch'
  <2>1. CASE CommitLotSize(c)
    BY <1>0, <1>1, <2>1 DEF CommitLotSize
  <2>2. ASSUME NEW a \in Asgns, ProjectDemandFact(c, a) PROVE DispatchInOneBatch'
    BY <1>2, <2>2 DEF ProjectDemandFact, TypeOK
  <2>3. CASE EnsurePool(c) \/ CreatePool(c) \/ CountPooled(c) \/ TriggerLotSize(c) \/ ConsumerFails(c)
    BY <1>2, <2>3 DEF EnsurePool, CreatePool, CountPooled, TriggerLotSize, ConsumerFails
  <2>4. QED
    BY <1>3, <2>1, <2>2, <2>3 DEF ConsumerStep
<1>4. ASSUME NEW s \in Schedulers, SchedulerStep(s) \/ SchedulerFails(s) PROVE DispatchInOneBatch'
  <2>1. CASE CommitEffect(s)
    BY <1>0, <1>1, <2>1 DEF CommitEffect
  <2>2. CASE \/ ClaimDueTimers(s) \/ FireNext(s) \/ ReadOldest(s) \/ RearmRemainder(s)
             \/ TriggerMaxWait(s) \/ CommitClaim(s) \/ SchedulerFails(s)
    BY <1>2, <2>2 DEF ClaimDueTimers, FireNext, ReadOldest, RearmRemainder, TriggerMaxWait,
                      CommitClaim, SchedulerFails
  <2>3. QED
    BY <1>4, <2>1, <2>2 DEF SchedulerStep
<1>5. ASSUME NEW k \in OpsTokens, ManualBatch(k) \/ CommitManual(k) \/ RequestFails(k)
      PROVE DispatchInOneBatch'
  <2>1. CASE CommitManual(k)
    BY <1>0, <1>1, <2>1 DEF CommitManual
  <2>2. CASE ManualBatch(k) \/ RequestFails(k)
    BY <1>2, <2>2 DEF ManualBatch, RequestFails
  <2>3. QED
    BY <1>5, <2>1, <2>2
<1>6. ASSUME NEW a \in Asgns, HoldRecord(a) \/ ReleaseRecord(a) \/ WithdrawReplacement(a)
      PROVE DispatchInOneBatch'
  BY <1>2, <1>6 DEF HoldRecord, ReleaseRecord, WithdrawReplacement, TypeOK
<1>7. CASE Tick
  BY <1>2, <1>7 DEF Tick
<1>8. QED
  BY <1>3, <1>4, <1>5, <1>6, <1>7 DEF Next

-----------------------------------------------------------------------------
(* The max wait stays armed. *)

LEMMA ApplyKeepsArmed ==
  ASSUME Inv, NEW p, NEW epoch, p \in Procs, Apply(p, epoch),
         epoch \in Timers => epoch \in Pending /\ tx[p].arms # {},
         \A s \in Schedulers : fired'[s] \subseteq claim[s],
         tx[p].arms = {} => UNCHANGED fired
  PROVE  MaxWaitArmed'
<1> USE DEF Inv
<1>1. CASE tx[p].arms = {}
  <2>1. tx[p].supersedes = {} /\ epoch \notin Timers
    BY <1>1 DEF Locks
  <2>2. Pending' = Pending /\ inbox' \cap Timers = inbox \cap Timers /\ fired' = fired /\ pool' = pool
    BY <1>1, <2>1 DEF Apply, Pending
  <2>3. QED
    BY <2>2 DEF MaxWaitArmed, Pending
<1>2. CASE tx[p].arms # {}
  <2>1. PICK u \in tx[p].arms : TRUE
    BY <1>2
  <2>2. u \in Timers /\ u \notin Pending
    BY <2>1 DEF Locks, TypeOK, TxRecord
  <2>3. u \in Pending'
    BY <2>1, <2>2 DEF Apply, Pending
  <2>4. u \notin inbox'
    BY <2>2 DEF Apply, Locks
  <2>5. \A s \in Schedulers : u \notin fired'[s]
    BY <2>2 DEF Locks
  <2>6. QED
    BY <2>3, <2>4, <2>5 DEF MaxWaitArmed
<1>3. QED
  BY <1>1, <1>2

LEMMA NextArmed ==
  ASSUME Inv, Next
  PROVE  MaxWaitArmed'
<1> USE DEF Inv, vars, poolVars, timerVars, consumerVars, schedulerVars
<1>0. Consumers \subseteq Procs /\ Schedulers \subseteq Procs /\ OpsTokens \subseteq Procs
  BY DEF Procs
<1>1. ASSUME UNCHANGED <<pool, timer, inbox, fired>>
      PROVE  MaxWaitArmed'
  BY <1>1 DEF MaxWaitArmed, Pending
<1>2. ASSUME NEW c \in Consumers, ConsumerStep(c) \/ ConsumerFails(c) PROVE MaxWaitArmed'
  <2>1. CASE CommitLotSize(c)
    <3>1. fact[c] \in Asgns /\ Apply(c, fact[c]) /\ UNCHANGED schedulerVars
      BY <2>1 DEF CommitLotSize, Positions, TypeOK
    <3>2. QED
      BY <1>0, <3>1, ApplyKeepsArmed DEF Locks
  <2>2. CASE CreatePool(c)
    <3>1. CASE pool
      BY <1>1, <2>2, <3>1 DEF CreatePool
    <3>2. CASE ~pool
      <4>1. NewTimer \in FreshTimers /\ timer' = [timer EXCEPT ![NewTimer] = "pending"]
        BY <2>2, <3>2, NewTimerIsFresh DEF CreatePool
      <4>2. NewTimer \in Timers /\ NewTimer \notin Pending /\ NewTimer \in Pending'
        BY <4>1 DEF FreshTimers, Pending, TypeOK
      <4>3. NewTimer \notin inbox' /\ \A s \in Schedulers : NewTimer \notin fired'[s]
        BY <2>2, <4>2 DEF CreatePool, Locks
      <4>4. QED
        BY <4>2, <4>3 DEF MaxWaitArmed
    <3>3. QED
      BY <3>1, <3>2
  <2>3. CASE \/ \E a \in Asgns : ProjectDemandFact(c, a)
             \/ EnsurePool(c) \/ CountPooled(c) \/ TriggerLotSize(c) \/ ConsumerFails(c)
    BY <1>1, <2>3 DEF ProjectDemandFact, EnsurePool, CountPooled, TriggerLotSize, ConsumerFails
  <2>4. QED
    BY <1>2, <2>1, <2>2, <2>3 DEF ConsumerStep
<1>3. ASSUME NEW s \in Schedulers, SchedulerStep(s) \/ SchedulerFails(s) PROVE MaxWaitArmed'
  <2>1. CASE CommitEffect(s)
    <3>1. firing[s] \in claim[s] /\ tx[s].arms # {}
      BY <2>1 DEF CommitEffect, Positions, TypeOK
    <3>2. \A r \in Schedulers : fired'[r] \subseteq claim[r]
      BY <2>1, <3>1 DEF CommitEffect, EffectDone, Locks, TypeOK
    <3>3. Apply(s, firing[s]) /\ firing[s] \in Pending
      BY <2>1, <3>1 DEF CommitEffect, Locks
    <3>4. QED
      BY <1>0, <3>1, <3>2, <3>3, ApplyKeepsArmed
  <2>2. CASE TriggerMaxWait(s)
    <3>1. CASE firing[s] \in inbox
      <4>1. \A r \in Schedulers : fired'[r] \subseteq fired[r] \cup {firing[s]}
        BY <2>2, <3>1 DEF TriggerMaxWait, EffectDone, TypeOK
      <4>2. UNCHANGED timerVars /\ Pending' = Pending
        BY <2>2 DEF TriggerMaxWait, Pending
      <4>3. QED
        BY <3>1, <4>1, <4>2 DEF MaxWaitArmed
    <3>2. CASE firing[s] \notin inbox
      BY <1>1, <2>2, <3>2 DEF TriggerMaxWait
    <3>3. QED
      BY <3>1, <3>2
  <2>3. CASE CommitClaim(s)
    <3>1. Pending' = Pending \ fired[s] /\ inbox' \subseteq inbox /\ pool' = pool
      BY <2>3 DEF CommitClaim, Pending
    <3>2. \A r \in Schedulers : fired'[r] \subseteq fired[r]
      BY <2>3 DEF CommitClaim, TypeOK
    <3>3. QED
      BY <3>1, <3>2 DEF MaxWaitArmed
  <2>4. CASE SchedulerFails(s)
    <3>1. \A r \in Schedulers : fired'[r] \subseteq fired[r]
      BY <2>4 DEF SchedulerFails, TypeOK
    <3>2. UNCHANGED timerVars /\ Pending' = Pending
      BY <2>4 DEF SchedulerFails, Pending
    <3>3. QED
      BY <3>1, <3>2 DEF MaxWaitArmed
  <2>5. CASE ClaimDueTimers(s) \/ FireNext(s) \/ ReadOldest(s) \/ RearmRemainder(s)
    BY <1>1, <2>5 DEF ClaimDueTimers, FireNext, ReadOldest, RearmRemainder
  <2>6. QED
    BY <1>3, <2>1, <2>2, <2>3, <2>4, <2>5 DEF SchedulerStep
<1>4. ASSUME NEW k \in OpsTokens, ManualBatch(k) \/ CommitManual(k) \/ RequestFails(k)
      PROVE MaxWaitArmed'
  <2>1. CASE CommitManual(k)
    <3>1. k \notin Timers /\ Apply(k, k) /\ UNCHANGED schedulerVars
      BY <2>1 DEF CommitManual
    <3>2. QED
      BY <1>0, <3>1, ApplyKeepsArmed DEF Locks
  <2>2. CASE ManualBatch(k) \/ RequestFails(k)
    BY <1>1, <2>2 DEF ManualBatch, RequestFails
  <2>3. QED
    BY <1>4, <2>1, <2>2
<1>5. CASE Tick \/ \E a \in Asgns : HoldRecord(a) \/ ReleaseRecord(a) \/ WithdrawReplacement(a)
  BY <1>1, <1>5 DEF Tick, HoldRecord, ReleaseRecord, WithdrawReplacement
<1>6. QED
  BY <1>2, <1>3, <1>4, <1>5 DEF Next

-----------------------------------------------------------------------------
LEMMA InvIsInductive == Inv /\ [Next]_vars => Inv'
<1> SUFFICES ASSUME Inv, [Next]_vars PROVE Inv'
  OBVIOUS
<1>1. CASE Next
  BY <1>1, NextType, NextLocks, NextPositions, NextOneBatch, NextArmed DEF Inv
<1>2. CASE UNCHANGED vars
  BY <1>2 DEF vars, poolVars, timerVars, consumerVars, schedulerVars, Inv, TypeOK, Locks, Positions,
     InTx, DispatchInOneBatch, MaxWaitArmed, Pooled, Pending
<1>3. QED
  BY <1>1, <1>2

(***************************************************************************)
(* The invariant of Batching holds for any number of consumers,            *)
(* schedulers, requests, entries, timers and failures.                     *)
(***************************************************************************)
THEOREM Invariance == Spec => []Inv
<1>1. QED
  BY InitInv, InvIsInductive, PTL DEF Spec

(* Every variable keeps its type: no age, no remaining wait and no delay   *)
(* of a timer ever exceeds maxWaitSeconds.                                 *)
THEOREM TypeCorrect == Spec => []TypeOK
<1>1. Inv => TypeOK
  BY DEF Inv
<1>2. QED
  BY <1>1, Invariance, PTL

(***************************************************************************)
(* A dispatch is BATCHED exactly when one committed batch fact announces   *)
(* it: LOT_SIZE, MAX_WAIT and MANUAL triggers of any number of processes   *)
(* never take it twice, and none takes it silently.                        *)
(***************************************************************************)
THEOREM OneBatchEach == Spec => []DispatchInOneBatch
<1>1. Inv => DispatchInOneBatch
  BY DEF Inv
<1>2. QED
  BY <1>1, Invariance, PTL

(***************************************************************************)
(* Once ensurePool has created the anchor, a pending max_wait timer whose  *)
(* firing is still owed exists in every state: neither superseding, nor a  *)
(* fire that found nothing, nor a claim rolled back disarms the pool.      *)
(***************************************************************************)
THEOREM NeverDisarmed == Spec => []MaxWaitArmed
<1>1. Inv => MaxWaitArmed
  BY DEF Inv
<1>2. QED
  BY <1>1, Invariance, PTL

-----------------------------------------------------------------------------
(***************************************************************************)
(* Every step on the pool entries and the batch facts is one DispatchPool  *)
(* allows: the commits sweep what their transaction claimed.               *)
(***************************************************************************)
Announced == {b.asgns : b \in batches}

LEMMA ApplySweeps ==
  ASSUME Inv, NEW p, NEW epoch, p \in Procs, Apply(p, epoch)
  PROVE  \/ UNCHANGED <<entry, Announced>>
         \/ \E S \in SUBSET Asgns : Promise!Sweep(S)
<1> USE DEF Inv
<1>1. tx[p].claims \subseteq Asgns /\ \A a \in tx[p].claims : entry[a] = "POOLED"
  BY DEF Locks, Pooled
<1>2. CASE tx[p].claims = {}
  <2>1. batches' = batches /\ entry' = entry
    BY <1>2 DEF Apply, TypeOK
  <2>2. QED
    BY <2>1 DEF Announced
<1>3. CASE tx[p].claims # {}
  <2> DEFINE f == [reason |-> tx[p].reason, asgns |-> tx[p].claims]
  <2>1. batches' = batches \cup {f}
    BY <1>3 DEF Apply
  <2>2. f.asgns = tx[p].claims
    OBVIOUS
  <2> HIDE DEF f
  <2>3. {b.asgns : b \in batches'} = {b.asgns : b \in batches} \cup {tx[p].claims}
    BY <2>1, <2>2
  <2>4. entry' = [a \in Asgns |-> IF a \in tx[p].claims THEN "BATCHED" ELSE entry[a]]
    BY DEF Apply
  <2>5. QED
    BY <1>1, <1>3, <2>3, <2>4, Zenon DEF Promise!Sweep
<1>4. QED
  BY <1>2, <1>3

LEMMA StepKeepsPromise == Inv /\ [Next]_vars => [Promise!Next]_(Promise!vars)
<1> SUFFICES ASSUME Inv, [Next]_vars
             PROVE  Promise!Next \/ UNCHANGED <<entry, Announced>>
  BY DEF Promise!vars, Announced
<1> USE DEF Inv, vars, poolVars, timerVars, consumerVars, schedulerVars
<1>0. Consumers \subseteq Procs /\ Schedulers \subseteq Procs /\ OpsTokens \subseteq Procs
  BY DEF Procs
<1>1. ASSUME NEW p \in Procs, NEW e, Apply(p, e) PROVE Promise!Next \/ UNCHANGED <<entry, Announced>>
  BY <1>1, ApplySweeps DEF Promise!Next
<1>2. ASSUME UNCHANGED <<entry, batches>> PROVE UNCHANGED <<entry, Announced>>
  BY <1>2 DEF Announced
<1>3. ASSUME NEW c \in Consumers, ConsumerStep(c) \/ ConsumerFails(c)
      PROVE Promise!Next \/ UNCHANGED <<entry, Announced>>
  <2>1. CASE CommitLotSize(c)
    BY <1>0, <1>1, <2>1 DEF CommitLotSize
  <2>2. ASSUME NEW a \in Asgns, ProjectDemandFact(c, a) PROVE Promise!Next
    BY <2>2 DEF ProjectDemandFact, Promise!Next, Promise!Accept, Promise!Move
  <2>3. CASE EnsurePool(c) \/ CreatePool(c) \/ CountPooled(c) \/ TriggerLotSize(c) \/ ConsumerFails(c)
    BY <1>2, <2>3 DEF EnsurePool, CreatePool, CountPooled, TriggerLotSize, ConsumerFails
  <2>4. QED
    BY <1>3, <2>1, <2>2, <2>3 DEF ConsumerStep
<1>4. ASSUME NEW s \in Schedulers, SchedulerStep(s) \/ SchedulerFails(s)
      PROVE Promise!Next \/ UNCHANGED <<entry, Announced>>
  <2>1. CASE CommitEffect(s)
    BY <1>0, <1>1, <2>1 DEF CommitEffect
  <2>2. CASE \/ ClaimDueTimers(s) \/ FireNext(s) \/ ReadOldest(s) \/ RearmRemainder(s)
             \/ TriggerMaxWait(s) \/ CommitClaim(s) \/ SchedulerFails(s)
    BY <1>2, <2>2 DEF ClaimDueTimers, FireNext, ReadOldest, RearmRemainder, TriggerMaxWait,
                      CommitClaim, SchedulerFails
  <2>3. QED
    BY <1>4, <2>1, <2>2 DEF SchedulerStep
<1>5. ASSUME NEW k \in OpsTokens, ManualBatch(k) \/ CommitManual(k) \/ RequestFails(k)
      PROVE Promise!Next \/ UNCHANGED <<entry, Announced>>
  <2>1. CASE CommitManual(k)
    BY <1>0, <1>1, <2>1 DEF CommitManual
  <2>2. CASE ManualBatch(k) \/ RequestFails(k)
    BY <1>2, <2>2 DEF ManualBatch, RequestFails
  <2>3. QED
    BY <1>5, <2>1, <2>2
<1>6. ASSUME NEW a \in Asgns, HoldRecord(a) \/ ReleaseRecord(a) \/ WithdrawReplacement(a)
      PROVE Promise!Next
  BY <1>6 DEF HoldRecord, ReleaseRecord, WithdrawReplacement, Promise!Next, Promise!Park,
              Promise!Unpark, Promise!Withdraw, Promise!Move
<1>7. CASE Tick
  BY <1>2, <1>7 DEF Tick
<1>8. CASE UNCHANGED vars
  BY <1>2, <1>8
<1>9. QED
  BY <1>3, <1>4, <1>5, <1>6, <1>7, <1>8 DEF Next

(* Batching implements DispatchPool, with the dispatches of each committed *)
(* batch fact as the announced sets.                                       *)
THEOREM Refinement == Spec => ImplementsDispatchPool
<1>1. Init => Promise!Init
  BY DEF Init, Promise!Init
<1>2. QED
  BY <1>1, Invariance, StepKeepsPromise, PTL DEF Spec, ImplementsDispatchPool, Promise!Spec

(***************************************************************************)
(* A held dispatch is never batched: no transaction has claimed it, since  *)
(* claims are POOLED rows and stay so until the commit.                    *)
(***************************************************************************)
THEOREM HeldIsSafe == Spec => HeldNeverSwept
<1>1. Inv /\ [Promise!Next]_(Promise!vars) =>
        [\A a \in Asgns : entry[a] = "HELD" => entry'[a] \in {"HELD", "POOLED", "CANCELLED"}]_entry
  BY DEF Inv, TypeOK, Promise!Next, Promise!vars, Promise!Accept, Promise!Park, Promise!Unpark,
         Promise!Withdraw, Promise!Move, Promise!Sweep
<1>2. QED
  BY <1>1, Invariance, StepKeepsPromise, PTL DEF Spec, HeldNeverSwept

-----------------------------------------------------------------------------
(* How the open transactions and the waits of the entries may change.      *)

LEMMA LotIsThePool ==
  ASSUME NoBankLot, NEW a \in Asgns
  PROVE  Scope(a) = Pooled /\ Lot(a) = MinLot
BY DEF NoBankLot, Scope, Lot

(* A step opens a transaction, ends one or leaves them all alone; one that *)
(* opens has claimed the whole pool or carries the remainder it has read.  *)
LEMMA TxMoves ==
  ASSUME Inv, NoBankLot, Next, NEW p \in Procs
  PROVE  \/ tx'[p] = tx[p]
         \/ tx'[p] = NoTx
         \/ /\ UNCHANGED <<entry, waited>>
            /\ \/ tx'[p].claims = Pooled
               \/ p \in Schedulers /\ spc[p] = "rearm" /\ tx'[p].delay = rest[p]
<1> DEFINE Goal == \/ tx'[p] = tx[p]
                   \/ tx'[p] = NoTx
                   \/ /\ UNCHANGED <<entry, waited>>
                      /\ \/ tx'[p].claims = Pooled
                         \/ p \in Schedulers /\ spc[p] = "rearm" /\ tx'[p].delay = rest[p]
<1> USE DEF Inv, vars, poolVars, timerVars, consumerVars, schedulerVars
<1>0. Consumers \subseteq Procs /\ Schedulers \subseteq Procs /\ OpsTokens \subseteq Procs
  BY DEF Procs
<1>1. ASSUME NEW q \in Procs, tx' = [tx EXCEPT ![q] = NoTx] PROVE Goal
  BY <1>1 DEF TypeOK
<1>2. ASSUME NEW q \in Procs, Opened(q), UNCHANGED <<entry, waited>>,
             \/ tx'[q].claims = Pooled
             \/ q \in Schedulers /\ spc[q] = "rearm" /\ tx'[q].delay = rest[q]
      PROVE  Goal
  BY <1>2 DEF Opened, TypeOK
<1>3. ASSUME NEW c \in Consumers, ConsumerStep(c) \/ ConsumerFails(c) PROVE Goal
  <2>1. CASE CommitLotSize(c) \/ ConsumerFails(c)
    BY <1>0, <1>1, <2>1 DEF CommitLotSize, Apply, ConsumerFails
  <2>2. CASE TriggerLotSize(c)
    <3>1. CASE fact[c] \in inbox
      BY <2>2, <3>1 DEF TriggerLotSize
    <3>2. CASE fact[c] \notin inbox
      <4>1. fact[c] \in Asgns /\ TriggerBatch(c, "LOT_SIZE", Scope(fact[c]), {})
        BY <2>2, <3>2 DEF TriggerLotSize, TypeOK
      <4>2. Opened(c) /\ tx'[c].claims = Scope(fact[c])
        BY <1>0, <4>1, ScopeIsPooled, OpenedByTrigger DEF Reasons
      <4>3. QED
        BY <1>0, <1>2, <2>2, <4>1, <4>2, LotIsThePool DEF TriggerLotSize
    <3>3. QED
      BY <3>1, <3>2
  <2>3. CASE (\E a \in Asgns : ProjectDemandFact(c, a)) \/ EnsurePool(c) \/ CreatePool(c) \/ CountPooled(c)
    BY <2>3 DEF ProjectDemandFact, EnsurePool, CreatePool, CountPooled
  <2>4. QED
    BY <1>3, <2>1, <2>2, <2>3 DEF ConsumerStep
<1>4. ASSUME NEW s \in Schedulers, SchedulerStep(s) \/ SchedulerFails(s) PROVE Goal
  <2>1. CASE CommitEffect(s) \/ SchedulerFails(s)
    BY <1>0, <1>1, <2>1 DEF CommitEffect, Apply, SchedulerFails
  <2>2. CASE RearmRemainder(s)
    <3>1. SupersedeAndRearm(s, "REARM", {}, {firing[s]}, rest[s]) /\ rest[s] \in 0..MaxWait
      BY <2>2 DEF RearmRemainder, TypeOK
    <3>2. Opened(s) /\ tx'[s].delay = rest[s]
      BY <1>0, <3>1, OpenedBySupersede
    <3>3. QED
      BY <1>0, <1>2, <2>2, <3>2 DEF RearmRemainder
  <2>3. CASE TriggerMaxWait(s)
    <3>1. CASE firing[s] \in inbox
      BY <2>3, <3>1 DEF TriggerMaxWait
    <3>2. CASE firing[s] \notin inbox
      <4>1. TriggerBatch(s, "MAX_WAIT", Pooled, {firing[s]})
        BY <2>3, <3>2 DEF TriggerMaxWait
      <4>2. Opened(s) /\ tx'[s].claims = Pooled
        BY <1>0, <4>1, ScopeIsPooled, OpenedByTrigger DEF Reasons
      <4>3. QED
        BY <1>0, <1>2, <2>3, <4>2 DEF TriggerMaxWait
    <3>3. QED
      BY <3>1, <3>2
  <2>4. CASE ClaimDueTimers(s) \/ FireNext(s) \/ ReadOldest(s) \/ CommitClaim(s)
    BY <2>4 DEF ClaimDueTimers, FireNext, ReadOldest, CommitClaim
  <2>5. QED
    BY <1>4, <2>1, <2>2, <2>3, <2>4 DEF SchedulerStep
<1>5. ASSUME NEW k \in OpsTokens, ManualBatch(k) \/ CommitManual(k) \/ RequestFails(k) PROVE Goal
  <2>1. CASE CommitManual(k) \/ RequestFails(k)
    BY <1>0, <1>1, <2>1 DEF CommitManual, Apply, RequestFails
  <2>2. CASE ManualBatch(k)
    <3>1. Opened(k) /\ tx'[k].claims = Pooled
      BY <1>0, <2>2, ScopeIsPooled, OpenedByTrigger DEF ManualBatch, Reasons
    <3>2. QED
      BY <1>0, <1>2, <2>2, <3>1 DEF ManualBatch
  <2>3. QED
    BY <1>5, <2>1, <2>2
<1>6. CASE Tick \/ \E a \in Asgns : HoldRecord(a) \/ ReleaseRecord(a) \/ WithdrawReplacement(a)
  BY <1>6 DEF Tick, HoldRecord, ReleaseRecord, WithdrawReplacement
<1>7. QED
  BY <1>3, <1>4, <1>5, <1>6 DEF Next

LEMMA ApplyClears ==
  ASSUME Inv, NEW p \in Procs, NEW epoch, Apply(p, epoch)
  PROVE  /\ Pooled' = Pooled \ tx[p].claims
         /\ \A a \in Asgns : a \notin tx[p].claims =>
              entry'[a] = entry[a] /\ age'[a] = age[a] /\ waited'[a] = waited[a]
         /\ \A a \in Asgns : a \in tx[p].claims =>
              entry'[a] = "BATCHED" /\ age'[a] = 0 /\ waited'[a] = 0
BY DEF Apply, Pooled

(* Only time makes a pooled entry's wait longer. *)
LEMMA WaitsClear ==
  ASSUME Inv, Ages, Next
  PROVE  Tick \/ \A a \in Pooled' : waited'[a] = 0 \/ (a \in Pooled /\ waited'[a] = waited[a])
<1> DEFINE Clear == \A a \in Pooled' : waited'[a] = 0 \/ (a \in Pooled /\ waited'[a] = waited[a])
<1> USE DEF Inv, vars, poolVars, timerVars, consumerVars, schedulerVars
<1>0. Consumers \subseteq Procs /\ Schedulers \subseteq Procs /\ OpsTokens \subseteq Procs
  BY DEF Procs
<1>1. ASSUME NEW p \in Procs, NEW e, Apply(p, e) PROVE Clear
  BY <1>1, ApplyClears DEF Pooled
<1>2. ASSUME UNCHANGED <<entry, waited>> PROVE Clear
  BY <1>2 DEF Pooled
<1>3. ASSUME NEW c \in Consumers, ConsumerStep(c) \/ ConsumerFails(c) PROVE Clear
  <2>1. CASE CommitLotSize(c)
    BY <1>0, <1>1, <2>1 DEF CommitLotSize
  <2>2. ASSUME NEW a \in Asgns, ProjectDemandFact(c, a) PROVE Clear
    BY <2>2 DEF ProjectDemandFact, Ages, Pooled, TypeOK
  <2>3. CASE EnsurePool(c) \/ CreatePool(c) \/ CountPooled(c) \/ TriggerLotSize(c) \/ ConsumerFails(c)
    BY <1>2, <2>3 DEF EnsurePool, CreatePool, CountPooled, TriggerLotSize, ConsumerFails
  <2>4. QED
    BY <1>3, <2>1, <2>2, <2>3 DEF ConsumerStep
<1>4. ASSUME NEW s \in Schedulers, SchedulerStep(s) \/ SchedulerFails(s) PROVE Clear
  <2>1. CASE CommitEffect(s)
    BY <1>0, <1>1, <2>1 DEF CommitEffect
  <2>2. CASE \/ ClaimDueTimers(s) \/ FireNext(s) \/ ReadOldest(s) \/ RearmRemainder(s)
             \/ TriggerMaxWait(s) \/ CommitClaim(s) \/ SchedulerFails(s)
    BY <1>2, <2>2 DEF ClaimDueTimers, FireNext, ReadOldest, RearmRemainder, TriggerMaxWait,
                      CommitClaim, SchedulerFails
  <2>3. QED
    BY <1>4, <2>1, <2>2 DEF SchedulerStep
<1>5. ASSUME NEW k \in OpsTokens, ManualBatch(k) \/ CommitManual(k) \/ RequestFails(k) PROVE Clear
  <2>1. CASE CommitManual(k)
    BY <1>0, <1>1, <2>1 DEF CommitManual
  <2>2. CASE ManualBatch(k) \/ RequestFails(k)
    BY <1>2, <2>2 DEF ManualBatch, RequestFails
  <2>3. QED
    BY <1>5, <2>1, <2>2
<1>6. ASSUME NEW a \in Asgns, HoldRecord(a) \/ ReleaseRecord(a) \/ WithdrawReplacement(a) PROVE Clear
  BY <1>6 DEF HoldRecord, ReleaseRecord, WithdrawReplacement, Ages, Pooled, TypeOK
<1>7. QED
  BY <1>3, <1>4, <1>5, <1>6 DEF Next

-----------------------------------------------------------------------------
(* Deadlines. *)

LEMMA InitDeadlines == Init => Deadlines
<1> SUFFICES ASSUME Init PROVE Deadlines
  OBVIOUS
<1>1. \A p \in Procs : ~InTx(p)
  BY DEF Init, InTx, NoTx, EmptyTx
<1>2. Pooled = {}
  BY DEF Init, Pooled
<1>3. Ages /\ AnchorComing
  BY DEF Init, Ages, AnchorComing
<1>4. QED
  BY <1>1, <1>2, <1>3 DEF Deadlines, LeftInTime, RestInTime, TimersCover

LEMMA NextAges ==
  ASSUME Inv, Ages, Next
  PROVE  Ages'
<1> USE DEF Inv, vars, poolVars, timerVars, consumerVars, schedulerVars
<1>0. Consumers \subseteq Procs /\ Schedulers \subseteq Procs /\ OpsTokens \subseteq Procs
  BY DEF Procs
<1>1. ASSUME NEW p \in Procs, NEW e, Apply(p, e) PROVE Ages'
  BY <1>1, ApplyClears DEF Ages
<1>2. ASSUME UNCHANGED <<entry, age, waited>> PROVE Ages'
  BY <1>2 DEF Ages
<1>3. ASSUME NEW c \in Consumers, ConsumerStep(c) \/ ConsumerFails(c) PROVE Ages'
  <2>1. CASE CommitLotSize(c)
    BY <1>0, <1>1, <2>1 DEF CommitLotSize
  <2>2. ASSUME NEW a \in Asgns, ProjectDemandFact(c, a) PROVE Ages'
    BY <2>2 DEF ProjectDemandFact, Ages, TypeOK
  <2>3. CASE EnsurePool(c) \/ CreatePool(c) \/ CountPooled(c) \/ TriggerLotSize(c) \/ ConsumerFails(c)
    BY <1>2, <2>3 DEF EnsurePool, CreatePool, CountPooled, TriggerLotSize, ConsumerFails
  <2>4. QED
    BY <1>3, <2>1, <2>2, <2>3 DEF ConsumerStep
<1>4. ASSUME NEW s \in Schedulers, SchedulerStep(s) \/ SchedulerFails(s) PROVE Ages'
  <2>1. CASE CommitEffect(s)
    BY <1>0, <1>1, <2>1 DEF CommitEffect
  <2>2. CASE \/ ClaimDueTimers(s) \/ FireNext(s) \/ ReadOldest(s) \/ RearmRemainder(s)
             \/ TriggerMaxWait(s) \/ CommitClaim(s) \/ SchedulerFails(s)
    BY <1>2, <2>2 DEF ClaimDueTimers, FireNext, ReadOldest, RearmRemainder, TriggerMaxWait,
                      CommitClaim, SchedulerFails
  <2>3. QED
    BY <1>4, <2>1, <2>2 DEF SchedulerStep
<1>5. ASSUME NEW k \in OpsTokens, ManualBatch(k) \/ CommitManual(k) \/ RequestFails(k) PROVE Ages'
  <2>1. CASE CommitManual(k)
    BY <1>0, <1>1, <2>1 DEF CommitManual
  <2>2. CASE ManualBatch(k) \/ RequestFails(k)
    BY <1>2, <2>2 DEF ManualBatch, RequestFails
  <2>3. QED
    BY <1>5, <2>1, <2>2
<1>6. ASSUME NEW a \in Asgns, HoldRecord(a) \/ ReleaseRecord(a) \/ WithdrawReplacement(a) PROVE Ages'
  BY <1>6 DEF HoldRecord, ReleaseRecord, WithdrawReplacement, Ages, TypeOK
<1>7. CASE Tick
  <2>1. \A x, y \in 0..MaxWait : x <= y => Older(x) <= Older(y)
    BY DEF Older
  <2>2. ASSUME NEW a \in Asgns
        PROVE  waited'[a] <= age'[a] /\ (entry'[a] # "POOLED" => waited'[a] = 0)
    <3>1. age'[a] = IF entry[a] \in {"POOLED", "HELD"} THEN Older(age[a]) ELSE age[a]
      BY <1>7 DEF Tick
    <3>2. waited'[a] = IF entry[a] = "POOLED" THEN Older(waited[a]) ELSE waited[a]
      BY <1>7 DEF Tick
    <3>3. entry' = entry /\ waited[a] \in 0..MaxWait /\ age[a] \in 0..MaxWait
      BY <1>7 DEF Tick, TypeOK
    <3>4. CASE entry[a] = "POOLED"
      BY <2>1, <3>1, <3>2, <3>3, <3>4 DEF Ages
    <3>5. CASE entry[a] # "POOLED"
      <4>1. waited[a] = 0 /\ waited'[a] = 0 /\ age'[a] \in Nat
        BY <3>1, <3>2, <3>3, <3>5 DEF Ages, Older
      <4>2. QED
        BY <3>3, <3>5, <4>1
    <3>6. QED
      BY <3>4, <3>5
  <2>3. QED
    BY <2>2 DEF Ages
<1>8. QED
  BY <1>3, <1>4, <1>5, <1>6, <1>7 DEF Next

LEMMA NextLeftInTime ==
  ASSUME Inv, NoBankLot, Ages, LeftInTime, RestInTime, Next
  PROVE  LeftInTime'
<1> SUFFICES ASSUME NEW p \in Procs, InTx(p)', NEW a \in Pooled', a \notin tx'[p].claims
             PROVE  InTime(a, tx[p].delay)'
  BY DEF LeftInTime
<1>0. TypeOK'
  BY NextType
<1>a. tx'[p].delay \in 0..MaxWait /\ a \in Asgns
  BY <1>0 DEF TypeOK, TxRecord, Pooled
<1>1. tx'[p] # NoTx
  BY DEF InTx, NoTx, EmptyTx
<1>2. CASE tx'[p] = tx[p]
  <2>1. InTx(p) /\ ~Tick
    BY <1>2 DEF InTx, Tick, Quiet
  <2>2. CASE waited'[a] = 0
    BY <1>a, <2>2 DEF InTime
  <2>3. CASE a \in Pooled /\ waited'[a] = waited[a]
    BY <1>2, <2>1, <2>3 DEF LeftInTime, InTime
  <2>4. QED
    BY <2>1, <2>2, <2>3, WaitsClear
<1>3. CASE UNCHANGED <<entry, waited>> /\ tx'[p].claims = Pooled
  BY <1>3 DEF Pooled
<1>4. CASE /\ UNCHANGED <<entry, waited>>
           /\ p \in Schedulers /\ spc[p] = "rearm" /\ tx'[p].delay = rest[p]
  BY <1>4 DEF RestInTime, InTime, Pooled
<1>5. QED
  BY <1>1, <1>2, <1>3, <1>4, TxMoves

LEMMA NextRestInTime ==
  ASSUME Inv, Ages, RestInTime, Next
  PROVE  RestInTime'
<1> USE DEF Inv, vars, poolVars, timerVars, consumerVars, schedulerVars
<1> SUFFICES ASSUME NEW s \in Schedulers, spc'[s] = "rearm", NEW a \in Pooled'
             PROVE  InTime(a, rest[s])'
  BY DEF RestInTime
<1>0. a \in Asgns /\ rest[s] \in 0..MaxWait
  BY DEF Pooled, TypeOK
<1>1. CASE spc[s] = "rearm" /\ rest'[s] = rest[s]
  <2>1. ~Tick
    BY <1>1 DEF Tick, Quiet
  <2>2. CASE waited'[a] = 0
    BY <1>0, <1>1, <2>2 DEF InTime
  <2>3. CASE a \in Pooled /\ waited'[a] = waited[a]
    BY <1>1, <2>3 DEF RestInTime, InTime
  <2>4. QED
    BY <2>1, <2>2, <2>3, WaitsClear
<1>2. CASE ReadOldest(s)
  <2>1. Pooled' = Pooled /\ waited' = waited
    BY <1>2 DEF ReadOldest, Pooled
  <2>2. PICK b \in Pooled : (\A d \in Pooled : age[d] <= age[b]) /\ rest' = [rest EXCEPT ![s] = MaxWait - age[b]]
    BY <1>2 DEF ReadOldest, TypeOK
  <2>3. rest'[s] = MaxWait - age[b] /\ b \in Asgns
    BY <2>2 DEF TypeOK, Pooled
  <2>4. waited[a] <= age[a] /\ age[a] <= age[b]
    BY <1>0, <2>1, <2>2 DEF Ages
  <2>5. waited[a] \in Nat /\ age[a] \in Nat /\ age[b] \in 0..MaxWait
    BY <1>0, <2>3 DEF TypeOK
  <2>6. QED
    BY <2>1, <2>3, <2>4, <2>5 DEF InTime
<1>3. ReadOldest(s) \/ (spc[s] = "rearm" /\ rest'[s] = rest[s])
  <2>1. ASSUME NEW r \in Schedulers, SchedulerStep(r) \/ SchedulerFails(r)
        PROVE  ReadOldest(s) \/ (spc[s] = "rearm" /\ rest'[s] = rest[s])
    <3>1. CASE r # s
      <4>1. CASE CommitEffect(r)
        BY <3>1, <4>1 DEF CommitEffect, EffectDone, TypeOK
      <4>2. CASE ClaimDueTimers(r) \/ FireNext(r) \/ ReadOldest(r) \/ RearmRemainder(r)
        BY <3>1, <4>2 DEF ClaimDueTimers, FireNext, ReadOldest, RearmRemainder, TypeOK
      <4>3. CASE TriggerMaxWait(r) \/ CommitClaim(r) \/ SchedulerFails(r)
        BY <3>1, <4>3 DEF TriggerMaxWait, EffectDone, CommitClaim, SchedulerFails, TypeOK
      <4>4. QED
        BY <2>1, <4>1, <4>2, <4>3 DEF SchedulerStep
    <3>2. CASE r = s
      <4>1. CASE RearmRemainder(s)
        BY <4>1 DEF RearmRemainder
      <4>2. CASE TriggerMaxWait(s)
        BY <4>2 DEF TriggerMaxWait, EffectDone, TypeOK
      <4>3. CASE ClaimDueTimers(s) \/ FireNext(s) \/ CommitClaim(s) \/ SchedulerFails(s) \/ CommitEffect(s)
        BY <4>3 DEF ClaimDueTimers, FireNext, CommitClaim, SchedulerFails, CommitEffect, EffectDone, TypeOK
      <4>4. QED
        BY <2>1, <3>2, <4>1, <4>2, <4>3 DEF SchedulerStep
    <3>3. QED
      BY <3>1, <3>2
  <2>2. ASSUME NEW c \in Consumers, ConsumerStep(c) \/ ConsumerFails(c)
        PROVE  UNCHANGED schedulerVars
    BY <2>2 DEF ConsumerStep, ProjectDemandFact, EnsurePool, CreatePool, CountPooled, TriggerLotSize,
                CommitLotSize, ConsumerFails
  <2>3. ASSUME NEW k \in OpsTokens, ManualBatch(k) \/ CommitManual(k) \/ RequestFails(k)
        PROVE  UNCHANGED schedulerVars
    BY <2>3 DEF ManualBatch, CommitManual, RequestFails
  <2>4. CASE Tick \/ \E b \in Asgns : HoldRecord(b) \/ ReleaseRecord(b) \/ WithdrawReplacement(b)
    BY <2>4 DEF Tick, HoldRecord, ReleaseRecord, WithdrawReplacement
  <2>5. QED
    BY <2>1, <2>2, <2>3, <2>4 DEF Next
<1>4. QED
  BY <1>1, <1>2, <1>3


(* A failure is counted, and what the handlers promise ends there. *)
LEMMA FailuresCount ==
  ASSUME TypeOK, NEW q, ConsumerFails(q) \/ SchedulerFails(q) \/ RequestFails(q)
  PROVE  crashes' # 0
<1>1. crashes \in Nat
  BY DEF TypeOK
<1>2. crashes' = crashes + 1
  BY DEF ConsumerFails, SchedulerFails, RequestFails, Fail
<1>3. QED
  BY <1>1, <1>2

LEMMA NextAnchorComing ==
  ASSUME Inv, AnchorComing, Next
  PROVE  AnchorComing'
<1> USE DEF Inv, vars, poolVars, timerVars, consumerVars, schedulerVars
<1> DEFINE Ready(c) == cpc[c] \in {"ensure", "create"}
<1> DEFINE Goal == \A a \in Asgns : waited'[a] = 0 /\ (entry'[a] # "NONE" => \E c \in Consumers : Ready(c)')
<1> SUFFICES ASSUME crashes' = 0, ~pool' PROVE Goal
  BY DEF AnchorComing
<1>0. Consumers \subseteq Procs /\ Schedulers \subseteq Procs /\ OpsTokens \subseteq Procs
  BY DEF Procs
<1>1. ASSUME crashes = 0, ~pool,
             \A a \in Asgns : /\ waited'[a] \in {0, waited[a]}
                              /\ entry[a] = "NONE" => entry'[a] = "NONE",
             \A c \in Consumers : Ready(c) => Ready(c)'
      PROVE  Goal
  BY <1>1 DEF AnchorComing
<1>2. ASSUME NEW p \in Procs, NEW e, Apply(p, e)
      PROVE  /\ UNCHANGED <<pool, crashes>>
             /\ \A a \in Asgns : /\ waited'[a] \in {0, waited[a]}
                                 /\ entry[a] = "NONE" => entry'[a] = "NONE"
  <2>1. \A a \in tx[p].claims : entry[a] = "POOLED"
    BY DEF Locks, Pooled
  <2>2. UNCHANGED <<pool, crashes>>
    BY <1>2 DEF Apply
  <2>3. QED
    BY <1>2, <2>1, <2>2, ApplyClears
<1>3. ASSUME NEW c \in Consumers, ConsumerStep(c) PROVE Goal
  <2>1. ASSUME NEW a \in Asgns, ProjectDemandFact(c, a) PROVE Goal
    BY <2>1 DEF ProjectDemandFact, AnchorComing, TypeOK
  <2>2. CASE EnsurePool(c)
    BY <2>2 DEF EnsurePool, AnchorComing, TypeOK
  <2>3. CASE CreatePool(c)
    BY <2>3 DEF CreatePool
  <2>4. CASE CountPooled(c)
    BY <1>1, <2>4 DEF CountPooled, Return, TypeOK
  <2>5. CASE TriggerLotSize(c)
    BY <1>1, <2>5 DEF TriggerLotSize, Return, TypeOK
  <2>6. CASE CommitLotSize(c)
    <3>1. cpc[c] = "trigger"
      BY <2>6 DEF CommitLotSize, Positions
    <3>2. \A d \in Consumers : Ready(d) => Ready(d)'
      BY <2>6, <3>1 DEF CommitLotSize, Return, TypeOK
    <3>3. QED
      BY <1>0, <1>1, <1>2, <2>6, <3>2 DEF CommitLotSize
  <2>7. QED
    BY <1>3, <2>1, <2>2, <2>3, <2>4, <2>5, <2>6 DEF ConsumerStep
<1>4. ASSUME NEW s \in Schedulers, SchedulerStep(s) PROVE Goal
  <2>1. CASE CommitEffect(s)
    BY <1>0, <1>1, <1>2, <2>1 DEF CommitEffect
  <2>2. CASE \/ ClaimDueTimers(s) \/ FireNext(s) \/ ReadOldest(s) \/ RearmRemainder(s)
             \/ TriggerMaxWait(s) \/ CommitClaim(s)
    BY <1>1, <2>2 DEF ClaimDueTimers, FireNext, ReadOldest, RearmRemainder, TriggerMaxWait, CommitClaim
  <2>3. QED
    BY <1>4, <2>1, <2>2 DEF SchedulerStep
<1>5. ASSUME NEW k \in OpsTokens, ManualBatch(k) \/ CommitManual(k) PROVE Goal
  <2>1. CASE CommitManual(k)
    BY <1>0, <1>1, <1>2, <2>1 DEF CommitManual
  <2>2. CASE ManualBatch(k)
    BY <1>1, <2>2 DEF ManualBatch
  <2>3. QED
    BY <1>5, <2>1, <2>2
<1>6. ASSUME NEW q, ConsumerFails(q) \/ SchedulerFails(q) \/ RequestFails(q) PROVE FALSE
  BY <1>6, FailuresCount
<1>7. ASSUME NEW a \in Asgns, HoldRecord(a) \/ ReleaseRecord(a) \/ WithdrawReplacement(a) PROVE Goal
  <2>1. UNCHANGED <<pool, crashes, cpc>>
    BY <1>7 DEF HoldRecord, ReleaseRecord, WithdrawReplacement
  <2>2. \A b \in Asgns : /\ waited'[b] \in {0, waited[b]}
                         /\ entry[b] = "NONE" => entry'[b] = "NONE"
    BY <1>7 DEF HoldRecord, ReleaseRecord, WithdrawReplacement, TypeOK
  <2>3. QED
    BY <1>1, <2>1, <2>2
<1>8. CASE Tick
  <2>1. crashes = 0 /\ ~pool /\ \A c \in Consumers : ~Ready(c)
    BY <1>8 DEF Tick, Quiet
  <2>2. \A a \in Asgns : entry[a] = "NONE" /\ waited[a] = 0
    BY <2>1 DEF AnchorComing
  <2>3. \A a \in Asgns : entry'[a] = "NONE" /\ waited'[a] = 0
    BY <1>8, <2>2 DEF Tick
  <2>4. QED
    BY <2>3
<1>9. QED
  BY <1>3, <1>4, <1>5, <1>6, <1>7, <1>8 DEF Next


(* A timer whose firing is still to come and that stays so covers what it  *)
(* covered.                                                                *)
LEMMA CoverStays ==
  ASSUME NEW a, Covered(a), waited'[a] = waited[a],
         \A t \in Pending : (t \notin inbox /\ \A s \in Schedulers : t \notin fired[s]) =>
            /\ t \in Pending' /\ ttl'[t] = ttl[t]
            /\ t \notin inbox' /\ \A s \in Schedulers : t \notin fired'[s]
  PROVE  Covered(a)'
BY DEF Covered, InTime

(* A commit either arms no timer and spends none, or its own timer reaches *)
(* every entry it left behind in time.                                     *)
LEMMA ApplyCovers ==
  ASSUME Inv, LeftInTime, NEW p \in Procs, NEW epoch, InTx(p), Apply(p, epoch),
         epoch \in Timers => epoch \in Pending /\ tx[p].arms # {},
         \A s \in Schedulers : fired'[s] \subseteq claim[s],
         tx[p].arms = {} => UNCHANGED fired,
         NEW a \in Pooled', Covered(a)
  PROVE  Covered(a)'
<1> USE DEF Inv
<1>0. a \in Pooled /\ a \notin tx[p].claims /\ a \in Asgns /\ waited'[a] = waited[a]
  BY ApplyClears DEF Pooled
<1>1. CASE tx[p].arms = {}
  <2>1. tx[p].supersedes = {} /\ epoch \notin Timers
    BY <1>1 DEF Locks
  <2>2. Pending' = Pending /\ inbox' \cap Timers = inbox \cap Timers /\ fired' = fired
    BY <1>1, <2>1 DEF Apply, Pending
  <2>3. \A t \in Timers : ttl'[t] = ttl[t]
    BY <1>1, <2>1 DEF Apply
  <2>4. QED
    BY <1>0, <2>2, <2>3, CoverStays DEF Pending
<1>2. CASE tx[p].arms # {}
  <2>1. PICK u \in tx[p].arms : TRUE
    BY <1>2
  <2>2. u \in Timers /\ u \notin Pending
    BY <2>1 DEF Locks, TypeOK, TxRecord
  <2>3. u \in Pending' /\ ttl'[u] = tx[p].delay
    BY <2>1, <2>2 DEF Apply, Pending
  <2>4. u \notin inbox'
    BY <2>2 DEF Apply, Locks
  <2>5. \A s \in Schedulers : u \notin fired'[s]
    BY <2>2 DEF Locks
  <2>6. waited'[a] + ttl'[u] <= MaxWait
    BY <1>0, <2>3 DEF LeftInTime, InTime
  <2>7. QED
    BY <2>3, <2>4, <2>5, <2>6 DEF Covered, InTime
<1>3. QED
  BY <1>1, <1>2

LEMMA TickCovers ==
  ASSUME Inv, Tick, NEW a \in Pooled, Covered(a)
  PROVE  Covered(a)'
<1> USE DEF Inv, vars, poolVars, timerVars, consumerVars, schedulerVars
<1>1. PICK t \in Pending : InTime(a, ttl[t]) /\ t \notin inbox /\ \A s \in Schedulers : t \notin fired[s]
  BY DEF Covered
<1>2. /\ a \in Asgns /\ waited[a] \in 0..MaxWait /\ waited'[a] = Older(waited[a])
      /\ t \in Timers /\ ttl[t] \in 0..MaxWait
      /\ ttl'[t] = IF ttl[t] > 0 THEN ttl[t] - 1 ELSE ttl[t]
  BY DEF Tick, Pooled, Pending, TypeOK
<1>3. waited'[a] + ttl'[t] <= MaxWait
  BY <1>1, <1>2 DEF InTime, Older
<1>4. t \in Pending' /\ t \notin inbox' /\ fired' = fired
  BY <1>1 DEF Tick, Pending
<1>5. QED
  BY <1>1, <1>3, <1>4 DEF Covered, InTime

LEMMA NextTimersCover ==
  ASSUME Inv, LeftInTime, Ages, AnchorComing, TimersCover, Next
  PROVE  TimersCover'
<1> USE DEF Inv, vars, poolVars, timerVars, consumerVars, schedulerVars
<1> SUFFICES ASSUME crashes' = 0, pool', NEW a \in Pooled' PROVE Covered(a)'
  BY DEF TimersCover
<1>0. Consumers \subseteq Procs /\ Schedulers \subseteq Procs /\ OpsTokens \subseteq Procs
  BY DEF Procs
<1>a. TypeOK' /\ MaxWaitArmed' /\ a \in Asgns
  BY NextType, NextArmed DEF Pooled
<1>b. ASSUME NEW q, ConsumerFails(q) \/ SchedulerFails(q) \/ RequestFails(q) PROVE FALSE
  BY <1>b, FailuresCount
<1>1. CASE waited'[a] = 0
  <2>1. PICK t \in Pending' : t \notin inbox' /\ \A s \in Schedulers : t \notin fired'[s]
    BY <1>a DEF MaxWaitArmed
  <2>2. ttl'[t] \in 0..MaxWait
    BY <1>a, <2>1 DEF TypeOK, Pending
  <2>3. QED
    BY <1>1, <2>1, <2>2 DEF Covered, InTime
<1>2. CASE Tick
  <2>1. crashes = 0 /\ pool /\ a \in Pooled
    BY <1>2 DEF Tick, Pooled
  <2>2. QED
    BY <1>2, <2>1, TickCovers DEF TimersCover
<1>3. CASE ~Tick /\ a \in Pooled /\ waited'[a] = waited[a] /\ waited'[a] # 0
  <2>0. crashes = 0 => pool /\ Covered(a)
    BY <1>3, <1>a DEF AnchorComing, TimersCover
  <2>1. ASSUME UNCHANGED <<timerVars, fired, crashes>> PROVE Covered(a)'
    BY <1>3, <2>0, <2>1, CoverStays DEF Pending
  <2>2. ASSUME NEW c \in Consumers, ConsumerStep(c) PROVE Covered(a)'
    <3>1. CASE CommitLotSize(c)
      <4>1. fact[c] \in Asgns /\ Apply(c, fact[c]) /\ UNCHANGED schedulerVars
        BY <3>1 DEF CommitLotSize, Positions, TypeOK
      <4>2. InTx(c) /\ crashes' = crashes
        BY <3>1, <4>1 DEF CommitLotSize, Apply
      <4>3. QED
        BY <1>0, <2>0, <4>1, <4>2, ApplyCovers DEF Locks
    <3>2. CASE CreatePool(c)
      <4>1. pool
        BY <2>0, <3>2 DEF CreatePool
      <4>2. QED
        BY <2>1, <3>2, <4>1 DEF CreatePool
    <3>3. CASE \/ \E b \in Asgns : ProjectDemandFact(c, b)
               \/ EnsurePool(c) \/ CountPooled(c) \/ TriggerLotSize(c)
      BY <2>1, <3>3 DEF ProjectDemandFact, EnsurePool, CountPooled, TriggerLotSize
    <3>4. QED
      BY <2>2, <3>1, <3>2, <3>3 DEF ConsumerStep
  <2>3. ASSUME NEW s \in Schedulers, SchedulerStep(s) PROVE Covered(a)'
    <3>1. CASE CommitEffect(s)
      <4>1. firing[s] \in claim[s] /\ tx[s].arms # {}
        BY <3>1 DEF CommitEffect, Positions, TypeOK
      <4>2. \A r \in Schedulers : fired'[r] \subseteq claim[r]
        BY <3>1, <4>1 DEF CommitEffect, EffectDone, Locks, TypeOK
      <4>3. Apply(s, firing[s]) /\ InTx(s) /\ firing[s] \in Pending
        BY <3>1, <4>1 DEF CommitEffect, Locks
      <4>4. crashes' = crashes
        BY <4>3 DEF Apply
      <4>5. QED
        BY <1>0, <2>0, <4>1, <4>2, <4>3, <4>4, ApplyCovers
    <3>2. CASE TriggerMaxWait(s)
      <4>1. CASE firing[s] \in inbox
        <5>1. \A r \in Schedulers : fired'[r] \subseteq fired[r] \cup {firing[s]}
          BY <3>2, <4>1 DEF TriggerMaxWait, EffectDone, TypeOK
        <5>2. UNCHANGED <<timerVars, crashes>> /\ Pending' = Pending
          BY <3>2 DEF TriggerMaxWait, Pending
        <5>3. QED
          BY <1>3, <2>0, <4>1, <5>1, <5>2, CoverStays
      <4>2. CASE firing[s] \notin inbox
        BY <2>1, <3>2, <4>2 DEF TriggerMaxWait
      <4>3. QED
        BY <4>1, <4>2
    <3>3. CASE CommitClaim(s)
      <4>1. Pending' = Pending \ fired[s] /\ inbox' \subseteq inbox /\ UNCHANGED <<ttl, crashes>>
        BY <3>3 DEF CommitClaim, Pending
      <4>2. \A r \in Schedulers : fired'[r] \subseteq fired[r]
        BY <3>3 DEF CommitClaim, TypeOK
      <4>3. QED
        BY <1>3, <2>0, <4>1, <4>2, CoverStays
    <3>4. CASE ClaimDueTimers(s) \/ FireNext(s) \/ ReadOldest(s) \/ RearmRemainder(s)
      BY <2>1, <3>4 DEF ClaimDueTimers, FireNext, ReadOldest, RearmRemainder
    <3>5. QED
      BY <2>3, <3>1, <3>2, <3>3, <3>4 DEF SchedulerStep
  <2>4. ASSUME NEW k \in OpsTokens, ManualBatch(k) \/ CommitManual(k) PROVE Covered(a)'
    <3>1. CASE CommitManual(k)
      <4>1. k \notin Timers /\ Apply(k, k) /\ InTx(k) /\ UNCHANGED schedulerVars
        BY <3>1 DEF CommitManual
      <4>2. crashes' = crashes
        BY <4>1 DEF Apply
      <4>3. QED
        BY <1>0, <2>0, <4>1, <4>2, ApplyCovers DEF Locks
    <3>2. CASE ManualBatch(k)
      BY <2>1, <3>2 DEF ManualBatch
    <3>3. QED
      BY <2>4, <3>1, <3>2
  <2>5. ASSUME NEW b \in Asgns, HoldRecord(b) \/ ReleaseRecord(b) \/ WithdrawReplacement(b)
        PROVE  Covered(a)'
    BY <2>1, <2>5 DEF HoldRecord, ReleaseRecord, WithdrawReplacement
  <2>6. QED
    BY <1>3, <1>b, <2>2, <2>3, <2>4, <2>5 DEF Next
<1>4. QED
  BY <1>1, <1>2, <1>3, WaitsClear

LEMMA DeadlinesInductive ==
  ASSUME NoBankLot
  PROVE  Inv /\ Deadlines /\ [Next]_vars => Deadlines'
<1> SUFFICES ASSUME Inv, Deadlines, [Next]_vars PROVE Deadlines'
  OBVIOUS
<1>1. CASE Next
  BY <1>1, NextAges, NextLeftInTime, NextRestInTime, NextAnchorComing, NextTimersCover DEF Deadlines
<1>2. CASE UNCHANGED vars
  BY <1>2 DEF vars, poolVars, timerVars, consumerVars, schedulerVars, Deadlines, Ages, LeftInTime,
     RestInTime, AnchorComing, TimersCover, Covered, InTime, InTx, Pooled, Pending
<1>3. QED
  BY <1>1, <1>2

(***************************************************************************)
(* No entry outwaits its window, for any number of processes, entries,     *)
(* timers and any window: at rest, and as long as no handler has failed, a *)
(* pending timer wakes by the deadline of every pooled entry, whatever     *)
(* triggers, early wakes, holds and releases came before.  No bank may     *)
(* have a lot of its own, since a batch of one bank re-arms a full window  *)
(* with the other banks' entries still pooled.                             *)
(***************************************************************************)
THEOREM DeadlinesMet ==
  ASSUME NoBankLot
  PROVE  Spec => []DeadlineCovered
<1>1. Inv /\ Deadlines => DeadlineCovered
  <2> SUFFICES ASSUME Inv, Deadlines, Quiet, crashes = 0, NEW a \in Pooled
               PROVE  \E t \in Pending : ttl[t] <= MaxWait - waited[a]
    BY DEF DeadlineCovered
  <2>1. pool
    BY DEF Deadlines, AnchorComing, Quiet, Pooled
  <2>2. Covered(a)
    BY <2>1 DEF Deadlines, TimersCover
  <2>3. waited[a] \in Nat /\ \A t \in Pending : ttl[t] \in Nat
    BY DEF Inv, TypeOK, Pooled, Pending
  <2>4. QED
    BY <2>2, <2>3 DEF Covered, InTime
<1>2. QED
  BY <1>1, InitDeadlines, DeadlinesInductive, Invariance, PTL DEF Spec

-----------------------------------------------------------------------------
(* Lots. *)

LEMMA RequestsFinite ==
  ASSUME NEW S \in SUBSET Asgns
  PROVE  IsFiniteSet(Requests(S))
<1> DEFINE f == [a \in S |-> RequestOf[a]]
<1>1. f \in Surjection(S, Requests(S))
  BY DEF Surjection, Requests
<1>2. IsFiniteSet(S)
  BY FS_Subset
<1>3. QED
  BY <1>1, <1>2, FS_Surjection

(* Fewer entries, fewer requests; none, no lot. *)
LEMMA LotShrinks ==
  ASSUME NEW T \in SUBSET Asgns, NEW S \in SUBSET T, LotPooled(S)
  PROVE  LotPooled(T)
<1>1. Requests(S) \subseteq Requests(T)
  BY DEF Requests
<1>2. IsFiniteSet(Requests(S)) /\ IsFiniteSet(Requests(T))
  BY RequestsFinite
<1>3. Cardinality(Requests(S)) <= Cardinality(Requests(T))
  BY <1>1, <1>2, FS_Subset
<1>4. Cardinality(Requests(S)) \in Nat /\ Cardinality(Requests(T)) \in Nat
  BY <1>2, FS_CardinalityType
<1>5. QED
  BY <1>3, <1>4 DEF LotPooled

LEMMA NoneIsNoLot == ~LotPooled({})
<1>1. Requests({}) = {}
  BY DEF Requests
<1>2. QED
  BY <1>1, FS_EmptySet DEF LotPooled

LEMMA InitLots == Init => OwnFacts /\ LotsAttended
<1> SUFFICES ASSUME Init PROVE OwnFacts /\ LotsAttended
  OBVIOUS
<1>1. Pooled = {}
  BY DEF Init, Pooled
<1>2. LotsAttended
  BY <1>1, NoneIsNoLot DEF LotsAttended
<1>3. OwnFacts
  BY DEF Init, OwnFacts
<1>4. QED
  BY <1>2, <1>3

(* What becomes of the entries, the inbox and the consumers together.      *)
LEMMA OwnFactsKept ==
  ASSUME OwnFacts,
         \A a \in Asgns : entry'[a] = "NONE" => entry[a] = "NONE",
         \A a \in Asgns : entry'[a] = "HELD" => entry[a] = "HELD",
         \A a \in Asgns : a \in inbox' => a \in inbox,
         UNCHANGED consumerVars,
         TypeOK
  PROVE  OwnFacts'
<1>1. \A c \in Consumers : cpc[c] # "idle" => fact[c] \in Asgns
  BY DEF TypeOK
<1>2. QED
  BY <1>1 DEF OwnFacts, consumerVars

LEMMA NextOwnFacts ==
  ASSUME Inv, OwnFacts, Next
  PROVE  OwnFacts'
<1> USE DEF Inv, vars, poolVars, timerVars, schedulerVars
<1>0. Consumers \subseteq Procs /\ Schedulers \subseteq Procs /\ OpsTokens \subseteq Procs
  BY DEF Procs
<1>a. \A c \in Consumers : cpc[c] # "idle" => fact[c] \in Asgns
  BY DEF TypeOK
<1>1. ASSUME NEW p \in Procs, NEW e, Apply(p, e)
      PROVE  /\ \A a \in Asgns : entry'[a] = "NONE" => entry[a] = "NONE"
             /\ \A a \in Asgns : entry'[a] = "HELD" => entry[a] = "HELD"
             /\ \A a \in Asgns : a \in inbox' => a \in inbox \/ a = e
  <2>1. \A a \in Asgns : a \in inbox' => a \in inbox \/ a = e
    BY <1>1 DEF Apply
  <2>2. QED
    BY <1>1, <2>1, ApplyClears
<1>2. ASSUME NEW c \in Consumers, Return(c),
             \A a \in Asgns : entry'[a] = "NONE" => entry[a] = "NONE",
             \A a \in Asgns : entry'[a] = "HELD" => entry[a] = "HELD",
             \A a \in Asgns : a \in inbox' => a \in inbox \/ (cpc[c] # "idle" /\ a = fact[c])
      PROVE  OwnFacts'
  <2>1. \A d \in Consumers : cpc'[d] # "idle" => d # c /\ cpc'[d] = cpc[d] /\ fact'[d] = fact[d]
    BY <1>2 DEF Return, TypeOK
  <2>2. \A a \in Asgns : a \in inbox' => entry'[a] # "NONE"
    BY <1>2 DEF OwnFacts
  <2>3. \A a \in Asgns : entry'[a] = "HELD" => a \in Holdable
    BY <1>2 DEF OwnFacts
  <2>4. ASSUME NEW d \in Consumers, cpc'[d] # "idle"
        PROVE  /\ entry'[fact'[d]] # "NONE" /\ fact'[d] \notin inbox'
               /\ \A b \in Consumers \ {d} : cpc'[b] # "idle" => fact'[b] # fact'[d]
    BY <1>2, <1>a, <2>1, <2>4 DEF OwnFacts
  <2>5. QED
    BY <2>2, <2>3, <2>4 DEF OwnFacts
<1>3. ASSUME NEW c \in Consumers, ConsumerStep(c) \/ ConsumerFails(c) PROVE OwnFacts'
  <2>1. ASSUME NEW a \in Asgns, ProjectDemandFact(c, a) PROVE OwnFacts'
    <3>1. /\ entry[a] = "NONE" /\ inbox' = inbox
          /\ \A b \in Asgns : entry'[b] = IF b = a THEN "POOLED" ELSE entry[b]
          /\ \A d \in Consumers : /\ cpc'[d] = IF d = c THEN "ensure" ELSE cpc[d]
                                  /\ fact'[d] = IF d = c THEN a ELSE fact[d]
      BY <2>1 DEF ProjectDemandFact, TypeOK
    <3>2. a \notin inbox /\ \A d \in Consumers : cpc[d] # "idle" => fact[d] # a
      BY <3>1 DEF OwnFacts
    <3>3. (\A b \in Asgns : b \in inbox' => entry'[b] # "NONE")
          /\ (\A b \in Asgns : entry'[b] = "HELD" => b \in Holdable)
      BY <3>1 DEF OwnFacts
    <3>4. ASSUME NEW d \in Consumers, cpc'[d] # "idle"
          PROVE  /\ entry'[fact'[d]] # "NONE" /\ fact'[d] \notin inbox'
                 /\ \A b \in Consumers \ {d} : cpc'[b] # "idle" => fact'[b] # fact'[d]
      BY <1>a, <3>1, <3>2, <3>4 DEF OwnFacts
    <3>5. QED
      BY <3>3, <3>4 DEF OwnFacts
  <2>2. CASE EnsurePool(c) \/ CreatePool(c)
    <3>1. /\ UNCHANGED <<entry, inbox, fact>> /\ cpc[c] # "idle"
          /\ \A d \in Consumers \ {c} : cpc'[d] = cpc[d]
      BY <2>2 DEF EnsurePool, CreatePool, TypeOK
    <3>2. QED
      BY <3>1 DEF OwnFacts
  <2>3. CASE CountPooled(c)
    <3>1. CASE Return(c)
      BY <1>2, <2>3, <3>1 DEF CountPooled
    <3>2. CASE cpc' = [cpc EXCEPT ![c] = "trigger"] /\ UNCHANGED fact
      <4>1. /\ UNCHANGED <<entry, inbox, fact>> /\ cpc[c] # "idle"
            /\ \A d \in Consumers \ {c} : cpc'[d] = cpc[d]
        BY <2>3, <3>2 DEF CountPooled, TypeOK
      <4>2. QED
        BY <4>1 DEF OwnFacts
    <3>3. QED
      BY <2>3, <3>1, <3>2 DEF CountPooled
  <2>4. CASE TriggerLotSize(c)
    <3>1. fact[c] \notin inbox
      BY <2>4 DEF TriggerLotSize, OwnFacts
    <3>2. UNCHANGED <<entry, inbox, consumerVars>>
      BY <2>4, <3>1 DEF TriggerLotSize
    <3>3. QED
      BY <3>2, OwnFactsKept
  <2>5. CASE CommitLotSize(c)
    <3>1. cpc[c] # "idle" /\ Apply(c, fact[c]) /\ Return(c)
      BY <2>5 DEF CommitLotSize, Positions
    <3>2. QED
      BY <1>0, <1>1, <1>2, <3>1
  <2>6. CASE ConsumerFails(c)
    BY <1>2, <2>6 DEF ConsumerFails
  <2>7. QED
    BY <1>3, <2>1, <2>2, <2>3, <2>4, <2>5, <2>6 DEF ConsumerStep
<1>4. ASSUME NEW s \in Schedulers, SchedulerStep(s) \/ SchedulerFails(s) PROVE OwnFacts'
  <2>1. CASE CommitEffect(s)
    <3>1. firing[s] \in Timers /\ Apply(s, firing[s]) /\ UNCHANGED consumerVars
      BY <2>1 DEF CommitEffect, Positions, TypeOK
    <3>2. QED
      BY <1>0, <1>1, <3>1, OwnFactsKept
  <2>2. CASE \/ ClaimDueTimers(s) \/ FireNext(s) \/ ReadOldest(s) \/ RearmRemainder(s)
             \/ TriggerMaxWait(s) \/ CommitClaim(s) \/ SchedulerFails(s)
    <3>1. UNCHANGED <<entry, consumerVars>> /\ inbox' \subseteq inbox
      BY <2>2 DEF ClaimDueTimers, FireNext, ReadOldest, RearmRemainder, TriggerMaxWait,
                  CommitClaim, SchedulerFails
    <3>2. QED
      BY <3>1, OwnFactsKept
  <2>3. QED
    BY <1>4, <2>1, <2>2 DEF SchedulerStep
<1>5. ASSUME NEW k \in OpsTokens, ManualBatch(k) \/ CommitManual(k) \/ RequestFails(k) PROVE OwnFacts'
  <2>1. CASE CommitManual(k)
    <3>1. k \notin Asgns /\ Apply(k, k) /\ UNCHANGED consumerVars
      BY <2>1 DEF CommitManual
    <3>2. QED
      BY <1>0, <1>1, <3>1, OwnFactsKept
  <2>2. CASE ManualBatch(k) \/ RequestFails(k)
    BY <2>2, OwnFactsKept DEF ManualBatch, RequestFails
  <2>3. QED
    BY <1>5, <2>1, <2>2
<1>6. ASSUME NEW a \in Asgns, HoldRecord(a) \/ ReleaseRecord(a) \/ WithdrawReplacement(a) PROVE OwnFacts'
  <2>1. UNCHANGED <<inbox, consumerVars>>
    BY <1>6 DEF HoldRecord, ReleaseRecord, WithdrawReplacement
  <2>2. /\ \A b \in Asgns : entry'[b] = "NONE" => entry[b] = "NONE"
        /\ \A b \in Asgns : entry'[b] = "HELD" => entry[b] = "HELD" \/ b \in Holdable
    BY <1>6 DEF HoldRecord, ReleaseRecord, WithdrawReplacement, TypeOK
  <2>3. QED
    BY <1>a, <2>1, <2>2 DEF OwnFacts, consumerVars
<1>7. CASE Tick
  BY <1>7, OwnFactsKept DEF Tick
<1>8. QED
  BY <1>3, <1>4, <1>5, <1>6, <1>7 DEF Next


LEMMA AttendedStays ==
  ASSUME NEW c, cpc'[c] = cpc[c], tx'[c] = tx[c], Pooled' \subseteq Pooled, AtLot(c)
  PROVE  AtLot(c)'
<1>1. Pooled' \ tx'[c].claims \in SUBSET (Pooled \ tx[c].claims) /\ Pooled \ tx[c].claims \in SUBSET Asgns
  BY DEF Pooled
<1>2. LotPooled(Pooled' \ tx'[c].claims) => LotPooled(Pooled \ tx[c].claims)
  BY <1>1, LotShrinks
<1>3. InTx(c)' <=> InTx(c)
  BY DEF InTx
<1>4. QED
  BY <1>2, <1>3 DEF AtLot

LEMMA NextLotsAttended ==
  ASSUME Inv, NoBankLot, Holdable = {}, OwnFacts, LotsAttended, Next
  PROVE  LotsAttended'
<1> USE DEF Inv, vars, poolVars, timerVars, consumerVars, schedulerVars
<1> DEFINE Goal == \E c \in Consumers : AtLot(c)'
<1> SUFFICES ASSUME crashes' = 0, LotPooled(Pooled') PROVE Goal
  BY DEF LotsAttended, LotPooled, Requests
<1>0. Consumers \subseteq Procs /\ Schedulers \subseteq Procs /\ OpsTokens \subseteq Procs
  BY DEF Procs
<1>a. ASSUME NEW q, ConsumerFails(q) \/ SchedulerFails(q) \/ RequestFails(q) PROVE FALSE
  BY <1>a, FailuresCount
<1>1. ASSUME crashes = 0, Pooled' \subseteq Pooled
      PROVE  \E c \in Consumers : AtLot(c)
  <2>1. Pooled \in SUBSET Asgns /\ Pooled' \in SUBSET Pooled
    BY <1>1 DEF Pooled
  <2>2. LotPooled(Pooled)
    BY <2>1, LotShrinks
  <2>3. QED
    BY <1>1, <2>2 DEF LotsAttended
<1>2. ASSUME crashes = 0, Pooled' \subseteq Pooled,
             \A c \in Consumers : cpc'[c] = cpc[c] /\ tx'[c] = tx[c]
      PROVE  Goal
  <2>1. PICK c \in Consumers : AtLot(c)
    BY <1>1, <1>2
  <2>2. AtLot(c)'
    BY <1>2, <2>1, AttendedStays
  <2>3. QED
    BY <2>2
<1>3. ASSUME NEW p \in Procs, NEW e, Apply(p, e)
      PROVE  /\ crashes' = crashes /\ Pooled' \subseteq Pooled
             /\ \A c \in Consumers \ {p} : tx'[c] = tx[c]
  <2>1. crashes' = crashes /\ tx' = [tx EXCEPT ![p] = NoTx]
    BY <1>3 DEF Apply
  <2>2. \A c \in Consumers \ {p} : tx'[c] = tx[c]
    BY <1>0, <2>1 DEF TypeOK
  <2>3. Pooled' \subseteq Pooled
    BY <1>3, ApplyClears
  <2>4. QED
    BY <2>1, <2>2, <2>3
<1>4. ASSUME NEW c \in Consumers, ConsumerStep(c) PROVE Goal
  <2>1. ASSUME NEW a \in Asgns, ProjectDemandFact(c, a) PROVE Goal
    BY <2>1 DEF ProjectDemandFact, AtLot, TypeOK
  <2>2. CASE EnsurePool(c) \/ CreatePool(c)
    BY <2>2 DEF EnsurePool, CreatePool, AtLot, TypeOK
  <2>3. CASE CountPooled(c)
    <3>1. fact[c] \in Asgns /\ cpc[c] = "count" /\ Pooled' = Pooled
      BY <2>3 DEF CountPooled, TypeOK, Pooled
    <3>2. LotReached(fact[c])
      BY <3>1, LotIsThePool DEF LotReached, LotPooled
    <3>3. cpc'[c] = "trigger" /\ tx' = tx
      BY <2>3, <3>2 DEF CountPooled, TypeOK
    <3>4. ~InTx(c)'
      BY <3>1, <3>3 DEF Positions, InTx
    <3>5. QED
      BY <3>3, <3>4 DEF AtLot
  <2>4. CASE TriggerLotSize(c)
    <3>1. fact[c] \in Asgns /\ fact[c] \notin inbox
      BY <2>4 DEF TriggerLotSize, OwnFacts, TypeOK
    <3>2. TriggerBatch(c, "LOT_SIZE", Scope(fact[c]), {}) /\ cpc'[c] = "trigger" /\ Pooled' = Pooled
      BY <2>4, <3>1 DEF TriggerLotSize, Pooled
    <3>3. tx'[c].claims = Pooled
      BY <1>0, <3>1, <3>2, ScopeIsPooled, LotIsThePool, OpenedByTrigger DEF Reasons
    <3>4. Pooled' \ tx'[c].claims = {}
      BY <3>2, <3>3
    <3>5. ~LotPooled(Pooled' \ tx'[c].claims)
      BY <3>4, NoneIsNoLot
    <3>6. QED
      BY <3>2, <3>5 DEF AtLot, LotPooled, Requests
  <2>5. CASE CommitLotSize(c)
    <3>1. Apply(c, fact[c]) /\ Return(c) /\ InTx(c) /\ cpc[c] = "trigger"
      BY <2>5 DEF CommitLotSize, Positions
    <3>2. crashes' = crashes /\ Pooled' \subseteq Pooled /\ Pooled' = Pooled \ tx[c].claims
      BY <1>0, <1>3, <3>1, ApplyClears
    <3>3. PICK d \in Consumers : AtLot(d)
      BY <1>1, <3>2
    <3>4. d # c
      BY <3>1, <3>2, <3>3 DEF AtLot
    <3>5. cpc'[d] = cpc[d] /\ tx'[d] = tx[d]
      BY <1>0, <1>3, <3>1, <3>4 DEF Return, TypeOK
    <3>6. AtLot(d)'
      BY <3>2, <3>3, <3>5, AttendedStays
    <3>7. QED
      BY <3>6
  <2>6. QED
    BY <1>4, <2>1, <2>2, <2>3, <2>4, <2>5 DEF ConsumerStep
<1>5. ASSUME NEW s \in Schedulers, SchedulerStep(s) PROVE Goal
  <2>1. CASE CommitEffect(s)
    <3>1. Apply(s, firing[s]) /\ UNCHANGED consumerVars
      BY <2>1 DEF CommitEffect
    <3>2. QED
      BY <1>0, <1>2, <1>3, <3>1
  <2>2. CASE \/ ClaimDueTimers(s) \/ FireNext(s) \/ ReadOldest(s) \/ RearmRemainder(s)
             \/ TriggerMaxWait(s) \/ CommitClaim(s)
    <3>1. UNCHANGED <<entry, consumerVars, crashes>>
      BY <2>2 DEF ClaimDueTimers, FireNext, ReadOldest, RearmRemainder, TriggerMaxWait, CommitClaim
    <3>2. tx' = tx \/ tx' = [tx EXCEPT ![s] = tx'[s]]
      BY <1>0, <2>2 DEF ClaimDueTimers, FireNext, ReadOldest, RearmRemainder, TriggerMaxWait, CommitClaim,
                  SupersedeAndRearm, TriggerBatch, TypeOK
    <3>3. \A c \in Consumers : tx'[c] = tx[c]
      BY <1>0, <3>2 DEF TypeOK
    <3>4. QED
      BY <1>2, <3>1, <3>3 DEF Pooled
  <2>3. QED
    BY <1>5, <2>1, <2>2 DEF SchedulerStep
<1>6. ASSUME NEW k \in OpsTokens, ManualBatch(k) \/ CommitManual(k) PROVE Goal
  <2>1. CASE CommitManual(k)
    <3>1. Apply(k, k) /\ UNCHANGED consumerVars
      BY <2>1 DEF CommitManual
    <3>2. QED
      BY <1>0, <1>2, <1>3, <3>1
  <2>2. CASE ManualBatch(k)
    <3>1. UNCHANGED <<entry, consumerVars, crashes>>
      BY <2>2 DEF ManualBatch
    <3>2. Opened(k)
      BY <1>0, <2>2, ScopeIsPooled, OpenedByTrigger DEF ManualBatch, Reasons
    <3>3. \A c \in Consumers : tx'[c] = tx[c]
      BY <1>0, <3>2 DEF Opened, TypeOK
    <3>4. QED
      BY <1>2, <3>1, <3>3 DEF Pooled
  <2>3. QED
    BY <1>6, <2>1, <2>2
<1>7. ASSUME NEW a \in Asgns, HoldRecord(a) \/ ReleaseRecord(a) \/ WithdrawReplacement(a) PROVE Goal
  <2>1. WithdrawReplacement(a)
    BY <1>7 DEF HoldRecord, ReleaseRecord, OwnFacts
  <2>2. Pooled' \subseteq Pooled /\ UNCHANGED <<tx, cpc, crashes>>
    BY <2>1 DEF WithdrawReplacement, Pooled, TypeOK
  <2>3. QED
    BY <1>2, <2>2
<1>8. CASE Tick
  BY <1>2, <1>8 DEF Tick, Pooled
<1>9. QED
  BY <1>a, <1>4, <1>5, <1>6, <1>7, <1>8 DEF Next

LEMMA LotsInductive ==
  ASSUME NoBankLot, Holdable = {}
  PROVE  Inv /\ OwnFacts /\ LotsAttended /\ [Next]_vars => OwnFacts' /\ LotsAttended'
<1> SUFFICES ASSUME Inv, OwnFacts, LotsAttended, [Next]_vars PROVE OwnFacts' /\ LotsAttended'
  OBVIOUS
<1>1. CASE Next
  BY <1>1, NextOwnFacts, NextLotsAttended
<1>2. CASE UNCHANGED vars
  BY <1>2 DEF vars, poolVars, timerVars, consumerVars, schedulerVars, OwnFacts, LotsAttended, AtLot,
     LotPooled, Requests, InTx, Pooled
<1>3. QED
  BY <1>1, <1>2

(***************************************************************************)
(* No full lot is left behind, for any number of consumers, triggers and   *)
(* legs of one request: with no demand in hand and no handler failed, the  *)
(* requests still pooled are fewer than the minimum lot.  Nothing may be   *)
(* held: a release pools an entry and counts nothing.                      *)
(***************************************************************************)
THEOREM LotsLeave ==
  ASSUME NoBankLot, Holdable = {}
  PROVE  Spec => []NoFullLotLeftBehind
<1>1. Inv /\ LotsAttended => NoFullLotLeftBehind
  <2> SUFFICES ASSUME Inv, LotsAttended, crashes = 0, \A c \in Consumers : cpc[c] = "idle"
               PROVE  Cardinality(Requests(Pooled)) < MinLot
    BY DEF NoFullLotLeftBehind
  <2>1. ~LotPooled(Pooled)
    BY DEF LotsAttended, AtLot
  <2>2. Pooled \in SUBSET Asgns
    BY DEF Pooled
  <2>3. Cardinality(Requests(Pooled)) \in Nat
    BY <2>2, RequestsFinite, FS_CardinalityType
  <2>4. QED
    BY <2>1, <2>3 DEF LotPooled
<1>2. QED
  BY <1>1, InitLots, LotsInductive, Invariance, PTL DEF Spec
=============================================================================
