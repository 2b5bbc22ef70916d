# Verification of the soundbox dispatch platform

TLA+ models of the platform that takes a bank's order for a payment soundbox (or a paper
standee or sticker) to a delivered and activated device: a set of services that keep separate
database schemas and talk only through facts on Kafka. The modules here model the parts whose
correctness depends on interleavings, failures and the order of messages. TLC checks them on
small instances, and TLAPS proves the safety properties for every value of the constants.

File references are relative to the repository root; `fulfillment`, `tms`, `identity`,
`analytics` and `auth` are the directories `services/<name>/src`.

1. The system 2. What is modelled 3. Pool batching 4. Damage cases 5. The fact rail
6. Shipments 7. Composition, return sheets and close 8. Analytics rows 9. Order intake
10. The bank master 11. Runs and bounds 12. What is proved 13. What is only model-checked
14. What is not modelled 15. Disagreements between code and comments 16. Plan

## 1. The system

### 1.1 Components

| Component | State it keeps | Operations | Talks to |
|---|---|---|---|
| Bank file ingest (`tms/ingest.ts`, `ops.ts`) | `pending_row`, `quarantine_row` | commit a file, cure or close a held row | row fact to identity |
| Identity (`identity/project.ts`, `ops.ts`) | tenants, programs, merchants, enrolments | project a row fact, administrative edits | tenant, program, merchant, enrolment facts |
| Assignments (`tms/assignment.ts`, `ops.ts`) | `assignment`: demand state, activation, delivery | create from an enrolment, amend the address, activate, deactivate | demand and activation facts |
| Damage case (`tms/flag-damage.ts`, `damage-case.ts`) | `assignment.case_status`, `replacement_of` | flag, cancel, edit, project dispatch and shipment facts | linkage, cancellation, demand facts |
| Pool batching (`fulfillment/batching.ts`, `pool.ts`) | `pending_pool_entry.pool_status`, `batch_pool`, `batch`, `saga_timer` | pool a demand, trigger by lot size, by max wait or by hand, hold, release | batch fact |
| Dispatch composition (`fulfillment/dispatch.ts`, `package.ts`) | `pending_pool_entry.dispatch_state`, artifacts | compose a batch, send it to the vendor | dispatch facts |
| Return sheet (`fulfillment/return-sheet.ts`) | `unit`, `shpt`, `intake_exception` | pair devices, give birth to consignments | print-for, shipment, dispatch facts |
| Courier status (`fulfillment/courier-status.ts` and three doors) | `shpt.status`, its trail | advance a shipment, quarantine a row | shipment facts |
| Device lifecycle (`fulfillment/unit-lifecycle.ts`) | `unit.status`, `unit.activated_at`, its trail | follow parcels, activations, damage, withdrawals | consumes tms facts |
| Operator console (`fulfillment/ops.ts`) | all of fulfillment's | corrections, overrides, bulk delivery, exception resolution, batch close | |
| Analytics (`analytics/ingest.ts`, `project.ts`) | `raw_event`, `dispatch_row`, watermarks | ingest a fact and refold its dispatches, rebuild | consumes every fact |
| Auth (`auth/`) | principals, sessions, credentials, audit chain | sign-in, step-up, provisioning, append to the chain | consumes audit events |
| Fact rail (`packages/outbox`, `packages/bus`, `apps/relay`, `apps/consumer`) | outbox, inbox, topics, offsets | enqueue, relay, quarantine, consume once, retry, dead-letter | every service |
| Scheduler (`apps/scheduler`, `packages/engine`) | `saga_timer` claims | claim due timers and run their effect | pool batching |
| Edges and portals (`apps/*-edge`, `apps/*-portal`) | none that lasts | authorise and forward requests | the services |

Services never read each other's tables. An operation commits its state change and its outbox
row in one transaction (`enqueue`); a relay publishes the row; a consumer applies it together
with an inbox row (`onceWithin`), so that redelivery does nothing.

    bank file --> tms --row--> identity --enrolment--> tms --demand--> fulfillment
                                                                          |
         analytics <--every fact--+                  pool --batch--> compose --> vendor
                                  |                                               |
    tms <--dispatch, shipment-----+--------- courier <--consignment-- return sheet
     |                                                                    |
     +--linkage, cancellation, activation, deactivation--> device lifecycle

### 1.2 What is hard, and what makes each component correct

* **Pool batching.** Kafka consumers, overlapping schedulers and operators touch the same pool
  rows and timers, some under the pool's lock, some without it. A dispatch must be in exactly one
  batch, must be in none while held, and must not be forgotten: each pool needs a live timer
  whatever happens to the last one.
* **Damage case.** The decision is taken in tms and its consequences are in fulfillment. Facts
  about the same dispatch are on different topics and may overtake each other. Flag, cancel,
  activation, batch and delivery must leave the two services in agreement.
* **Fact rail.** Publishing and stamping, handling and committing an offset, are not atomic.
  Nothing committed may be lost, nothing may take effect twice, and neither a row that cannot be
  encoded nor a message nobody can handle may hold up those behind it.
* **Shipment.** Courier reports arrive through three doors, late and repeated; an operator
  corrects and overrides. The shipment must not regress, and its devices and legs must agree.
* **Dispatch composition and return sheet.** Partial failure row by row, sheets that arrive
  before the batch is sent, caps that are read without locks.
* **Intake.** Idempotency by file and by row, a duplicate gate read without a lock, a held row
  that one operator cures while another closes it, an enrolment that arrives before its row.
* **Analytics.** The projection claims that the online row equals a rebuild in any order of
  arrival; two ingests of one dispatch at once are where that is in doubt.
* **Identity.** Banks and aggregators are written by operators, by the rows of bank files and by
  a job, each with an unlocked read before its write, and every fact is composed from that read.
* **Auth.** A hash chain with one appender; sessions and step-up.

## 2. What is modelled

| Module | What it is | Instance | Theorems |
|---|---|---|---|
| `DispatchPool` | abstract: what a pending pool promises, without timers, locks or crashes | | |
| `Batching` | the pool as the code runs it; implements `DispatchPool` | `MCBatching` | `BatchingProofs` |
| `DamageCase` | a case and its replacement chain across tms and fulfillment | `MCDamageCase` | `DamageCaseProofs` |
| `FactDelivery` | abstract: what the rail promises its users | | |
| `FactRail` | outbox, relay, topic, retry ladder, consumer groups; implements `FactDelivery` | `MCFactRail` | `FactRailProofs` |
| `Shipment` | one parcel and its devices: reports of every door, corrections, the device's trail | `MCShipment` | `ShipmentProofs` |
| `Consignment` | one batch from composition over the return sheets to its close | `MCConsignment` | `ConsignmentProofs` |
| `AnalyticsRows` | the log of all facts and the dispatch rows folded from it | `MCAnalyticsRows` | `AnalyticsRowsProofs` |
| `OrderIntake` | bank files, holds, cures and closes in tms, merchants in identity, up to the order | `MCOrderIntake` | `OrderIntakeProofs` |
| `BankMaster` | banks and aggregators under operators, rows and the announcing job | `MCBankMaster` | `BankMasterProofs` |

The parts fit together as follows. `FactRail` says how one topic's facts travel;
`FactDelivery` is what is left of it for a user: a fact is accepted, takes effect at most once in
each group, in any order, or becomes a dead letter. Every module with consumers uses exactly that:
in `DamageCase` `facts` grow as `accepted` does and `inbox` as `applied` does; in `OrderIntake`
`projected`, `heard` and `joined` are inboxes; in `AnalyticsRows` `raw` is one.

An order's life passes through the modules in this order. `BankMaster` has the bank and the
aggregator a row resolves to; `OrderIntake` ends when `CreateAssignment` emits the demand;
`Batching` takes it from there to the batch; `Consignment` starts with `Compose`, which consumes
the batch fact, and ends with the close; `Shipment` is one of its parcels (`SettleShpt` there is
any of the doors here); `DamageCase` follows one dispatch across all of this, with `Hold` and
`FormBatch` its part in `Batching` in the form `DispatchPool` gives it, `ReturnSheet` its part in
`Consignment`, `CourierReports` and `OverrideTerminal` its part in `Shipment`; `AnalyticsRows`
hears what all of them say.

Conventions. A transaction whose reads are protected by the row locks it takes is one action.
Where the code reads without a lock and uses the answer later, or where two transactions follow
each other in one handler, there are two actions and any other process may come in between.
Identifiers are model values or small numbers; payloads, wording and trails are left out unless a
property is about them. A definition named `X_Fault` stands before the definition `X` it is a
mistaken form of; nothing uses it. It records a plausible bug (several are ones the repository's
own review notes describe as fixed) against which a property was tested.

## 3. Pool batching (`Batching`)

**State.** `entry` is `pool_status`; `age` and `waited` are the time since `created_at` and since
the entry last became POOLED; `pool` says whether the `batch_pool` anchor exists; `timer` and
`ttl` are the pool's `max_wait` rows and the time left to `fire_at`; `batches` are the batch facts
in the outbox; `tx` holds each process's open transaction (rows claimed, timers superseded,
timer armed), invisible to the others until it commits, while the rows it has locked are skipped
or waited for. `cpc`, `spc` say where a consumer or a scheduler is in its handler.

**Actions.**

| Code | Actions |
|---|---|
| `projectDemandFact`, then `onDemandAccrued` (routes.ts 200-227) | `ProjectDemandFact`, `EnsurePool`, `CreatePool`, `CountPooled`, `TriggerLotSize`, `CommitLotSize` |
| `claimAndFireDueTimers` with `runDueBatchTimers`'s effect | `ClaimDueTimers`, `FireNext`, `ReadOldest`, `RearmRemainder`, `TriggerMaxWait`, `CommitEffect`, `CommitClaim` |
| `manualBatch` | `ManualBatch`, `CommitManual` |
| `holdRecord`, `releaseRecord` | `HoldRecord`, `ReleaseRecord` |
| `projectReplacementCancelledToUnits`, the pool's part | `WithdrawReplacement` |
| a crash or a throw anywhere | `ConsumerFails`, `SchedulerFails`, `RequestFails` |
| time | `Tick`, while no handler is running |

The effect of a firing timer commits in its own transaction before the claim that locks the timer
does; so a crash in between fires the timer again, and the epoch in `inbox` absorbs it.

**Properties.**

* `ImplementsDispatchPool`: refinement. The abstract pool forbids what matters most: a dispatch in
  two batches, a batch of a held or withdrawn one, a batch fact without its entries.
  `DispatchInOneBatch` (a dispatch is BATCHED exactly when one batch fact announces it) and
  `HeldNeverSwept` (no trigger takes a held entry, not even one that counted it before) are also
  theorems of their own.
* `MaxWaitArmed`: once the anchor exists, some pending timer's firing is still to come.
* `DeadlineCovered`: when nothing is running, some timer wakes by each pooled entry's own
  deadline (when no bank has a lot size of its own, and nothing has crashed).
* `NoFullLotLeftBehind`: with no demand in hand, fewer than a lot of requests is pooled (under the
  same conditions, and when nothing is held: a release pools an entry and evaluates nothing).
* `PooledLeaves`: an entry pooled behind an anchor does not stay pooled for ever.

**Fairness.** Weak fairness of each consumer, of each scheduler, of an open manual transaction and
of time: Kafka redelivers an unfinished message, `runLoop` never returns, transactions have a
timeout. No fairness of operators, holds, withdrawals or crashes.

## 4. Damage cases (`DamageCase`)

**State.** `case`, `demand`, `activated`, `delivered` are columns of tms's `assignment`;
`cancelling` are cancel requests between their read and their write; `pool`, `stage`, `parcel`,
`unit`, `prior`, `live` are fulfillment's rows for the same dispatch. `facts` and `inbox` are what
has been published and consumed, in both directions. Dispatch `d + 1` replaces dispatch `d`; the
chain may be of any length.

**Actions.** Operators: `FlagDamage`, `CancelRead`, `CancelWrite`, `Activate`, `Deactivate`,
`UpdateCase`, `Hold`, `OverrideTerminal`. Fulfillment, vendor, courier: `FormBatch`,
`SendToVendor`, `ReturnSheet`, `CourierReports`. Consumers, one per route: `ProjectDemand`,
`ConsumeBatch`, `ProjectReplacement`, `ProjectCancelled`, `ProjectActivation`,
`ProjectDeactivation`, `ProjectDispatch`, `ProjectShipment`.

**Properties.**

* `Inv`, the inductive invariant, with two parts a reader would state alone. `BothHalvesClose`:
  when delivery and activation are both recorded the case is closed or was cancelled, whichever
  came second. `DemandMatchesActivation`: `demand_state` never contradicts `activated_at`, nor says
  that a replacement was raised when none is live.
* `OpenIsUnbatched`: once the news has arrived, an Open case's replacement is in no batch.
* `ReplacedDeviceWrittenOff`: once the news has arrived, a device with a live replacement is on a
  terminal branch, unless it was paired only after the flag (`late`): the linkage, consumed first,
  finds nothing to write off, and a device that comes with a later sheet goes out like any other.
* `RevivedOnlyByWithdrawal`: a written-off device comes back only by a withdrawn flag.
* `CancelUndoesFlag`, `DeactivatedIsNotLive`: a cancellation, a deactivation is carried through,
  when facts about one dispatch are consumed in the order they were published (`InOrder`).
* `CaseMovesForward`: only an operator's edit moves a case back.
* `DeliveredCaseCloses`: end to end, a delivered and activated replacement gets its case closed.

**Fairness.** Only of the consumers, whose loops never end. Operators, vendor and courier owe
nothing.

**Where `InOrder` matters.** The topics concerned are different, and a retried message is
overtaken, so the order is an assumption the rail does not guarantee. Read without it, the code
behaves thus, and the affected properties are stated only for `InOrder`:
a cancellation consumed before the demand fact leaves the withdrawn replacement in the pool; one
consumed before the linkage leaves the parent's device written off; a deactivation consumed before
the activation it undoes leaves the device live. An operator's edit to Cancelled, unlike a
cancellation, undoes nothing in fulfillment, which is why most properties are about cases no one
has edited; the runs let an operator set the two extremes, Open and Cancelled (`EditTo`), the
theorems any status.

## 5. The fact rail (`FactRail`)

**State.** `outbox`, `stamped`; per relay its claimed `batch`, what is `unsent` of it, and whether
its transaction has `expired`; `log`, the messages of each rung (0 is the base topic, the others
the retry topics); per group and rung the `position` reached and the offset `committed`; per
member the `task` in hand, `stale` once a rebalance has taken its partition away; `inbox`; `dead`,
the dead letters; `ran`, a history variable that counts effects.

**Actions.**

| Code | Actions |
|---|---|
| `enqueue` | `Enqueue`, in any order of `created_at` |
| `relayOnce` with `QuarantiningPublisher` | `Claim`, `PublishNext` (one per row), `Stamp` |
| Prisma's transaction timeout under a slow publish | `TimeOut`: the locks are free, the relay publishes on, the stamp has no effect |
| a relay that throws or dies | `RelayFails` |
| `runFactConsumer` | `Receive`, `Resolve` (the position moves; the offset is committed now or later) |
| `onceWithin` | `Begin`, `Commit`; a second holder of the same key waits |
| `makeLadder` | `Throw`, `Climb` (one rung up, or a dead letter) |
| rebalance, crash of a process | `Rebalance`: back to the committed offsets, the dead lose their task, the evicted go on with theirs |

A rung is one partition, the unit of Kafka's ordering. Broker and kafkajs are external to the
repository: `Resolve` and `Rebalance` say what the code relies on. `FromBeginning` is
`CONSUMER_FROM_BEGINNING`.

**Properties.**

* `NeverLost`: once a row is stamped, each group has applied it, has a copy of it ahead of its
  position on some rung, or has a dead letter to show for it.
* `Inv`, the inductive invariant, with `AppliedOnce`: an effect has committed exactly as often as
  its inbox row says, once.
* `Delivered`: every committed row is eventually applied in every group, or given up on in a dead
  letter; so a poison row or a hopeless message never blocks the others.
* `ImplementsFactDelivery`: refinement.

**Fairness.** Of each relay's loop, of each member's handling of what it has in hand, and, per
group and rung, of some member's receiving the next message. Producers, offset commits and
failures owe nothing.

**Observed, not claimed.** Nothing here promises order: two relays split the outbox with SKIP
LOCKED and may publish two facts of one key in either order, `created_at` is the start of a
transaction and not its commit, and a message that climbs is overtaken. The retry topics are
shared by all groups of a topic, so a failure in one group is seen again by the others (absorbed
by their inboxes). A batch of 100 sends that never fits into the transaction's timeout is
published again at every tick; fairness of the model speaks of finitely many timeouts. A message
whose bytes cannot be decoded throws outside the ladder (`packages/bus/src/consumer.ts:59`); the
model takes only what a relay can have encoded.

## 6. Shipments (`Shipment`)

One parcel and its devices. The courier scans the parcel at times of its own (`journey`); the
scans reach the platform by status file, webhook or an operator's upload, late, repeated and in
any order, but never before they happen. Return sheets and operators write with the platform's
clock (`now`), so the trail of a device, from which a withdrawn flag restores it, mixes two clocks.

**State.** `parcel` is `shpt.status` and `status_at`; `seen` the inbox of reports; `exceptions` the
open `courier_status_exception` rows; `facts` and `heard` the dedup keys emitted and the last status
a consumer took; `inside`, `unit`, `last` the devices with their status and the trail row that is
latest by `occurred_at`; `bulk` a bulk request between its listing and its write. `late`, `behind`,
`prior`, `repeated` are history.

| Code | Actions |
|---|---|
| `advanceShipmentStatus` through the three doors | `IngestStatus` (its guard is `Advances`, its devices `Follow`) |
| a row for an unknown parcel, courier or status; its resolution | `Quarantine`, `ResolveStatusException` |
| `correctStatus`, `correctUnitStatus`, `overrideTerminal` | `CorrectStatus`, `CorrectUnitStatus`, `OverrideTerminal` |
| `bulkDeliverBatch` | `ListForBulk`, `BulkDeliver` |
| the return sheet's row for a device | `PairDevice` |
| `projectReplacementToUnits`, `projectReplacementCancelledToUnits` | `FlagDamage`, `CancelDamage` |
| time | `Tick` |

**Properties.** `LatestWins`: a parcel nobody corrected by hand stands at the latest scan received,
so the guard on time and the guard on rank agree. `DevicesFollow`: a settled parcel takes its
devices with it. `HeardIsStatus`: the last status consumers took is the parcel's. `CancelRestores`:
a withdrawn flag gives back the status of before, if the sheet came before the first scan.
`WrittenOffStays`: only a withdrawal revives a device, also against a bulk delivery listed before
the damage. No liveness: nobody owes a report.

`JourneysClimb` is the assumption that a courier's own scans climb (except a failed attempt); a
courier that scans a lower rung later is refused by the rank guard, which is what the code wants.

## 7. Composition, return sheets and close (`Consignment`)

One batch, from the consumption of its batch fact to its close. A return sheet is one transaction
over several rows; it sees committed rows and its own, takes no row lock before it writes, and
waits only where it inserts a key another open transaction has inserted. So reading a row and
writing it are two actions, and two sheets interleave row by row.

**State.** `dispatchState`, `link` per dispatch; `batch`, `bound`; `asgnOf`, `shptOf`, `damaged` per
device; `shpt` per AWB; `tx` per sheet what it has written and not committed; `told`, `shptTold`,
`linkTold` the facts; `closing` a close between its read and its write.

| Code | Actions |
|---|---|
| `consumeBatchFact` | `Compose` |
| `sendBatchToVendor` | `SendBatchToVendor` |
| `correctDispatchState` | `CorrectDispatchState` |
| a return sheet: guards, writes, the advance at the end of the file | `OpenSheet`, `ReadRow` (`Accepts`), `WriteRow` (`Waits`, `KeyTaken`), `CommitSheet`, `AbortSheet` |
| the courier and damage facts | `SettleShpt`, `FlagDamage`, `CancelDamage` |
| `closeBatch` | `CloseRead`, `CloseWrite` (`DispatchSettled`) |

**Properties.** `ToldOnce`: every state of a dispatch is told once, by four writers together.
`ClimbsInOrder`: `dispatch_state` never regresses, and skips a step only by a correction.
`OneAwbInTurn`: one device and one parcel per dispatch as long as no two sheets are open at once;
without that proviso (`OneAwbPerDispatch`) it is refuted, section 15. `ClosedHasParcels`: a closed
batch has nothing the vendor never returned. Further parts of `Inv`: `ParcelsCarry` (no orphan
parcel), `LinkToldOnce`, `LegShipped` (a leg with a parcel has left the vendor unless its sheet
came before the send), `ShippedHasParcel`.

## 8. Analytics rows (`AnalyticsRows`)

**State.** `raw` is `raw_event`; `rows` is `dispatch_row`; `watermark`; `tx` the ingest each
consumer process has open. A fact carries its time; `Fold` is `foldAsgn`, a recursive function that
applies the relevant facts in that order whatever the order of arrival.

| Code | Actions and operators |
|---|---|
| `ingestEnvelope` | `Begin`, then for each affected dispatch `Refold` and `Upsert`, then `Commit`; or `Abort` |
| `affectedAsgns`, `foldAsgn`, `applyFact` | `Affected`, `Relevant` with `Fold`, `ApplyFact` |
| `rebuildDispatchRows` | `RebuildDispatchRows` |

**Properties.** `OnlineIsRebuild`: the row built online is the one a rebuild would build, except for
a dispatch refolded while another ingest was open (`stale`, until its next fact is ingested alone)
and for a device in a parcel with somebody's collateral (`Mixed`). The other three say what the fold
itself must give, of rows that are in step with the log: `CourierIsLatest` (the courier's columns
describe the row's own parcel), `DeliveredOnce` (DELIVERED exactly if the courier said so),
`WithdrawalsShow` (live, or replaced, exactly by the latest word).

**What the facts are.** `ProvenanceAssumption` says what the producers guarantee of a fact and the
columns rest on: the halves of a replacement name both dispatches, a device sheet is never about
collateral (`fulfillment/return-sheet.ts:411`), and an order's own fact is older than the
replacement of its dispatch and than the courier facts of a collateral leg, whose parcel needs the
dispatch first. The courier and the withdrawal columns hold for mixed parcels too: what a mixed
parcel loses is that a row is refolded at all, not what a fold computes.

## 9. Order intake (`OrderIntake`)

**State.** `pending`, `held`: `pending_row`, `quarantine_row`; `spent`, `tx`: the operators' keys
and their open ingests, each with the VPAs it has read; `said`, `projected`, `tenant`: identity's
merchants as the sequence of facts about them, and its inbox; `heard`, `known`, `joined`, `orders`:
tms's inboxes, `merchant_projection` and `assignment`.

| Code | Actions |
|---|---|
| `commitBankFile` | `UploadRead` (the seed of known VPAs), `UploadCommit` (`Repeats`) |
| `resolveQuarantineRow` | `CureRead`, `CureCommit` |
| `closeQuarantineRow` | `Close` |
| a crash | `Abort`; the same key may be sent again |
| identity's `projectRowFact` | `ProjectRow` |
| identity's `createMerchant` | `CreateMerchant` |
| `projectMerchantFact`, `projectTenantFact` | `ProjectMerchant`, `ProjectTenant` |
| `createAssignmentFromEnrollment` | `CreateAssignment` (`LegsOf`), retried until both are known |

**Properties.** `NoSecondSoundboxInTurn`: a soundbox row accepted while no other ingest was open is
the first for its VPA. `HoldsAnswered`: a hold reads cured only with its order, an open hold has
none. `RowsAccountedFor`: no row of an uploaded file is lost, whatever crashed. `ProjectionFollows`:
tms knows of a merchant what identity said last, as long as no fact overtook another.
`AcceptedBecomesOrder`: every accepted row becomes an order with all its legs. `ClosedIsArchived` is
refuted, section 15.

**Fairness.** Only of the consumers (`ProjectRow`, `ProjectMerchant`, `ProjectTenant`,
`CreateAssignment`), which the rail serves in the end. Operators owe nothing.

The merchant fact of one merchant has one partition key; a retried one may still be overtaken,
hence the proviso of `ProjectionFollows`.

## 10. The bank master (`BankMaster`)

**State.** `tenant`, `aggr` are the rows; `op` the open transaction of each operator's request, run
of the announcing job or row of a file, with what it has read; `told` the last fact about each;
`announced` the job's inbox. `stale`, `forked`, `renamed`, `loose`, `matched` are history: which
rows were written by transactions that had overlapped.

| Code | Actions |
|---|---|
| `createBankMaster`, `createAggregator` | `CreateBank`, `CreateAggregator`: one insert decides |
| `resolveTenant`, `resolveAggregator` | `RowMints`, `RowRead`, `RowLocks`, `RowInserts` |
| `editBankMaster` | `EditBankRead`, `EditBankWrite` (the lock of the tenant's row), `EditBankCommit` |
| `editAggregator` | `EditAggregatorRead` (`Refused`), `EditAggregatorCommit` |
| `announceDefaultAggregators` | `AnnounceRead`, `AnnounceCommit` |
| a refusal or crash | `Abort` |

Every UPDATE keeps what it does not name, while the fact is composed of what was read before; that
difference is what the properties are about.

**Properties.** `OneDefault`: one default aggregator per bank, bearing the bank's code, and one
aggregator per code. `CodeResolvesForGood`: a code a row has matched leads to the same aggregator
for good. `DefaultBearsName`: the default aggregator follows its bank's name. `LastWordTrue`: the
last fact about a row says what the row says. Each holds unless transactions about the same row
overlapped, and the history variable says exactly which overlap; section 15 lists what happens then.

## 11. Runs and bounds

| Run | Instance | What it shows |
|---|---|---|
| `batching` | 2 dispatches that are one bank row, lot of 1, window of 2 ticks, 1 consumer, 2 schedulers, 1 manual request, 1 hold, 1 withdrawal, 1 crash, 7 timer slots, fair | some timer is always armed; the refinement; pooled dispatches leave. A lot of 1 makes every demand trigger, so triggers, wakes and claims overlap |
| `batching_lot` | 3 dispatches, two of them one request, lot of 2, 2 consumers, 2 schedulers, 1 manual request, 1 withdrawal, no crash | deadlines are covered; counting without the pool lock leaves no full lot behind |
| `damage` | one replacement, either group, facts in any order, one activation, one override, fair consumers | what a flag, a batch and a withdrawal leave in both services; a delivered case closes |
| `damage_ordered` | one replacement with holds and one edit, facts of a dispatch in order | the inductive invariant; what a cancellation and a deactivation undo; no case moves back |
| `rail` | 2 relays with claims of 2 rows, 2 of 3 rows committed in any order, one poison and one hopeless, 1 group of 2 members, 1 retry rung, 1 failure, 1 throw, fair | safety, liveness and refinement of the rail |
| `shipment` | 1 device, a parcel delivered at the second attempt or one that comes back, 3 ticks, the second scan misread, 1 manual correction or bulk request, 1 override | the five properties of section 6 |
| `consignment` | 3 dispatches (a soundbox, a collateral and a combined leg), 2 devices, 2 AWBs, 2 sheets of 2 rows, 1 correction | the inductive invariant and the properties of section 7 |
| `consignment_cap` | the same | violation, section 15 |
| `analytics` | 9 facts about 3 dispatches (a device in one parcel, collateral in another, activated, deactivated and replaced), 2 ingesters | the four properties of section 8 |
| `intake` | 2 files with 4 rows, 2 operators' keys, 3 corrections (one for each held row, one under a new id), one merchant created by hand, fair consumers | the five properties of section 9 |
| `intake_closed` | the same | violation, section 15 |
| `bank` | 1 bank, 3 codes, 3 names, 3 aggregator ids, 3 requests, 2 rows | the four properties of section 10 |

Why these bounds are enough to be interesting. Every hazard of the components involves one
dispatch, or two in the same pool, batch or parcel, and at most two processes that overlap; the
bounds let each of them happen, in combination with one failure. A second replacement adds a second
pair with the same relation between its members. Two rows are what one claim, one poison neighbour
and one overtaking need, and two members are what an eviction needs. Two sheets of two rows let a
sheet meet itself and another one; two devices, two AWBs are what a broken cap needs. Nine facts
hold every topic on which a column depends, with both halves of each withdrawal. Three requests let
two edits overlap and a third act on the result. The bounds are constants (`MaxCrashes`,
`MaxToggles`, `MaxEdits`, `MaxOverrides`, `MaxManual`, `MaxCorrections`, `MaxTime`, `MaxRows`,
`MaxThrows`, `Depth`, the number of `Timers`, and the finite sets) and the proofs hold for every
value of them. `Timers` deserves a word: a row of `saga_timer` is a slot, reused once settled, and
an arm waits for a free slot. Seven slots are more than the instances use at any time; with three
dispatches, two schedulers, a window of one tick and a crash TLC reaches a state with seven pending
rows, so the number of timers that can pile up grows with the number of overlapping arms and there
is no bound to prove.

Every passing run reaches its bound on states without an error; the largest, `damage_ordered`, has
3.3 million distinct states, the others between 270 thousand and 2.3 million. Symmetry is used only
in `consignment`, `analytics` and `bank`, where sheets, devices, AWBs, processes, ids or requests are
interchangeable and no property is a liveness property. `CHECK_DEADLOCK FALSE` stands where the
system really stops: when nobody requests anything more, all facts have been consumed and all bounds
are spent there is nothing to do. `Batching` always has time to pass and `AnalyticsRows` can always
be rebuilt; they are checked for deadlock.

Each property has a mutated definition under which its run fails: for instance a trigger that
does not re-arm the pool's timer (`MaxWaitArmed`), a full window where the remainder belongs
(`DeadlineCovered`), a write-off aimed at the replacement (`ReplacedDeviceWrittenOff`), a stamp
before the last publish (`NeverLost`), a courier guard without the time (`LatestWins`), a sheet row
that is not compared with the persisted devices (`OneAwbInTurn`), a fold that skips deactivations
(`WithdrawalsShow`), a cure that stamps a hold whose correction was refused (`HoldsAnswered`), a row
that matches a code and does not lock it (`CodeResolvesForGood`).

## 12. What is proved

All proofs are for arbitrary sets of processes, dispatches, facts, files, devices and any bounds;
the only assumptions are the named ones in the modules: that constants have the types their
comments give, that the identifiers of different kinds are different, that sets that are counted are
finite (`ConstantsAssumption`, `DisjointAssumption`, `MasterAssumption`), that a courier's scans
climb (`JourneysClimb`), that no two facts have the same place in time (`FactsAssumption`, where a
place stands for `(occurred_at, envelope_id)`), what a fact says by its topic
(`ProvenanceAssumption`, section 8), that an id names one row (`RowsAssumption`). Every invariant
and action property that a passing run checks is also a theorem, and so are both refinements. Five
theorems have a hypothesis on the instance, without which the code does not keep the property
(`InOrder`, `FromBeginning`, `NoBankLot`, nothing `Holdable`).

**`BatchingProofs`.** The invariant `Inv` adds `Locks` and `Positions` to the types and two
properties. `DispatchInOneBatch` alone is not inductive: a commit would have to know that the rows
it claims are still POOLED, which is so because they have been locked since (`Locks`). Likewise
`MaxWaitArmed` at a commit needs to know that a transaction that supersedes timers also arms one,
that no one else is about to arm the same slot, and that a firing timer belongs to its claim.
`Positions` ties a transaction to the place of its process in the code, so that a scheduler's
commit is known to arm.

Two more invariants stand beside `Inv`, for a pool that is one lot (`NoBankLot`: section 15 says
what a lot of a single bank does to the others). `Deadlines` has to speak of every state, and not
only of those at rest: no open transaction, and no early wake that is about to open one, leaves
behind an entry that its new timer would not reach in time (`LeftInTime`, `RestInTime`); an entry
pooled after the statements have run has not waited, since the clock stands still while a handler
runs; and before the anchor exists nobody has waited, as the first demand's handler is not done
(`AnchorComing`). `LotsAttended` is about counting without the pool lock: while a full lot is
pooled, some consumer has yet to count, or is at its trigger and has not claimed, or has claimed so
much that less than a lot remains. It needs `OwnFacts`: each consumer handles a fact no trigger has
consumed, so that no trigger of its own is refused as a repetition. The count is a cardinality, and
the only thing the proof needs of it is that fewer entries make no more requests. With a lot
of its own for one bank TLC refutes both properties on the instance of `batching_lot`, with a hold
and a release the second.

Theorems: `TypeCorrect`, `Invariance`, `OneBatchEach`, `NeverDisarmed`, `DeadlinesMet`,
`LotsLeave`, `HeldIsSafe` (an action property) and `Refinement` (`Spec => Promise!Spec`).

**`DamageCaseProofs`.** `Inv` adds `Causality` (no row and no fact about a dispatch that was not
minted; a parcel, a stage or a batch fact only of a batched one) and `News` (once batched, the
batch fact is out; once it is consumed the artwork's fact is out; once that is consumed the case
has left Open; a cancellation in flight is about a case that is cancelled). `OpenMeansUnbatched`
follows from `News` when all facts are consumed. `Linkage` says what each fact about a
replacement has left behind once consumed: the demand an entry, the linkage a device written off,
the cancellation, provided it came last, neither of the two. `Toggled` numbers the activations: a
dispatch has told one more activation than deactivations exactly while it is active, and a live
device has an activation consumed whose deactivation is not. With everything consumed they give
`ReplacedDeviceWrittenOff` for any order of facts, and `CancelUndoesFlag` and
`DeactivatedIsNotLive` under the hypothesis `InOrder` (`FlagUndone`, `DeactivationArrives`), which
section 4 shows they need. Theorems: `Invariance`, `HalvesMeet`, `DemandAgrees`,
`OpenMeansUnbatched`, `WrittenOff`, `FlagUndone`, `DeactivationArrives`, and the action properties
`NeverBack` and `StaysWrittenOff`.

**`FactRailProofs`.** `Inv` is made of `Sources` (only committed rows travel; what is stamped or
sent is on the base topic or quarantined), `Ownership` (an active member is at its group's
position on its rung, alone), `Progress` (what a group has passed, or a member is done with, is
applied, dead or kept higher up) and `OneEffect` (whoever is applying a fact is alone and first).
`NeverLost` follows from `Sources` and `Progress`; that `Progress` survives a position's advance
rests on `Ownership`, and that it survives a rebalance on `FromBeginning`, which is why
`LosesNothing` has it as a hypothesis (section 15 says what happens otherwise). Theorems:
`Invariance`, `LosesNothing`, `EffectivelyOnce`, `Refinement`.

**`ShipmentProofs`.** `LatestWins` says nothing of an empty `seen` and nothing of what a report
says; `Reported` adds both. `CancelRestores` needs `TrailKept`: for a device whose sheet came
before the first scan, the latest trail row is its status, or the one it had when it was flagged,
and no scan to come is dated before it. `LatestWins` itself is the place where `JourneysClimb` is
used: a later scan that does not advance the rank does not exist. Theorems: `Invariance`,
`LatestReportWins`, `DevicesFollowParcel`, `ConsumersHear`, `WithdrawalRestores`, `WrittenOffForGood`.

**`ConsignmentProofs`.** `Inv` adds what an open sheet holds. `Held`: the keys it has inserted are
its own, which makes `LinkToldOnce` survive two sheets that race for one link. `Shapes`, `Paired`,
`Reports`: what it writes has the shape of its group, and what it covers it has reported, which
`LegShipped` rests on. `CloseSound`: parcels are never taken back, so a close that has read them may
write. `Alone`: while no sheets have overlapped, a sheet still sees what it read, hence
`OneAwbInTurn`, `ParcelsCarry` and `ShippedHasParcel`. Theorems: `Invariance` and one for each
property, among them `ToldOnceHolds`, `ClosedHasParcelsHolds`, `ClimbsInOrderHolds`.

**`AnalyticsRowsProofs`.** `Invariance` and `OnlineIsRebuildHolds`. The argument: what a fact does
not affect it does not make relevant either (a lemma, which fails exactly for a mixed parcel), and
an ingest that was alone has folded the log it leaves (`SeesAll`). Up to here the fold itself is
left uninterpreted, so the theorem holds for any reducer.

What the columns show is a property of the fold. `FoldIsTurns` lays the fold out as a sequence of
turns, one for each relevant fact in the order of time, and `ColumnsHold` shows by induction that
after each turn the columns are right for the facts folded so far; `ColumnsStep` has one case for
each kind of fact. The induction is over a set: among the turns at which the columns would be wrong
there would be a first one (`NatMin`), since the order of the naturals is well founded. Where it
matters that one fact comes before another (an order before its replacement, a courier's fact after
its leg's order) `ProvenanceAssumption` says so. Theorems: `CourierIsLatestHolds`,
`DeliveredOnceHolds`, `WithdrawalsShowHold`.

**`OrderIntakeProofs`.** `RowsInPlace` (a row is found under its own id; a file leaves no trace
before it commits), `SeedsCurrent` (an ingest nobody overtook has read every VPA there is, but its
own) and `CuresAimed` (a correction aims at its hold or at an id nobody uses). Theorems:
`Invariance`, `GateHolds`, `CureIsACure`, `NothingLost`, `ProjectionIsFaithful` (an action
property, about intervals of fact numbers).

**`BankMasterProofs`.** `Kinds` (a transaction has the shape of its kind), `Guarded` (an edit of a
code was not refused; a code that matched is locked unless it is in `loose`) and `OneWriter` (one
edit of a tenant writes at a time, and has read the default aggregator as it still is). Theorems:
`Invariance`, `DefaultsAreOne`, `CodesResolve`, `NamesFollow`, `LastWords`.

## 13. What is only model-checked

* Liveness (`PooledLeaves`, `DeliveredCaseCloses`, `Delivered`, `AcceptedBecomesOrder`): the prover
  does not deal with fairness and ENABLED.
* `OneAwbPerDispatch` and `ClosedIsArchived`, which the code contradicts: TLC shows how (section 15).

## 14. What is not modelled

Read models, analytics reads and exports, which change nothing; the portals and the HTTP edges,
whose refusals appear as guards where they matter; rendering, storage and spreadsheet parsing, which
are I/O and formatting; authorisation, which is a stateless evaluation; sessions and credentials,
which meet the dispatch logic only in a verified principal; the audit chain, whose appender holds one
advisory lock; vendor master data; the saga engine apart from its timers, which no service uses;
identifier and envelope encodings, where a model takes the value.

Of the parts that are modelled, these operations are not: the intake of devices by serial, which
ends before a device is paired; the recomposition of one artifact and the vendor's pull; the
amendment of a delivery address and the edits of a program's product; edits of the lot sizes between
two triggers (a run has one configuration); the activation and unit-status files, which loop over
operations that are modelled one by one; exceptions other than courier rows; shared retry topics of
two groups. The portals and the edges are more than half of the code and hold no state of their own,
which is why the models cover a small share of its lines.

Hazards that no property covers are listed with the code lines where they bite in `PROJECT.json`.

## 15. Disagreements between code and comments

Shown by a run that TLC refutes:

1. `consignment_cap`: the cap of one device per dispatch is a read without a lock
   (`fulfillment/return-sheet.ts:481`). Two sheets processed at once each miss the other's device,
   and the dispatch ends with two devices in two parcels; the comments at lines 453 and 474 state
   the cap of D-13 without such a proviso.
2. `intake_closed`: `resolveQuarantineRow` ingests the correction (`tms/ops.ts:460`) before its
   UPDATE asks whether the hold is still open, and nothing undoes the ingest when it is not. A row
   that another operator has closed becomes an order, while the archive says it did not. The comment
   at 438 says that a correction that was not a cure did not land, the ones at 502 and 516 that a
   closed row ingests nothing and that the race with a cure is safe.

Met while modelling, without a run of their own:

* A batch of one bank re-arms a full window although other banks' entries stay pooled
  (`fulfillment/batching.ts:429`), so one may wait almost two windows; the comment at line 622 says
  that the sweep lands within a tick of the entry's own deadline.
* The first demand of a pool commits before the anchor exists (`apps/consumer/src/routes.ts:214`);
  after a crash in between the redelivery returns early, and the entry stays pooled with no anchor
  and no timer until another demand comes; `batching.ts:28` says the anchor is always created first.
  A crash at the same place also leaves a full lot unevaluated, until its max wait.
* Once a flag was cancelled the parent can never be flagged again, since the tip gate counts the
  cancelled replacement (`tms/flag-damage.ts:269`, against the comment at 540).
* A soundbox delivery set by an operator's override names no assignment, so tms never hears it and
  the case of an activated replacement stays open (`fulfillment/ops.ts:389`, against
  `tms/damage-case.ts:282`).
* With the default `CONSUMER_FROM_BEGINNING` a group without a committed offset starts at the end
  of its partition and skips a message that was in flight (`apps/consumer/src/main.ts:103`, against
  the at-least-once of `packages/outbox/src/relay.ts:43`).
* A device paired by a sheet that came after the courier's first scan, flagged and restored, goes
  back to DISPATCHED although it was delivered: its trail is ordered by `occurred_at`
  (`fulfillment/unit-lifecycle.ts:444`, against the comment at 411).
* The courier facts of a parcel that carries a device and somebody's collateral are flagged
  collateral (`fulfillment/courier-status.ts:242`), do not refold the device's row
  (`analytics/project.ts:518`) and never show it delivered, against `project.ts:555`.
* `manualBatch`, a lot and an early wake may each leave a timer of their own, contrary to "exactly
  one" at `batching.ts:148`; a MAX_WAIT batch decided on an old entry that was taken meanwhile may
  consist of fresh entries only.
* A cancel whose read was overtaken can overwrite a Closed case; the comment in `tms/ops.ts` that a
  deactivation emits no fact is out of date.
* Correcting all dispatches of a batch by hand makes its send refuse for ever, with no vendor bound.
  `recomposeArtifact` reads the prior version without a lock, so two calls can leave two current
  artifacts (`fulfillment/ops.ts:766`, against the comment at 819). A sheet read late attaches
  devices to a parcel that has settled.
* Two sheets, or two status files, that name the same rows in opposite orders deadlock in the
  database; the loser is uploaded again.
* The watermark of a topic takes the time of whatever fact came last and may go back
  (`analytics/watermark.ts:13`).
* An order's snapshot may carry an older name of its merchant, if a newer fact is still on its way.
  A cure counts its row again in `ingest_file.row_total`.
* Overlapping edits of a bank or an aggregator announce each other's old values; two overlapping
  renames leave the default aggregator with the first name; a code edit that has read before a row
  locked the code changes it all the same (`identity/ops.ts:1067`), and a row whose insert loses
  against an operator's leaves the code unlocked. A default aggregator may stay SUSPENDED under an
  ACTIVE tenant (comment at 1000). An announcing run that overlaps an edit announces the state of
  before, against "can only make the projection more correct" in `announce.ts`. The fact of a
  tenant minted by a row names the reference of the row, the tenant's row its own code, where the
  two differ (`identity/project.ts:325`).

## 16. Plan

1. `FactRail` with two groups that fail differently on a shared ladder, and its composition with
   `DamageCase` over `FactDelivery`, so that the assumption `InOrder` becomes a statement about
   the rail.
2. The recomposition of one artifact and the vendor's pull in `Consignment`.
3. The intake of devices, so that a device's life begins where `Shipment` now assumes it in stock.
4. Edits of the lot sizes and windows between two triggers in `Batching`.
