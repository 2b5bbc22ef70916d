------------------------------ MODULE FactRail ------------------------------
(***************************************************************************)
(* How one topic's facts get from the producing context's outbox to the    *)
(* inboxes of the consumer groups: packages/outbox (enqueue, relayOnce,    *)
(* onceWithin), apps/relay (the quarantining publisher), the retry ladder  *)
(* of apps/consumer and packages/bus.                                      *)
(*                                                                         *)
(* Relay processes claim rows, publish them one at a time and stamp them;  *)
(* a transaction that ends early leaves its publications behind.  The      *)
(* members of a consumer group handle a message, move it one rung up when  *)
(* its handler throws, and then advance the group's position.  Positions   *)
(* are committed now or later, and a rebalance goes back to the committed  *)
(* ones while an evicted member is still at work.                          *)
(*                                                                         *)
(* A rung is one partition, the unit of Kafka's ordering; what the broker  *)
(* and kafkajs do (an append, a position, a rebalance) is external.        *)
(***************************************************************************)
EXTENDS Naturals, Sequences, FiniteSets

CONSTANTS
    Facts,      \* outbox rows of the topic, numbered by created_at
    Poison,     \* those whose payload is not an envelope
    Hopeless,   \* those whose handlers always throw
    Relays,     \* relay processes
    BatchSize,  \* rows of one claim
    Groups,     \* consumer groups subscribed to the topic
    Members,    \* their processes
    GroupOf,
    Levels,     \* retry rungs
    FromBeginning, \* where a group that never committed an offset starts
    Relay,      \* in a dead letter, the relay's quarantine instead of a group
    MaxRows,    \* bound on the rows committed
    MaxCrashes, \* bound on failed relay transactions and rebalances
    MaxThrows   \* bound on throws of handlers that may succeed later

ASSUME ConstantsAssumption ==
    /\ Facts \subseteq Nat
    /\ Poison \subseteq Facts /\ Hopeless \subseteq Facts
    /\ GroupOf \in [Members -> Groups]
    /\ Relay \notin Groups /\ FromBeginning \in BOOLEAN
    /\ BatchSize \in Nat \ {0} /\ Levels \in Nat
    /\ MaxRows \in Nat /\ MaxCrashes \in Nat /\ MaxThrows \in Nat
    /\ IsFiniteSet(Facts)

Rungs == 0..Levels   \* 0 is the base topic

VARIABLES
    outbox,     \* committed outbox rows
    stamped,    \* those with published_at set
    batch,      \* rows a relay's transaction has claimed, {} between ticks
    unsent,     \* those of them it has yet to publish
    expired,    \* the transaction has timed out under the relay
    log,        \* the messages of each rung
    dead,       \* dead letters: who gave up on which fact
    position,   \* messages of a rung a group is past
    committed,  \* the group's committed offset of the rung, 0 for none
    task,       \* the message each member is handling
    inbox,      \* inbox rows: <<group, fact>>
    ran,        \* history: times the effect of a fact committed in a group
    crashes, throws

relayVars == <<outbox, stamped, batch, unsent, expired>>
offsetVars == <<position, committed>>
effectVars == <<inbox, ran>>
bounds == <<crashes, throws>>
vars == <<relayVars, log, dead, offsetVars, task, effectVars, bounds>>

-----------------------------------------------------------------------------
Idle == [pc |-> "idle", rung |-> 0, fact |-> 0, stale |-> FALSE]
Tasks == [pc : {"received", "applying", "thrown", "done"}, rung : Rungs,
          fact : Facts, stale : BOOLEAN]

TypeOK ==
    /\ outbox \subseteq Facts /\ stamped \subseteq Facts
    /\ batch \in [Relays -> SUBSET Facts]
    /\ unsent \in [Relays -> SUBSET Facts]
    /\ expired \in [Relays -> BOOLEAN]
    /\ log \in [Rungs -> Seq(Facts)]
    /\ dead \subseteq (Groups \cup {Relay}) \X Facts
    /\ position \in [Groups -> [Rungs -> Nat]]
    /\ committed \in [Groups -> [Rungs -> Nat]]
    /\ task \in [Members -> Tasks \cup {Idle}]
    /\ inbox \subseteq Groups \X Facts
    /\ ran \in [Groups \X Facts -> Nat]
    /\ crashes \in 0..MaxCrashes /\ throws \in 0..MaxThrows

Init ==
    /\ outbox = {} /\ stamped = {}
    /\ batch = [r \in Relays |-> {}]
    /\ unsent = [r \in Relays |-> {}]
    /\ expired = [r \in Relays |-> FALSE]
    /\ log = [q \in Rungs |-> <<>>]
    /\ dead = {}
    /\ position = [g \in Groups |-> [q \in Rungs |-> 0]]
    /\ committed = position
    /\ task = [m \in Members |-> Idle]
    /\ inbox = {}
    /\ ran = [e \in Groups \X Facts |-> 0]
    /\ crashes = 0 /\ throws = 0

Crash == crashes < MaxCrashes /\ crashes' = crashes + 1
Send(q, f) == log' = [log EXCEPT ![q] = Append(@, f)]

-----------------------------------------------------------------------------
(* Producers and the relay.                                                *)

(* enqueue: the row commits with the state change, in any order of         *)
(* created_at, which is the start of its transaction.                      *)
Enqueue(f) ==
    /\ f \notin outbox /\ Cardinality(outbox) < MaxRows
    /\ outbox' = outbox \cup {f}
    /\ UNCHANGED <<stamped, batch, unsent, expired, log, dead, offsetVars, task,
                   effectVars, bounds>>

Locked == UNION {batch[r] : r \in {x \in Relays : ~expired[x]}}

(* The claim of relayOnce: the oldest unstamped rows nobody holds          *)
(* (FOR UPDATE SKIP LOCKED), at most a batch of them.                      *)
Claim(r) ==
    LET free == (outbox \ stamped) \ Locked IN
    /\ batch[r] = {}
    /\ \E S \in SUBSET free :
          /\ S # {} /\ Cardinality(S) <= BatchSize
          /\ Cardinality(S) = BatchSize \/ S = free
          /\ \A f \in S, h \in free \ S : f < h
          /\ batch' = [batch EXCEPT ![r] = S]
          /\ unsent' = [unsent EXCEPT ![r] = S]
    /\ UNCHANGED <<outbox, stamped, expired, log, dead, offsetVars, task, effectVars,
                   bounds>>

(* The bare KafkaPublisher: a row that cannot be encoded throws.           *)
PublishNext_Fault(r) ==
    \E f \in unsent[r] :
        /\ \A h \in unsent[r] : f <= h
        /\ unsent' = [unsent EXCEPT ![r] = @ \ {f}]
        /\ f \notin Poison /\ Send(0, f) /\ UNCHANGED dead
        /\ UNCHANGED <<outbox, stamped, batch, expired, offsetVars, task, effectVars,
                       bounds>>

(* QuarantiningPublisher: the next row goes to its topic, or to the DLQ    *)
(* when it can never be encoded.                                           *)
PublishNext(r) ==
    \E f \in unsent[r] :
        /\ \A h \in unsent[r] : f <= h
        /\ unsent' = [unsent EXCEPT ![r] = @ \ {f}]
        /\ \/ f \notin Poison /\ Send(0, f) /\ UNCHANGED dead
           \/ f \in Poison /\ dead' = dead \cup {<<Relay, f>>} /\ UNCHANGED log
        /\ UNCHANGED <<outbox, stamped, batch, expired, offsetVars, task, effectVars,
                       bounds>>

Release(r) ==
    /\ batch' = [batch EXCEPT ![r] = {}]
    /\ unsent' = [unsent EXCEPT ![r] = {}]
    /\ expired' = [expired EXCEPT ![r] = FALSE]

(* Stamping what has been claimed before it has all been published.        *)
Stamp_Fault(r) ==
    /\ batch[r] # {}
    /\ stamped' = IF expired[r] THEN stamped ELSE stamped \cup batch[r]
    /\ Release(r)
    /\ UNCHANGED <<outbox, log, dead, offsetVars, task, effectVars, bounds>>

(* The rows are stamped and the claim commits, unless the transaction is   *)
(* gone already.                                                           *)
Stamp(r) ==
    /\ batch[r] # {} /\ unsent[r] = {}
    /\ stamped' = IF expired[r] THEN stamped ELSE stamped \cup batch[r]
    /\ Release(r)
    /\ UNCHANGED <<outbox, log, dead, offsetVars, task, effectVars, bounds>>

(* The database ends a transaction that has lasted too long: its locks are *)
(* free again while the relay goes on publishing.                          *)
TimeOut(r) ==
    /\ batch[r] # {} /\ ~expired[r]
    /\ expired' = [expired EXCEPT ![r] = TRUE]
    /\ Crash
    /\ UNCHANGED <<outbox, stamped, batch, unsent, log, dead, offsetVars, task, effectVars,
                   throws>>

(* The broker is unreachable or the relay dies: the transaction rolls back.*)
RelayFails(r) ==
    /\ batch[r] # {}
    /\ Release(r)
    /\ Crash
    /\ UNCHANGED <<outbox, stamped, log, dead, offsetVars, task, effectVars, throws>>

-----------------------------------------------------------------------------
(* The consumer groups.                                                    *)

Busy(m) == task[m].pc # "idle"
Active(m) == Busy(m) /\ ~task[m].stale
Effect(m) == <<GroupOf[m], task[m].fact>>
Become(m, pc) == task' = [task EXCEPT ![m].pc = pc]

(* A member takes the next message of a rung no other member is at.        *)
Receive(m, q) ==
    LET g == GroupOf[m]  next == position[g][q] + 1 IN
    /\ ~Busy(m)
    /\ \A o \in Members : GroupOf[o] = g /\ Active(o) => task[o].rung # q
    /\ next <= Len(log[q])
    /\ task' = [task EXCEPT ![m] = [pc |-> "received", rung |-> q,
                                    fact |-> log[q][next], stale |-> FALSE]]
    /\ UNCHANGED <<relayVars, log, dead, offsetVars, effectVars, bounds>>

(* A transaction waits for another that has inserted the same inbox key.   *)
KeyFree(e) == \A o \in Members : task[o].pc = "applying" => Effect(o) # e

(* Reading the inbox, then applying the effect, without holding the key.   *)
Begin_Fault(m) ==
    /\ task[m].pc = "received" /\ task[m].fact \notin Hopeless
    /\ Become(m, IF Effect(m) \in inbox THEN "done" ELSE "applying")
    /\ UNCHANGED <<relayVars, log, dead, offsetVars, effectVars, bounds>>

(* onceWithin: insert the inbox row or find the fact already handled.      *)
Begin(m) ==
    /\ task[m].pc = "received" /\ task[m].fact \notin Hopeless
    /\ KeyFree(Effect(m))
    /\ Become(m, IF Effect(m) \in inbox THEN "done" ELSE "applying")
    /\ UNCHANGED <<relayVars, log, dead, offsetVars, effectVars, bounds>>

(* The effect and the inbox row commit together.                           *)
Commit(m) ==
    /\ task[m].pc = "applying"
    /\ inbox' = inbox \cup {Effect(m)}
    /\ ran' = [ran EXCEPT ![Effect(m)] = @ + 1]
    /\ Become(m, "done")
    /\ UNCHANGED <<relayVars, log, dead, offsetVars, bounds>>

(* The handler throws, and whatever it had open rolls back.                *)
Throw(m) ==
    /\ task[m].pc \in {"received", "applying"}
    /\ \/ task[m].fact \in Hopeless /\ UNCHANGED throws
       \/ task[m].fact \notin Hopeless /\ throws < MaxThrows /\ throws' = throws + 1
    /\ Become(m, "thrown")
    /\ UNCHANGED <<relayVars, log, dead, offsetVars, effectVars, crashes>>

(* A dead letter at the last rung that nobody writes.                      *)
Climb_Fault(m) ==
    LET q == task[m].rung  f == task[m].fact IN
    /\ task[m].pc = "thrown"
    /\ IF q < Levels THEN Send(q + 1, f) ELSE UNCHANGED log
    /\ Become(m, "done")
    /\ UNCHANGED <<relayVars, dead, offsetVars, effectVars, bounds>>

(* makeLadder's catch: one rung up, or the DLQ after the last.             *)
Climb(m) ==
    LET q == task[m].rung  f == task[m].fact IN
    /\ task[m].pc = "thrown"
    /\ \/ q < Levels /\ Send(q + 1, f) /\ UNCHANGED dead
       \/ q = Levels /\ dead' = dead \cup {<<GroupOf[m], f>>} /\ UNCHANGED log
    /\ Become(m, "done")
    /\ UNCHANGED <<relayVars, offsetVars, effectVars, bounds>>

(***************************************************************************)
(* eachMessage returns and the partition moves on; kafkajs commits the     *)
(* offset at once or with a later message's.  An evicted member no longer  *)
(* owns the partition, and its commit is refused.                          *)
(***************************************************************************)
Resolve(m) ==
    LET g == GroupOf[m]  q == task[m].rung  past == position[g][q] + 1 IN
    /\ task[m].pc = "done"
    /\ \/ task[m].stale /\ UNCHANGED offsetVars
       \/ /\ ~task[m].stale
          /\ position' = [position EXCEPT ![g][q] = past]
          /\ \E upTo \in {committed[g][q], past} :
                committed' = [committed EXCEPT ![g][q] = upTo]
    /\ task' = [task EXCEPT ![m] = Idle]
    /\ UNCHANGED <<relayVars, log, dead, effectVars, bounds>>

(* The group's next messages after a rebalance: from its committed offset, *)
(* or, without one, from the topic's first message or its end.             *)
Restart(g, q) ==
    IF committed[g][q] = 0 /\ ~FromBeginning THEN Len(log[q]) ELSE committed[g][q]

(* Members die or lose their session: the group goes back to its committed *)
(* offsets, the dead lose their work, the evicted go on with it.           *)
Rebalance(g, died) ==
    /\ position' = [position EXCEPT ![g] = [q \in Rungs |-> Restart(g, q)]]
    /\ task' = [m \in Members |-> IF m \in died THEN Idle
                                  ELSE IF GroupOf[m] = g /\ Busy(m) THEN [task[m] EXCEPT !.stale = TRUE]
                                  ELSE task[m]]
    /\ Crash
    /\ UNCHANGED <<relayVars, log, dead, committed, effectVars, throws>>

-----------------------------------------------------------------------------
RelayStep(r) == Claim(r) \/ PublishNext(r) \/ Stamp(r)
Handle(m) == Begin(m) \/ Commit(m) \/ Throw(m) \/ Climb(m) \/ Resolve(m)
MemberStep(m) == Handle(m) \/ \E q \in Rungs : Receive(m, q)

Next ==
    \/ \E f \in Facts : Enqueue(f)
    \/ \E r \in Relays : RelayStep(r) \/ TimeOut(r) \/ RelayFails(r)
    \/ \E m \in Members : MemberStep(m)
    \/ \E g \in Groups : \E died \in SUBSET {m \in Members : GroupOf[m] = g} : Rebalance(g, died)

Spec == Init /\ [][Next]_vars

(***************************************************************************)
(* The relay and the consumers are loops that restart after a failure.     *)
(* Producers owe nothing, and offsets may never be committed.              *)
(***************************************************************************)
Fairness ==
    /\ \A r \in Relays : WF_vars(RelayStep(r))
    /\ \A m \in Members : WF_vars(Handle(m))
    /\ \A g \in Groups, q \in Rungs :
          WF_vars(\E m \in Members : GroupOf[m] = g /\ Receive(m, q))

FairSpec == Spec /\ Fairness

-----------------------------------------------------------------------------
(* Properties.                                                             *)

GivenUp(g, f) == <<g, f>> \in dead \/ <<Relay, f>> \in dead

(* A copy of f waits for g at rung q or above.                             *)
Waiting(g, f, low) ==
    \E q \in Rungs : /\ low <= q
                     /\ \E i \in (position[g][q] + 1)..Len(log[q]) : log[q][i] = f

Kept(g, f, low) == <<g, f>> \in inbox \/ <<g, f>> \in dead \/ Waiting(g, f, low)

(***************************************************************************)
(* "A broker outage is lossless" and a failing message "costs only         *)
(* itself" (apps/relay main.ts, apps/consumer ladder.ts): once a row is    *)
(* stamped, each group has applied it, has a copy of it ahead of its       *)
(* position, or has a dead letter to show for it, whatever transactions,   *)
(* members and offsets are lost on the way.                                *)
(***************************************************************************)
NeverLost ==
    \A f \in stamped, g \in Groups : <<Relay, f>> \in dead \/ Kept(g, f, 0)

(***************************************************************************)
(* "Effectively once" (packages/outbox inbox.ts): republished, climbed and *)
(* redelivered copies, also those handled at the same time by an evicted   *)
(* member and its successor, take effect once.                             *)
(***************************************************************************)
AppliedOnce ==
    \A g \in Groups, f \in Facts : ran[<<g, f>>] = IF <<g, f>> \in inbox THEN 1 ELSE 0

(***************************************************************************)
(* A committed fact reaches every group or is given up on in the open:     *)
(* neither a row nobody can encode nor a message nobody can handle holds   *)
(* up those behind it (quarantine.ts, ladder.ts).                          *)
(***************************************************************************)
Delivered ==
    \A f \in Facts, g \in Groups :
        f \in outbox ~> <<g, f>> \in inbox \/ GivenUp(g, f)

Promise == INSTANCE FactDelivery WITH accepted <- outbox, applied <- ran

(* The rail keeps what FactDelivery promises, step by step.                *)
ImplementsFactDelivery == Promise!Spec

(***************************************************************************)
(* The inductive invariant.  Sources: only committed rows travel, and what *)
(* is stamped or sent is on the base topic or quarantined.  Ownership: an  *)
(* active member is at its group's position, alone.  Progress: what a      *)
(* group or a member is done with is kept higher up.  OneEffect: whoever   *)
(* is applying a fact is the only one, and the first.                      *)
(***************************************************************************)
OnBase(f) == \E i \in 1..Len(log[0]) : log[0][i] = f

Sources ==
    /\ stamped \subseteq outbox
    /\ \A r \in Relays : unsent[r] \subseteq batch[r] /\ batch[r] \subseteq outbox
    /\ \A q \in Rungs : \A i \in 1..Len(log[q]) : log[q][i] \in outbox
    /\ \A m \in Members : Busy(m) => task[m].fact \in outbox
    /\ \A f \in stamped : OnBase(f) \/ <<Relay, f>> \in dead
    /\ \A r \in Relays : \A f \in batch[r] \ unsent[r] : OnBase(f) \/ <<Relay, f>> \in dead

Ownership ==
    /\ \A g \in Groups, q \in Rungs :
          committed[g][q] <= position[g][q] /\ position[g][q] <= Len(log[q])
    /\ \A m \in Members : Active(m) =>
          LET next == position[GroupOf[m]][task[m].rung] + 1 IN
          next <= Len(log[task[m].rung]) /\ log[task[m].rung][next] = task[m].fact
    /\ \A m, o \in Members :
          m # o /\ GroupOf[m] = GroupOf[o] /\ Active(m) /\ Active(o) => task[m].rung # task[o].rung

Progress ==
    FromBeginning =>
        /\ \A f \in Facts, g \in Groups : OnBase(f) => Kept(g, f, 0)
        /\ \A m \in Members, f \in Facts, q \in Rungs :
              task[m].pc = "done" /\ task[m].fact = f /\ task[m].rung = q
                  => Kept(GroupOf[m], f, q + 1)

OneEffect ==
    /\ \A m \in Members : task[m].pc = "applying" => Effect(m) \notin inbox
    /\ \A m, o \in Members :
          m # o /\ task[m].pc = "applying" /\ task[o].pc = "applying" => Effect(m) # Effect(o)

Inv == TypeOK /\ Sources /\ Ownership /\ Progress /\ OneEffect /\ AppliedOnce

=============================================================================
