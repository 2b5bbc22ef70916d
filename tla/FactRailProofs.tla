--------------------------- MODULE FactRailProofs ---------------------------
(***************************************************************************)
(* Proofs about FactRail for any number of rows, relays, groups, members   *)
(* and retry rungs: its inductive invariant, what follows from it, and     *)
(* that it implements FactDelivery.                                        *)
(***************************************************************************)
EXTENDS FactRail, TLAPS

USE ConstantsAssumption

-----------------------------------------------------------------------------
(* Types.                                                                  *)

LEMMA InitInv == Init => Inv
<1> SUFFICES ASSUME Init PROVE Inv
  OBVIOUS
<1>1. Levels \in Nat /\ 0 \in Rungs
  BY DEF Rungs
<1>2. \A m \in Members : task[m] = Idle
  BY DEF Init
<1>3. TypeOK
  <2>1. /\ log \in [Rungs -> Seq(Facts)]
        /\ position \in [Groups -> [Rungs -> Nat]]
        /\ committed \in [Groups -> [Rungs -> Nat]]
    BY DEF Init
  <2>2. QED
    BY <2>1 DEF Init, TypeOK
<1>4. \A q \in Rungs : Len(log[q]) = 0
  BY DEF Init
<1>5. \A f : ~OnBase(f)
  BY <1>1, <1>4 DEF OnBase
<1>6. Sources
  BY <1>2, <1>4 DEF Init, Sources, Busy, Idle
<1>7. Ownership
  BY <1>2, <1>4 DEF Init, Ownership, Active, Busy, Idle
<1>8. Progress /\ OneEffect
  BY <1>2, <1>5 DEF Progress, OneEffect, Idle
<1>9. AppliedOnce
  BY DEF Init, AppliedOnce
<1>10. QED
  BY <1>3, <1>6, <1>7, <1>8, <1>9 DEF Inv

LEMMA SendType ==
  ASSUME TypeOK, NEW q \in Rungs, NEW f \in Facts, Send(q, f)
  PROVE  /\ log' \in [Rungs -> Seq(Facts)]
         /\ log'[q] = Append(log[q], f)
         /\ \A p \in Rungs \ {q} : log'[p] = log[p]
         /\ Len(log'[q]) = Len(log[q]) + 1
         /\ log'[q][Len(log[q]) + 1] = f
         /\ \A i \in 1..Len(log[q]) : log'[q][i] = log[q][i]
<1>1. log[q] \in Seq(Facts)
  BY DEF TypeOK
<1>2. log'[q] = Append(log[q], f) /\ \A p \in Rungs \ {q} : log'[p] = log[p]
  BY DEF TypeOK, Send
<1>3. Append(log[q], f) \in Seq(Facts)
  BY <1>1
<1>4. log' \in [Rungs -> Seq(Facts)]
  BY <1>3 DEF TypeOK, Send
<1>5. QED
  BY <1>1, <1>2, <1>4

(* A member at work handles a fact from a rung of its group.               *)
LEMMA BusyType ==
  ASSUME TypeOK, NEW m \in Members
  PROVE  /\ GroupOf[m] \in Groups
         /\ task[m].rung \in Rungs /\ task[m].rung \in 0..Levels
         /\ task[m].stale \in BOOLEAN
         /\ task[m].pc \in {"idle", "received", "applying", "thrown", "done"}
         /\ Busy(m) => task[m] \in Tasks /\ task[m].fact \in Facts /\ Effect(m) \in Groups \X Facts
         /\ ~Busy(m) => task[m] = Idle
<1>1. task[m] \in Tasks \cup {Idle}
  BY DEF TypeOK
<1>2. CASE task[m] \in Tasks
  <2>1. /\ task[m].pc \in {"received", "applying", "thrown", "done"}
        /\ task[m].rung \in Rungs /\ task[m].fact \in Facts /\ task[m].stale \in BOOLEAN
    BY <1>2 DEF Tasks
  <2>2. QED
    BY <1>2, <2>1 DEF Busy, Effect, Rungs
<1>3. CASE task[m] = Idle
  BY <1>3 DEF Idle, Busy, Rungs
<1>4. QED
  BY <1>1, <1>2, <1>3

(* Moving on to another step keeps what a member is working on.            *)
LEMMA BecomeType ==
  ASSUME TypeOK, NEW m \in Members, Busy(m),
         NEW pc \in {"received", "applying", "thrown", "done"}, Become(m, pc)
  PROVE  /\ task' \in [Members -> Tasks \cup {Idle}]
         /\ task'[m].pc = pc
         /\ \A o \in Members : /\ task'[o].fact = task[o].fact
                               /\ task'[o].rung = task[o].rung
                               /\ task'[o].stale = task[o].stale
         /\ \A o \in Members \ {m} : task'[o] = task[o]
<1>1. task[m] \in Tasks
  BY BusyType
<1>2. task'[m] = [task[m] EXCEPT !.pc = pc] /\ \A o \in Members \ {m} : task'[o] = task[o]
  BY DEF TypeOK, Become
<1>3. /\ task'[m] \in Tasks /\ task'[m].pc = pc /\ task'[m].fact = task[m].fact
      /\ task'[m].rung = task[m].rung /\ task'[m].stale = task[m].stale
  BY <1>1, <1>2 DEF Tasks
<1>4. task' = [task EXCEPT ![m] = task'[m]]
  BY <1>2 DEF Become, TypeOK
<1>5. task' \in [Members -> Tasks \cup {Idle}]
  BY <1>3, <1>4 DEF TypeOK
<1>6. QED
  BY <1>2, <1>3, <1>5

(* A rebalance drops what a member has in hand or marks it evicted.        *)
LEMMA Evicted ==
  ASSUME TypeOK, NEW g \in Groups, NEW died \in SUBSET Members, Rebalance(g, died), NEW m \in Members
  PROVE  \/ task'[m] = Idle
         \/ task'[m] = task[m] /\ GroupOf[m] # g
         \/ /\ task'[m].pc = task[m].pc /\ task'[m].fact = task[m].fact
            /\ task'[m].rung = task[m].rung /\ task'[m].stale
<1>1. task[m] \in Tasks \/ task[m] = Idle
  BY DEF TypeOK
<1>2. task'[m] = IF m \in died THEN Idle
                 ELSE IF GroupOf[m] = g /\ Busy(m) THEN [task[m] EXCEPT !.stale = TRUE]
                 ELSE task[m]
  BY DEF Rebalance
<1>3. CASE task[m] = Idle
  BY <1>2, <1>3 DEF Busy, Idle
<1>4. CASE task[m] \in Tasks
  <2>1. Busy(m)
    BY <1>4 DEF Tasks, Busy
  <2>2. LET t == [task[m] EXCEPT !.stale = TRUE]
        IN  t.pc = task[m].pc /\ t.fact = task[m].fact /\ t.rung = task[m].rung /\ t.stale
    BY <1>4 DEF Tasks
  <2>3. QED
    BY <1>2, <2>1, <2>2
<1>5. QED
  BY <1>1, <1>3, <1>4

LEMMA TypeStep == TypeOK /\ [Next]_vars => TypeOK'
<1> SUFFICES ASSUME TypeOK, [Next]_vars PROVE TypeOK'
  OBVIOUS
<1>0. ASSUME Crash PROVE crashes' \in 0..MaxCrashes
  BY <1>0 DEF Crash, TypeOK
<1>1. ASSUME NEW f \in Facts, Enqueue(f) PROVE TypeOK'
  BY <1>1 DEF Enqueue, TypeOK, offsetVars, effectVars, bounds
<1>2. ASSUME NEW r \in Relays, Claim(r) PROVE TypeOK'
  BY <1>2 DEF Claim, TypeOK, offsetVars, effectVars, bounds
<1>3. ASSUME NEW r \in Relays, PublishNext(r) PROVE TypeOK'
  <2>1. PICK f \in unsent[r] : /\ unsent' = [unsent EXCEPT ![r] = @ \ {f}]
                               /\ \/ Send(0, f) /\ UNCHANGED dead
                                  \/ dead' = dead \cup {<<Relay, f>>} /\ UNCHANGED log
    BY <1>3 DEF PublishNext
  <2>2. f \in Facts /\ 0 \in Rungs
    BY DEF TypeOK, Rungs
  <2>3. log' \in [Rungs -> Seq(Facts)] /\ dead' \subseteq (Groups \cup {Relay}) \X Facts
    BY <2>1, <2>2, SendType DEF TypeOK
  <2>4. QED
    BY <1>3, <2>1, <2>3 DEF PublishNext, TypeOK, offsetVars, effectVars, bounds
<1>4. ASSUME NEW r \in Relays, Stamp(r) PROVE TypeOK'
  BY <1>4 DEF Stamp, Release, TypeOK, offsetVars, effectVars, bounds
<1>5. ASSUME NEW r \in Relays, TimeOut(r) PROVE TypeOK'
  BY <1>0, <1>5 DEF TimeOut, TypeOK, offsetVars, effectVars
<1>6. ASSUME NEW r \in Relays, RelayFails(r) PROVE TypeOK'
  BY <1>0, <1>6 DEF RelayFails, Release, TypeOK, offsetVars, effectVars
<1>7. ASSUME NEW m \in Members, NEW q \in Rungs, Receive(m, q) PROVE TypeOK'
  <2> DEFINE g == GroupOf[m]
             i == position[g][q] + 1
             t == [pc |-> "received", rung |-> q, fact |-> log[q][i], stale |-> FALSE]
  <2>1. i \in 1..Len(log[q]) /\ log[q] \in Seq(Facts)
    BY <1>7 DEF Receive, TypeOK
  <2>2. t \in Tasks
    BY <2>1 DEF Tasks
  <2>3. task' = [task EXCEPT ![m] = t]
    BY <1>7 DEF Receive
  <2> HIDE DEF t
  <2>4. task' \in [Members -> Tasks \cup {Idle}]
    BY <2>2, <2>3 DEF TypeOK
  <2>5. QED
    BY <1>7, <2>4 DEF Receive, TypeOK, relayVars, offsetVars, effectVars, bounds
<1>8. ASSUME NEW m \in Members, Begin(m) PROVE TypeOK'
  <2>1. Busy(m) /\ (Become(m, "done") \/ Become(m, "applying"))
    BY <1>8 DEF Begin, Busy
  <2>2. task' \in [Members -> Tasks \cup {Idle}]
    BY <2>1, BecomeType
  <2>3. QED
    BY <1>8, <2>2 DEF Begin, TypeOK, relayVars, offsetVars, effectVars, bounds
<1>9. ASSUME NEW m \in Members, Commit(m) PROVE TypeOK'
  <2>1. Busy(m) /\ Become(m, "done")
    BY <1>9 DEF Commit, Busy
  <2>2. task' \in [Members -> Tasks \cup {Idle}] /\ Effect(m) \in Groups \X Facts
    BY <2>1, BecomeType, BusyType
  <2>3. inbox' \subseteq Groups \X Facts /\ ran' \in [Groups \X Facts -> Nat]
    BY <1>9, <2>2 DEF Commit, TypeOK
  <2>4. QED
    BY <1>9, <2>2, <2>3 DEF Commit, TypeOK, relayVars, offsetVars, bounds
<1>10. ASSUME NEW m \in Members, Throw(m) PROVE TypeOK'
  <2>1. Busy(m) /\ Become(m, "thrown")
    BY <1>10 DEF Throw, Busy
  <2>2. task' \in [Members -> Tasks \cup {Idle}]
    BY <2>1, BecomeType
  <2>3. throws' \in 0..MaxThrows
    BY <1>10 DEF Throw, TypeOK
  <2>4. QED
    BY <1>10, <2>2, <2>3 DEF Throw, TypeOK, relayVars, offsetVars, effectVars
<1>11. ASSUME NEW m \in Members, Climb(m) PROVE TypeOK'
  <2>1. Busy(m) /\ Become(m, "done")
    BY <1>11 DEF Climb, Busy
  <2>2. /\ task' \in [Members -> Tasks \cup {Idle}]
        /\ task[m].fact \in Facts /\ task[m].rung \in 0..Levels /\ GroupOf[m] \in Groups
    BY <2>1, BecomeType, BusyType
  <2>3. task[m].rung < Levels => task[m].rung + 1 \in Rungs
    BY <2>2 DEF Rungs
  <2>4. log' \in [Rungs -> Seq(Facts)] /\ dead' \subseteq (Groups \cup {Relay}) \X Facts
    <3>1. CASE task[m].rung < Levels /\ Send(task[m].rung + 1, task[m].fact) /\ UNCHANGED dead
      <4>1. log' \in [Rungs -> Seq(Facts)]
        BY <2>2, <2>3, <3>1, SendType
      <4>2. QED
        BY <3>1, <4>1 DEF TypeOK
    <3>2. CASE dead' = dead \cup {<<GroupOf[m], task[m].fact>>} /\ UNCHANGED log
      BY <2>2, <3>2 DEF TypeOK
    <3>3. QED
      BY <1>11, <3>1, <3>2 DEF Climb
  <2>5. QED
    BY <1>11, <2>2, <2>4 DEF Climb, TypeOK, relayVars, offsetVars, effectVars, bounds
<1>12. ASSUME NEW m \in Members, Resolve(m) PROVE TypeOK'
  <2> DEFINE g == GroupOf[m]
             q == task[m].rung
  <2>1. g \in Groups /\ q \in Rungs
    BY BusyType
  <2>2. position \in [Groups -> [Rungs -> Nat]] /\ committed \in [Groups -> [Rungs -> Nat]]
    BY DEF TypeOK
  <2> HIDE DEF g, q
  <2>3. position[g][q] \in Nat /\ committed[g][q] \in Nat
    BY <2>1, <2>2
  <2>4. \A n \in Nat : /\ [position EXCEPT ![g][q] = n] \in [Groups -> [Rungs -> Nat]]
                       /\ [committed EXCEPT ![g][q] = n] \in [Groups -> [Rungs -> Nat]]
    BY <2>1, <2>2
  <2>5. position[g][q] + 1 \in Nat
    BY <2>3
  <2>6. position' \in [Groups -> [Rungs -> Nat]] /\ committed' \in [Groups -> [Rungs -> Nat]]
    <3>1. CASE UNCHANGED offsetVars
      BY <2>2, <3>1 DEF offsetVars
    <3>2. CASE /\ position' = [position EXCEPT ![g][q] = position[g][q] + 1]
               /\ \E upTo \in {committed[g][q], position[g][q] + 1} :
                    committed' = [committed EXCEPT ![g][q] = upTo]
      BY <2>3, <2>4, <2>5, <3>2
    <3>3. QED
      BY <1>12, <3>1, <3>2 DEF Resolve, g, q
  <2>7. task' \in [Members -> Tasks \cup {Idle}]
    BY <1>12 DEF Resolve, TypeOK
  <2>8. QED
    BY <1>12, <2>6, <2>7 DEF Resolve, TypeOK, relayVars, effectVars, bounds
<1>13. ASSUME NEW g \in Groups, NEW died \in SUBSET Members, Rebalance(g, died) PROVE TypeOK'
  <2>1. \A q \in Rungs : Restart(g, q) \in Nat
    BY DEF Restart, TypeOK
  <2>2. position' \in [Groups -> [Rungs -> Nat]]
    BY <1>13, <2>1 DEF Rebalance, TypeOK
  <2>3. \A m \in Members : Busy(m) => [task[m] EXCEPT !.stale = TRUE] \in Tasks
    <3>1. \A m \in Members : Busy(m) => task[m] \in Tasks
      BY BusyType
    <3>2. \A t \in Tasks : [t EXCEPT !.stale = TRUE] \in Tasks
      BY DEF Tasks
    <3>3. QED
      BY <3>1, <3>2
  <2>4. task' \in [Members -> Tasks \cup {Idle}]
    BY <1>13, <2>3 DEF Rebalance, TypeOK
  <2>5. QED
    BY <1>0, <1>13, <2>2, <2>4 DEF Rebalance, TypeOK, relayVars, effectVars
<1>14. ASSUME UNCHANGED vars PROVE TypeOK'
  BY <1>14 DEF vars, TypeOK, relayVars, offsetVars, effectVars, bounds
<1>15. QED
  BY <1>1, <1>2, <1>3, <1>4, <1>5, <1>6, <1>7, <1>8, <1>9, <1>10, <1>11, <1>12, <1>13, <1>14
     DEF Next, RelayStep, MemberStep, Handle

-----------------------------------------------------------------------------
(* What only ever grows.                                                   *)

LogGrows ==
    \A q \in Rungs : /\ Len(log[q]) \in Nat /\ Len(log'[q]) \in Nat
                     /\ Len(log[q]) <= Len(log'[q])
                     /\ \A i \in 1..Len(log[q]) : log'[q][i] = log[q][i]

Grows == outbox \subseteq outbox' /\ inbox \subseteq inbox' /\ dead \subseteq dead' /\ LogGrows

LEMMA LogKept == ASSUME TypeOK, UNCHANGED log PROVE LogGrows
BY DEF TypeOK, LogGrows

LEMMA LogSent ==
  ASSUME TypeOK, NEW q \in Rungs, NEW f \in Facts, Send(q, f)
  PROVE  LogGrows
<1>1. \A p \in Rungs : log[p] \in Seq(Facts)
  BY DEF TypeOK
<1>2. \A p \in Rungs : Len(log[p]) \in Nat
  BY <1>1
<1>3. QED
  BY <1>2, SendType DEF LogGrows

LEMMA GrowsStep == TypeOK /\ [Next]_vars => Grows
<1> SUFFICES ASSUME TypeOK, [Next]_vars PROVE Grows
  OBVIOUS
<1>1. ASSUME NEW f \in Facts, Enqueue(f) PROVE Grows
  BY <1>1, LogKept DEF Enqueue, Grows, effectVars
<1>2. ASSUME NEW r \in Relays, Claim(r) PROVE Grows
  BY <1>2, LogKept DEF Claim, Grows, effectVars
<1>3. ASSUME NEW r \in Relays, PublishNext(r) PROVE Grows
  <2>1. PICK f \in unsent[r] : \/ Send(0, f) /\ UNCHANGED dead
                               \/ dead' = dead \cup {<<Relay, f>>} /\ UNCHANGED log
    BY <1>3 DEF PublishNext
  <2>2. f \in Facts /\ 0 \in Rungs
    BY DEF TypeOK, Rungs
  <2>3. LogGrows /\ dead \subseteq dead'
    BY <2>1, <2>2, LogKept, LogSent
  <2>4. QED
    BY <1>3, <2>3 DEF PublishNext, Grows, effectVars
<1>4. ASSUME NEW r \in Relays, Stamp(r) PROVE Grows
  BY <1>4, LogKept DEF Stamp, Grows, effectVars
<1>5. ASSUME NEW r \in Relays, TimeOut(r) PROVE Grows
  BY <1>5, LogKept DEF TimeOut, Grows, effectVars
<1>6. ASSUME NEW r \in Relays, RelayFails(r) PROVE Grows
  BY <1>6, LogKept DEF RelayFails, Grows, effectVars
<1>7. ASSUME NEW m \in Members, NEW q \in Rungs, Receive(m, q) PROVE Grows
  BY <1>7, LogKept DEF Receive, Grows, effectVars, relayVars
<1>8. ASSUME NEW m \in Members, Begin(m) PROVE Grows
  BY <1>8, LogKept DEF Begin, Grows, effectVars, relayVars
<1>9. ASSUME NEW m \in Members, Commit(m) PROVE Grows
  BY <1>9, LogKept DEF Commit, Grows, relayVars
<1>10. ASSUME NEW m \in Members, Throw(m) PROVE Grows
  BY <1>10, LogKept DEF Throw, Grows, effectVars, relayVars
<1>11. ASSUME NEW m \in Members, Climb(m) PROVE Grows
  <2>1. task[m].fact \in Facts /\ task[m].rung \in 0..Levels
    BY <1>11, BusyType DEF Climb, Busy
  <2>2. task[m].rung < Levels => task[m].rung + 1 \in Rungs
    BY <2>1 DEF Rungs
  <2>3. LogGrows /\ dead \subseteq dead'
    <3>1. CASE task[m].rung < Levels /\ Send(task[m].rung + 1, task[m].fact) /\ UNCHANGED dead
      BY <2>1, <2>2, <3>1, LogSent
    <3>2. CASE dead' = dead \cup {<<GroupOf[m], task[m].fact>>} /\ UNCHANGED log
      BY <3>2, LogKept
    <3>3. QED
      BY <1>11, <3>1, <3>2 DEF Climb
  <2>4. QED
    BY <1>11, <2>3 DEF Climb, Grows, effectVars, relayVars
<1>12. ASSUME NEW m \in Members, Resolve(m) PROVE Grows
  BY <1>12, LogKept DEF Resolve, Grows, effectVars, relayVars
<1>13. ASSUME NEW g \in Groups, NEW died \in SUBSET Members, Rebalance(g, died) PROVE Grows
  BY <1>13, LogKept DEF Rebalance, Grows, effectVars, relayVars
<1>14. ASSUME UNCHANGED vars PROVE Grows
  BY <1>14, LogKept DEF vars, Grows, effectVars, relayVars
<1>15. QED
  BY <1>1, <1>2, <1>3, <1>4, <1>5, <1>6, <1>7, <1>8, <1>9, <1>10, <1>11, <1>12, <1>13, <1>14
     DEF Next, RelayStep, MemberStep, Handle

LEMMA OnBaseGrows ==
  ASSUME LogGrows, NEW f, OnBase(f)
  PROVE  OnBase(f)'
<1>1. 0 \in Rungs
  BY DEF Rungs
<1>2. PICK i \in 1..Len(log[0]) : log[0][i] = f
  BY DEF OnBase
<1>3. i \in 1..Len(log'[0]) /\ log'[0][i] = f
  BY <1>1, <1>2 DEF LogGrows
<1>4. QED
  BY <1>3 DEF OnBase

-----------------------------------------------------------------------------
(* Sources, in the parts that different actions disturb.                   *)

Sent(f) == OnBase(f) \/ <<Relay, f>> \in dead

SourcesOfRelays ==
    /\ stamped \subseteq outbox
    /\ \A r \in Relays : unsent[r] \subseteq batch[r] /\ batch[r] \subseteq outbox
    /\ \A f \in stamped : Sent(f)
    /\ \A r \in Relays : \A f \in batch[r] \ unsent[r] : Sent(f)

SourcesOfLog == \A q \in Rungs : \A i \in 1..Len(log[q]) : log[q][i] \in outbox

SourcesOfTasks == \A m \in Members : Busy(m) => task[m].fact \in outbox

LEMMA SourcesParts == Sources <=> SourcesOfRelays /\ SourcesOfLog /\ SourcesOfTasks
BY DEF Sources, SourcesOfRelays, SourcesOfLog, SourcesOfTasks, Sent

LEMMA SourcesNext == SourcesOfRelays' /\ SourcesOfLog' /\ SourcesOfTasks' => Sources'
BY DEF Sources, SourcesOfRelays, SourcesOfLog, SourcesOfTasks, Sent

LEMMA SentGrows ==
  ASSUME Grows, NEW f, Sent(f)
  PROVE  Sent(f)'
BY OnBaseGrows DEF Grows, Sent

LEMMA SourcesStep == TypeOK /\ TypeOK' /\ Sources /\ [Next]_vars => Sources'
<1> SUFFICES ASSUME TypeOK, TypeOK', Sources, [Next]_vars PROVE Sources'
  OBVIOUS
<1>a. Grows /\ LogGrows
  BY GrowsStep DEF Grows
<1>b. SourcesOfRelays /\ SourcesOfLog /\ SourcesOfTasks
  BY SourcesParts
<1>c. \A f : Sent(f) => Sent(f)'
  BY <1>a, SentGrows
<1>d. ASSUME UNCHANGED relayVars PROVE SourcesOfRelays'
  BY <1>b, <1>c, <1>d DEF SourcesOfRelays, relayVars
<1>e. ASSUME UNCHANGED log PROVE SourcesOfLog'
  BY <1>a, <1>b, <1>e DEF SourcesOfLog, Grows
<1>f. ASSUME UNCHANGED task PROVE SourcesOfTasks'
  BY <1>a, <1>b, <1>f DEF SourcesOfTasks, Grows, Busy
<1>g. ASSUME NEW m \in Members, Busy(m),
             NEW pc \in {"received", "applying", "thrown", "done"}, Become(m, pc)
      PROVE  SourcesOfTasks'
  <2>1. /\ \A o \in Members : task'[o].fact = task[o].fact
        /\ \A o \in Members \ {m} : task'[o] = task[o]
    BY <1>g, BecomeType
  <2>2. QED
    BY <1>a, <1>b, <1>g, <2>1 DEF SourcesOfTasks, Grows, Busy
<1>h. ASSUME NEW q \in Rungs, NEW f \in Facts, f \in outbox, Send(q, f) PROVE SourcesOfLog'
  <2>1. \A p \in Rungs : log[p] \in Seq(Facts) /\ Len(log[p]) \in Nat
    BY DEF TypeOK
  <2>2. SUFFICES ASSUME NEW p \in Rungs, NEW i \in 1..Len(log'[p]) PROVE log'[p][i] \in outbox
    BY <1>a DEF SourcesOfLog, Grows
  <2>3. CASE p = q /\ i = Len(log[q]) + 1
    BY <1>h, <2>3, SendType
  <2>4. CASE i \in 1..Len(log[p])
    BY <1>a, <1>b, <2>4 DEF LogGrows, SourcesOfLog
  <2>5. QED
    BY <1>h, <2>1, <2>3, <2>4, SendType
<1>i. ASSUME NEW r \in Relays, Release(r) PROVE
             /\ batch'[r] = {} /\ unsent'[r] = {}
             /\ \A o \in Relays \ {r} : batch'[o] = batch[o] /\ unsent'[o] = unsent[o]
  BY <1>i DEF Release, TypeOK
<1>1. ASSUME NEW f \in Facts, Enqueue(f) PROVE Sources'
  <2>1. SourcesOfRelays'
    BY <1>b, <1>c, <1>1 DEF Enqueue, SourcesOfRelays
  <2>2. QED
    BY <1>1, <1>e, <1>f, <2>1, SourcesNext DEF Enqueue
<1>2. ASSUME NEW r \in Relays, Claim(r) PROVE Sources'
  <2>1. PICK S \in SUBSET ((outbox \ stamped) \ Locked) :
             batch' = [batch EXCEPT ![r] = S] /\ unsent' = [unsent EXCEPT ![r] = S]
    BY <1>2 DEF Claim
  <2>2. /\ batch'[r] = S /\ unsent'[r] = S
        /\ \A o \in Relays \ {r} : batch'[o] = batch[o] /\ unsent'[o] = unsent[o]
    BY <2>1 DEF TypeOK
  <2>3. SourcesOfRelays'
    BY <1>b, <1>c, <1>2, <2>2 DEF Claim, SourcesOfRelays
  <2>4. QED
    BY <1>2, <1>e, <1>f, <2>3, SourcesNext DEF Claim
<1>3. ASSUME NEW r \in Relays, PublishNext(r) PROVE Sources'
  <2>1. PICK f \in unsent[r] : /\ unsent' = [unsent EXCEPT ![r] = @ \ {f}]
                               /\ \/ Send(0, f) /\ UNCHANGED dead
                                  \/ dead' = dead \cup {<<Relay, f>>} /\ UNCHANGED log
    BY <1>3 DEF PublishNext
  <2>2. f \in Facts /\ f \in outbox /\ 0 \in Rungs
    BY <1>b DEF TypeOK, Rungs, SourcesOfRelays
  <2>3. Sent(f)'
    <3>1. CASE Send(0, f)
      <4>1. Len(log'[0]) = Len(log[0]) + 1 /\ log'[0][Len(log[0]) + 1] = f /\ Len(log[0]) \in Nat
        BY <1>a, <2>2, <3>1, SendType DEF LogGrows
      <4>2. QED
        BY <4>1 DEF Sent, OnBase
    <3>2. CASE dead' = dead \cup {<<Relay, f>>}
      BY <3>2 DEF Sent
    <3>3. QED
      BY <2>1, <3>1, <3>2
  <2>4. /\ unsent'[r] = unsent[r] \ {f} /\ \A o \in Relays \ {r} : unsent'[o] = unsent[o]
        /\ UNCHANGED <<batch, outbox, stamped, task>>
    BY <1>3, <2>1 DEF TypeOK, PublishNext
  <2>5. SourcesOfRelays'
    BY <1>b, <1>c, <2>3, <2>4 DEF SourcesOfRelays
  <2>6. SourcesOfLog'
    BY <1>e, <1>h, <2>1, <2>2
  <2>7. QED
    BY <1>f, <2>4, <2>5, <2>6, SourcesNext
<1>4. ASSUME NEW r \in Relays, Stamp(r) PROVE Sources'
  <2>1. stamped' \subseteq stamped \cup batch[r] /\ unsent[r] = {}
    BY <1>4 DEF Stamp
  <2>2. SourcesOfRelays'
    BY <1>4, <1>b, <1>c, <1>i, <2>1 DEF Stamp, SourcesOfRelays
  <2>3. QED
    BY <1>4, <1>e, <1>f, <2>2, SourcesNext DEF Stamp
<1>5. ASSUME NEW r \in Relays, TimeOut(r) PROVE Sources'
  <2>1. SourcesOfRelays'
    BY <1>b, <1>c, <1>5 DEF TimeOut, SourcesOfRelays
  <2>2. QED
    BY <1>5, <1>e, <1>f, <2>1, SourcesNext DEF TimeOut
<1>6. ASSUME NEW r \in Relays, RelayFails(r) PROVE Sources'
  <2>1. SourcesOfRelays'
    BY <1>6, <1>b, <1>c, <1>i DEF RelayFails, SourcesOfRelays
  <2>2. QED
    BY <1>6, <1>e, <1>f, <2>1, SourcesNext DEF RelayFails
<1>7. ASSUME NEW m \in Members, NEW q \in Rungs, Receive(m, q) PROVE Sources'
  <2> DEFINE i == position[GroupOf[m]][q] + 1
  <2>1. i \in 1..Len(log[q])
    BY <1>7 DEF Receive, TypeOK
  <2>2. task'[m].fact = log[q][i] /\ \A o \in Members \ {m} : task'[o] = task[o]
    BY <1>7 DEF Receive, TypeOK
  <2>3. log[q][i] \in outbox
    BY <1>b, <2>1 DEF SourcesOfLog
  <2>4. SourcesOfTasks'
    BY <1>a, <1>b, <2>2, <2>3 DEF SourcesOfTasks, Grows, Busy
  <2>5. QED
    BY <1>7, <1>d, <1>e, <2>4, SourcesNext DEF Receive
<1>8. ASSUME NEW m \in Members, Begin(m) PROVE Sources'
  <2>1. Busy(m) /\ (Become(m, "done") \/ Become(m, "applying"))
    BY <1>8 DEF Begin, Busy
  <2>2. QED
    BY <1>8, <1>d, <1>e, <1>g, <2>1, SourcesNext DEF Begin
<1>9. ASSUME NEW m \in Members, Commit(m) PROVE Sources'
  <2>1. Busy(m) /\ Become(m, "done")
    BY <1>9 DEF Commit, Busy
  <2>2. QED
    BY <1>9, <1>d, <1>e, <1>g, <2>1, SourcesNext DEF Commit
<1>10. ASSUME NEW m \in Members, Throw(m) PROVE Sources'
  <2>1. Busy(m) /\ Become(m, "thrown")
    BY <1>10 DEF Throw, Busy
  <2>2. QED
    BY <1>10, <1>d, <1>e, <1>g, <2>1, SourcesNext DEF Throw
<1>11. ASSUME NEW m \in Members, Climb(m) PROVE Sources'
  <2>1. Busy(m) /\ Become(m, "done")
    BY <1>11 DEF Climb, Busy
  <2>2. task[m].fact \in Facts /\ task[m].fact \in outbox /\ task[m].rung \in 0..Levels
    BY <1>b, <2>1, BusyType DEF SourcesOfTasks
  <2>3. task[m].rung < Levels => task[m].rung + 1 \in Rungs
    BY <2>2 DEF Rungs
  <2>4. SourcesOfLog'
    <3>1. CASE task[m].rung < Levels /\ Send(task[m].rung + 1, task[m].fact)
      BY <1>h, <2>2, <2>3, <3>1
    <3>2. CASE UNCHANGED log
      BY <1>e, <3>2
    <3>3. QED
      BY <1>11, <3>1, <3>2 DEF Climb
  <2>5. QED
    BY <1>11, <1>d, <1>g, <2>1, <2>4, SourcesNext DEF Climb
<1>12. ASSUME NEW m \in Members, Resolve(m) PROVE Sources'
  <2>1. task'[m] = Idle /\ \A o \in Members \ {m} : task'[o] = task[o]
    BY <1>12 DEF Resolve, TypeOK
  <2>2. SourcesOfTasks'
    BY <1>a, <1>b, <2>1 DEF SourcesOfTasks, Grows, Busy, Idle
  <2>3. QED
    BY <1>12, <1>d, <1>e, <2>2, SourcesNext DEF Resolve
<1>13. ASSUME NEW g \in Groups, NEW died \in SUBSET Members, Rebalance(g, died) PROVE Sources'
  <2>1. \A m \in Members : \/ task'[m] = Idle
                           \/ task'[m].fact = task[m].fact /\ task'[m].pc = task[m].pc
    BY <1>13, Evicted
  <2>2. SourcesOfTasks'
    BY <1>a, <1>b, <2>1 DEF SourcesOfTasks, Grows, Busy, Idle
  <2>3. QED
    BY <1>13, <1>d, <1>e, <2>2, SourcesNext DEF Rebalance
<1>14. ASSUME UNCHANGED vars PROVE Sources'
  BY <1>14, <1>d, <1>e, <1>f, SourcesNext DEF vars, relayVars
<1>15. QED
  BY <1>1, <1>2, <1>3, <1>4, <1>5, <1>6, <1>7, <1>8, <1>9, <1>10, <1>11, <1>12, <1>13, <1>14
     DEF Next, RelayStep, MemberStep, Handle

-----------------------------------------------------------------------------
(* Effects: whoever is applying a fact is alone and first.                 *)

Effects == OneEffect /\ AppliedOnce

(* Nobody starts applying, and what is applied stays.                      *)
LEMMA EffectsQuiet ==
  ASSUME TypeOK, Effects, UNCHANGED effectVars,
         \A o \in Members : task'[o].pc = "applying" =>
             task[o].pc = "applying" /\ task'[o].fact = task[o].fact
  PROVE  Effects'
<1>1. AppliedOnce'
  BY DEF Effects, AppliedOnce, effectVars
<1>2. OneEffect'
  BY DEF Effects, OneEffect, Effect, effectVars
<1>3. QED
  BY <1>1, <1>2 DEF Effects

LEMMA EffectsStep == TypeOK /\ Effects /\ [Next]_vars => Effects'
<1> SUFFICES ASSUME TypeOK, Effects, [Next]_vars PROVE Effects'
  OBVIOUS
<1>a. ASSUME UNCHANGED <<effectVars, task>> PROVE Effects'
  BY <1>a, EffectsQuiet
<1>b. ASSUME UNCHANGED effectVars, NEW m \in Members, Busy(m),
             NEW pc \in {"received", "thrown", "done"}, Become(m, pc)
      PROVE  Effects'
  <2>1. task'[m].pc = pc /\ \A o \in Members \ {m} : task'[o] = task[o]
    BY <1>b, BecomeType
  <2>2. QED
    BY <1>b, <2>1, EffectsQuiet
<1>1. ASSUME NEW f \in Facts, Enqueue(f) PROVE Effects'
  BY <1>1, <1>a DEF Enqueue
<1>2. ASSUME NEW r \in Relays, Claim(r) \/ PublishNext(r) \/ Stamp(r) PROVE Effects'
  BY <1>2, <1>a DEF Claim, PublishNext, Stamp
<1>3. ASSUME NEW r \in Relays, TimeOut(r) \/ RelayFails(r) PROVE Effects'
  BY <1>3, <1>a DEF TimeOut, RelayFails
<1>4. ASSUME NEW m \in Members, NEW q \in Rungs, Receive(m, q) PROVE Effects'
  <2>1. task'[m].pc = "received" /\ \A o \in Members \ {m} : task'[o] = task[o]
    BY <1>4 DEF Receive, TypeOK
  <2>2. QED
    BY <1>4, <2>1, EffectsQuiet DEF Receive
<1>5. ASSUME NEW m \in Members, Begin(m) PROVE Effects'
  <2>1. Busy(m)
    BY <1>5 DEF Begin, Busy
  <2>2. CASE Become(m, "done")
    BY <1>5, <1>b, <2>1, <2>2 DEF Begin
  <2>3. CASE Effect(m) \notin inbox /\ Become(m, "applying")
    <3>1. /\ task'[m].pc = "applying" /\ \A o \in Members : task'[o].fact = task[o].fact
          /\ \A o \in Members \ {m} : task'[o] = task[o]
      BY <2>1, <2>3, BecomeType
    <3>2. \A o \in Members : Effect(o)' = Effect(o)
      BY <3>1 DEF Effect
    <3>3. \A o \in Members : task[o].pc = "applying" => Effect(o) # Effect(m)
      BY <1>5 DEF Begin, KeyFree
    <3>4. UNCHANGED <<inbox, ran>>
      BY <1>5 DEF Begin, effectVars
    <3>5. OneEffect'
      BY <2>3, <3>1, <3>2, <3>3, <3>4 DEF Effects, OneEffect
    <3>6. QED
      BY <3>4, <3>5 DEF Effects, AppliedOnce
  <2>4. QED
    BY <1>5, <2>2, <2>3 DEF Begin
<1>6. ASSUME NEW m \in Members, Commit(m) PROVE Effects'
  <2>1. Busy(m) /\ Become(m, "done") /\ task[m].pc = "applying"
    BY <1>6 DEF Commit, Busy
  <2>2. /\ task'[m].pc = "done" /\ \A o \in Members : task'[o].fact = task[o].fact
        /\ \A o \in Members \ {m} : task'[o] = task[o]
    BY <2>1, BecomeType
  <2>3. \A o \in Members : Effect(o)' = Effect(o)
    BY <2>2 DEF Effect
  <2>4. Effect(m) \in Groups \X Facts /\ Effect(m) \notin inbox
    BY <2>1, BusyType DEF Effects, OneEffect
  <2>5. inbox' = inbox \cup {Effect(m)} /\ ran' = [ran EXCEPT ![Effect(m)] = @ + 1]
    BY <1>6 DEF Commit
  <2>6. OneEffect'
    BY <2>1, <2>2, <2>3, <2>5 DEF Effects, OneEffect
  <2>7. AppliedOnce'
    <3>1. SUFFICES ASSUME NEW g \in Groups, NEW f \in Facts
                   PROVE  ran'[<<g, f>>] = IF <<g, f>> \in inbox' THEN 1 ELSE 0
      BY DEF AppliedOnce
    <3>2. <<g, f>> \in Groups \X Facts /\ ran[<<g, f>>] = IF <<g, f>> \in inbox THEN 1 ELSE 0
      BY DEF Effects, AppliedOnce
    <3>3. CASE <<g, f>> = Effect(m)
      <4>1. ran'[Effect(m)] = ran[Effect(m)] + 1
        BY <2>4, <2>5 DEF TypeOK
      <4>2. QED
        BY <2>4, <2>5, <3>2, <3>3, <4>1
    <3>4. CASE <<g, f>> # Effect(m)
      <4>1. ran'[<<g, f>>] = ran[<<g, f>>]
        BY <2>5, <3>2, <3>4 DEF TypeOK
      <4>2. QED
        BY <2>5, <3>2, <3>4, <4>1
    <3>5. QED
      BY <3>3, <3>4
  <2>8. QED
    BY <2>6, <2>7 DEF Effects
<1>7. ASSUME NEW m \in Members, Throw(m) PROVE Effects'
  BY <1>7, <1>b DEF Throw, Busy
<1>8. ASSUME NEW m \in Members, Climb(m) PROVE Effects'
  BY <1>8, <1>b DEF Climb, Busy
<1>9. ASSUME NEW m \in Members, Resolve(m) PROVE Effects'
  <2>1. task'[m].pc = "idle" /\ \A o \in Members \ {m} : task'[o] = task[o]
    BY <1>9 DEF Resolve, TypeOK, Idle
  <2>2. QED
    BY <1>9, <2>1, EffectsQuiet DEF Resolve
<1>10. ASSUME NEW g \in Groups, NEW died \in SUBSET Members, Rebalance(g, died) PROVE Effects'
  <2>1. \A m \in Members : \/ task'[m].pc = "idle"
                           \/ task'[m].fact = task[m].fact /\ task'[m].pc = task[m].pc
    BY <1>10, Evicted DEF Idle
  <2>2. QED
    BY <1>10, <2>1, EffectsQuiet DEF Rebalance
<1>11. ASSUME UNCHANGED vars PROVE Effects'
  BY <1>11, <1>a DEF vars
<1>12. QED
  BY <1>1, <1>2, <1>3, <1>4, <1>5, <1>6, <1>7, <1>8, <1>9, <1>10, <1>11
     DEF Next, RelayStep, MemberStep, Handle

-----------------------------------------------------------------------------
(* Ownership, in the parts that different actions disturb.                 *)

Offsets ==
    \A g \in Groups, q \in Rungs :
        committed[g][q] <= position[g][q] /\ position[g][q] <= Len(log[q])

AtPosition(m) ==
    LET next == position[GroupOf[m]][task[m].rung] + 1 IN
    next <= Len(log[task[m].rung]) /\ log[task[m].rung][next] = task[m].fact

Owners ==
    /\ \A m \in Members : Active(m) => AtPosition(m)
    /\ \A m, o \in Members :
          m # o /\ GroupOf[m] = GroupOf[o] /\ Active(m) /\ Active(o) => task[m].rung # task[o].rung

LEMMA OwnershipParts == Ownership <=> Offsets /\ Owners
BY DEF Ownership, Offsets, Owners, AtPosition

LEMMA OwnershipNext == Offsets' /\ Owners' => Ownership'
BY DEF Ownership, Offsets, Owners, AtPosition

LEMMA OffsetsKept ==
  ASSUME TypeOK, LogGrows, Offsets, UNCHANGED offsetVars
  PROVE  Offsets'
<1>1. \A g \in Groups, q \in Rungs : position[g][q] \in Nat
  BY DEF TypeOK
<1>2. QED
  BY <1>1 DEF LogGrows, Offsets, offsetVars

(* Whoever is still active is where it was.                                *)
LEMMA OwnersKept ==
  ASSUME TypeOK, LogGrows, Owners,
         \A m \in Members : Active(m)' =>
             /\ Active(m) /\ task'[m].rung = task[m].rung /\ task'[m].fact = task[m].fact
             /\ position'[GroupOf[m]][task[m].rung] = position[GroupOf[m]][task[m].rung]
  PROVE  Owners'
<1>1. ASSUME NEW m \in Members, Active(m)' PROVE AtPosition(m)'
  <2> DEFINE q == task[m].rung
             next == position[GroupOf[m]][q] + 1
  <2>1. q \in Rungs /\ GroupOf[m] \in Groups
    BY BusyType
  <2>2. next \in 1..Len(log[q]) /\ log[q][next] = task[m].fact
    BY <1>1, <2>1 DEF Owners, AtPosition, TypeOK, LogGrows
  <2>3. next <= Len(log'[q]) /\ log'[q][next] = task[m].fact
    BY <2>1, <2>2 DEF LogGrows
  <2>4. task'[m].rung = q /\ task'[m].fact = task[m].fact /\ position'[GroupOf[m]][q] + 1 = next
    BY <1>1
  <2>5. QED
    BY <2>3, <2>4 DEF AtPosition
<1>2. ASSUME NEW m \in Members, NEW o \in Members, m # o, GroupOf[m] = GroupOf[o], Active(m)', Active(o)'
      PROVE  task'[m].rung # task'[o].rung
  <2>1. task'[m].rung = task[m].rung /\ task'[o].rung = task[o].rung /\ Active(m) /\ Active(o)
    BY <1>2
  <2>2. QED
    BY <1>2, <2>1 DEF Owners
<1>3. QED
  BY <1>1, <1>2 DEF Owners

LEMMA OwnershipStep == TypeOK /\ Ownership /\ [Next]_vars => Ownership'
<1> SUFFICES ASSUME TypeOK, Ownership, [Next]_vars PROVE Ownership'
  OBVIOUS
<1>a. LogGrows /\ Offsets /\ Owners
  BY GrowsStep, OwnershipParts DEF Grows
<1>b. ASSUME UNCHANGED <<offsetVars, task>> PROVE Ownership'
  <2>1. Owners'
    BY <1>a, <1>b, OwnersKept DEF Active, Busy, offsetVars
  <2>2. QED
    BY <1>a, <1>b, <2>1, OffsetsKept, OwnershipNext
<1>c. ASSUME UNCHANGED offsetVars, NEW m \in Members, Busy(m),
             NEW pc \in {"received", "applying", "thrown", "done"}, Become(m, pc)
      PROVE  Ownership'
  <2>1. \A o \in Members : /\ task'[o].fact = task[o].fact /\ task'[o].rung = task[o].rung
                           /\ task'[o].stale = task[o].stale
                           /\ o # m => task'[o] = task[o]
    BY <1>c, BecomeType
  <2>2. \A o \in Members : Active(o)' => Active(o)
    BY <1>c, <2>1 DEF Active, Busy
  <2>3. Owners'
    BY <1>a, <1>c, <2>1, <2>2, OwnersKept DEF offsetVars
  <2>4. QED
    BY <1>a, <1>c, <2>3, OffsetsKept, OwnershipNext
<1>1. ASSUME NEW f \in Facts, Enqueue(f) PROVE Ownership'
  BY <1>1, <1>b DEF Enqueue
<1>2. ASSUME NEW r \in Relays, Claim(r) \/ PublishNext(r) \/ Stamp(r) PROVE Ownership'
  BY <1>2, <1>b DEF Claim, PublishNext, Stamp
<1>3. ASSUME NEW r \in Relays, TimeOut(r) \/ RelayFails(r) PROVE Ownership'
  BY <1>3, <1>b DEF TimeOut, RelayFails
<1>4. ASSUME NEW m \in Members, NEW q \in Rungs, Receive(m, q) PROVE Ownership'
  <2> DEFINE next == position[GroupOf[m]][q] + 1
  <2>1. /\ task'[m].rung = q /\ task'[m].fact = log[q][next]
        /\ \A o \in Members \ {m} : task'[o] = task[o]
    BY <1>4 DEF Receive, TypeOK
  <2>2. /\ \A o \in Members : GroupOf[o] = GroupOf[m] /\ Active(o) => task[o].rung # q
        /\ next <= Len(log[q]) /\ UNCHANGED <<log, offsetVars>>
    BY <1>4 DEF Receive
  <2>3. \A o \in Members \ {m} : Active(o)' => Active(o)
    BY <2>1 DEF Active, Busy
  <2>4. \A o \in Members : Active(o)' => AtPosition(o)'
    BY <1>a, <2>1, <2>2, <2>3 DEF Owners, AtPosition, offsetVars
  <2>5. Owners'
    BY <1>a, <2>1, <2>2, <2>3, <2>4 DEF Owners
  <2>6. QED
    BY <1>a, <2>2, <2>5, OffsetsKept, OwnershipNext
<1>5. ASSUME NEW m \in Members, Begin(m) PROVE Ownership'
  <2>1. Busy(m) /\ (Become(m, "done") \/ Become(m, "applying"))
    BY <1>5 DEF Begin, Busy
  <2>2. QED
    BY <1>5, <1>c, <2>1 DEF Begin
<1>6. ASSUME NEW m \in Members, Commit(m) PROVE Ownership'
  BY <1>6, <1>c DEF Commit, Busy
<1>7. ASSUME NEW m \in Members, Throw(m) PROVE Ownership'
  BY <1>7, <1>c DEF Throw, Busy
<1>8. ASSUME NEW m \in Members, Climb(m) PROVE Ownership'
  BY <1>8, <1>c DEF Climb, Busy
<1>9. ASSUME NEW m \in Members, Resolve(m) PROVE Ownership'
  <2> DEFINE g == GroupOf[m]
             q == task[m].rung
  <2>1. g \in Groups /\ q \in Rungs /\ task[m].stale \in BOOLEAN
    BY BusyType
  <2>2. /\ \A h \in Groups, p \in Rungs : position[h][p] \in Nat /\ committed[h][p] \in Nat
        /\ UNCHANGED log
    BY <1>9 DEF TypeOK, Resolve
  <2>3. task'[m] = Idle /\ \A o \in Members \ {m} : task'[o] = task[o]
    BY <1>9 DEF Resolve, TypeOK
  <2>4. \A o \in Members : Active(o)' => o # m /\ Active(o)
    BY <2>3 DEF Active, Busy, Idle
  <2>5. CASE UNCHANGED offsetVars
    <3>1. Owners'
      BY <1>a, <2>3, <2>4, <2>5, OwnersKept DEF offsetVars
    <3>2. QED
      BY <1>a, <2>5, <3>1, OffsetsKept, OwnershipNext
  <2>6. CASE /\ ~task[m].stale
             /\ position' = [position EXCEPT ![g][q] = position[g][q] + 1]
             /\ \E upTo \in {committed[g][q], position[g][q] + 1} :
                  committed' = [committed EXCEPT ![g][q] = upTo]
    <3>1. Active(m) /\ position[g][q] + 1 <= Len(log[q])
      BY <1>9, <1>a, <2>6 DEF Resolve, Active, Busy, Owners, AtPosition
    <3>2. /\ position'[g][q] = position[g][q] + 1
          /\ committed'[g][q] \in {committed[g][q], position[g][q] + 1}
      BY <2>1, <2>6 DEF TypeOK
    <3>3. \A h \in Groups, p \in Rungs :
             <<h, p>> # <<g, q>> => position'[h][p] = position[h][p] /\ committed'[h][p] = committed[h][p]
      BY <2>1, <2>6 DEF TypeOK
    <3>4. Offsets'
      <4>1. SUFFICES ASSUME NEW h \in Groups, NEW p \in Rungs
                     PROVE  committed'[h][p] <= position'[h][p] /\ position'[h][p] <= Len(log[p])
        BY <2>2 DEF Offsets
      <4>2. committed[h][p] <= position[h][p] /\ position[h][p] <= Len(log[p])
        BY <1>a DEF Offsets
      <4>3. CASE h = g /\ p = q
        <5>1. committed[g][q] <= position[g][q] + 1
          BY <2>1, <2>2, <4>2, <4>3
        <5>2. QED
          BY <2>1, <2>2, <3>1, <3>2, <4>3, <5>1
      <4>4. CASE <<h, p>> # <<g, q>>
        BY <3>3, <4>2, <4>4
      <4>5. QED
        BY <4>3, <4>4
    <3>5. \A o \in Members : GroupOf[o] \in Groups /\ task[o].rung \in Rungs
      BY BusyType
    <3>6. \A o \in Members : o # m /\ Active(o) =>
             position'[GroupOf[o]][task[o].rung] = position[GroupOf[o]][task[o].rung]
      BY <1>a, <3>1, <3>3, <3>5 DEF Owners
    <3>7. Owners'
      BY <1>a, <2>3, <2>4, <3>6, OwnersKept
    <3>8. QED
      BY <3>4, <3>7, OwnershipNext
  <2>7. QED
    BY <1>9, <2>1, <2>5, <2>6 DEF Resolve
<1>10. ASSUME NEW g \in Groups, NEW died \in SUBSET Members, Rebalance(g, died) PROVE Ownership'
  <2>1. /\ position'[g] = [q \in Rungs |-> Restart(g, q)]
        /\ \A h \in Groups \ {g} : position'[h] = position[h]
        /\ UNCHANGED <<log, committed>>
    BY <1>10 DEF Rebalance, TypeOK
  <2>2. Offsets'
    <3>1. SUFFICES ASSUME NEW h \in Groups, NEW q \in Rungs
                   PROVE  committed[h][q] <= position'[h][q] /\ position'[h][q] <= Len(log[q])
      BY <2>1 DEF Offsets
    <3>2. committed[h][q] \in Nat /\ position[h][q] \in Nat /\ Len(log[q]) \in Nat
      BY <1>a DEF TypeOK, LogGrows
    <3>3. committed[h][q] <= position[h][q] /\ position[h][q] <= Len(log[q])
      BY <1>a DEF Offsets
    <3>4. CASE h = g
      BY <2>1, <3>2, <3>3, <3>4 DEF Restart
    <3>5. CASE h # g
      BY <2>1, <3>3, <3>5
    <3>6. QED
      BY <3>4, <3>5
  <2>3. \A m \in Members : Active(m)' => task'[m] = task[m] /\ Active(m) /\ GroupOf[m] # g
    BY <1>10, Evicted DEF Active, Busy, Idle
  <2>4. \A m \in Members : GroupOf[m] \in Groups
    BY BusyType
  <2>5. Owners'
    BY <1>a, <2>1, <2>3, <2>4, OwnersKept
  <2>6. QED
    BY <2>2, <2>5, OwnershipNext
<1>11. ASSUME UNCHANGED vars PROVE Ownership'
  BY <1>11, <1>b DEF vars
<1>12. QED
  BY <1>1, <1>2, <1>3, <1>4, <1>5, <1>6, <1>7, <1>8, <1>9, <1>10, <1>11
     DEF Next, RelayStep, MemberStep, Handle

-----------------------------------------------------------------------------
(* Progress: a group's copy of a fact is let go of only once it is kept    *)
(* higher up.                                                              *)

OnBaseKept == \A f \in Facts, g \in Groups : OnBase(f) => Kept(g, f, 0)

DoneKept ==
    \A m \in Members, f \in Facts, q \in Rungs :
        task[m].pc = "done" /\ task[m].fact = f /\ task[m].rung = q => Kept(GroupOf[m], f, q + 1)

LEMMA ProgressParts == Progress <=> (FromBeginning => OnBaseKept /\ DoneKept)
BY DEF Progress, OnBaseKept, DoneKept

LEMMA ProgressNext == (FromBeginning => OnBaseKept' /\ DoneKept') => Progress'
BY DEF Progress, OnBaseKept, DoneKept

LEMMA KeptGrows ==
  ASSUME TypeOK, TypeOK', Grows,
         NEW g \in Groups, \A q \in Rungs : position'[g][q] <= position[g][q],
         NEW f \in Facts, NEW low \in Nat, Kept(g, f, low)
  PROVE  Kept(g, f, low)'
<1>1. CASE <<g, f>> \in inbox \/ <<g, f>> \in dead
  BY <1>1 DEF Grows, Kept
<1>2. CASE Waiting(g, f, low)
  <2>1. PICK q \in Rungs : low <= q /\ \E i \in (position[g][q] + 1)..Len(log[q]) : log[q][i] = f
    BY <1>2 DEF Waiting
  <2>2. PICK i \in (position[g][q] + 1)..Len(log[q]) : log[q][i] = f
    BY <2>1
  <2>3. position[g][q] \in Nat /\ position'[g][q] \in Nat /\ Len(log[q]) \in Nat /\ Len(log'[q]) \in Nat
    BY DEF TypeOK, Grows, LogGrows
  <2>4. i \in (position'[g][q] + 1)..Len(log'[q])
    BY <2>2, <2>3 DEF Grows, LogGrows
  <2>5. log'[q][i] = f
    BY <2>2, <2>3 DEF Grows, LogGrows
  <2>6. QED
    BY <2>1, <2>4, <2>5 DEF Waiting, Kept
<1>3. QED
  BY <1>1, <1>2 DEF Kept

(* A copy just sent waits for every group that was within its rung.        *)
LEMMA SentWaits ==
  ASSUME TypeOK, Offsets, UNCHANGED position, NEW q \in Rungs, NEW f \in Facts, Send(q, f),
         NEW g \in Groups, NEW low \in Nat, low <= q
  PROVE  Kept(g, f, low)'
<1>1. position[g][q] \in Nat /\ Len(log[q]) \in Nat /\ position[g][q] <= Len(log[q])
  <2>1. log[q] \in Seq(Facts)
    BY DEF TypeOK
  <2>2. QED
    BY <2>1 DEF TypeOK, Offsets
<1>2. Len(log'[q]) = Len(log[q]) + 1 /\ log'[q][Len(log[q]) + 1] = f
  BY SendType
<1>3. Len(log[q]) + 1 \in (position'[g][q] + 1)..Len(log'[q])
  BY <1>1, <1>2
<1>4. QED
  BY <1>2, <1>3 DEF Waiting, Kept

(* The message a member is done with may be passed: it is kept higher up.  *)
LEMMA KeptPast ==
  ASSUME TypeOK, DoneKept, UNCHANGED <<log, inbox, dead>>,
         NEW m \in Members, Active(m), task[m].pc = "done", AtPosition(m),
         position' = [position EXCEPT ![GroupOf[m]][task[m].rung] =
                                          position[GroupOf[m]][task[m].rung] + 1],
         NEW g \in Groups, NEW f \in Facts, NEW low \in Nat, Kept(g, f, low)
  PROVE  Kept(g, f, low)'
<1> DEFINE h == GroupOf[m]
           r == task[m].rung
<1>1. h \in Groups /\ r \in Rungs /\ r \in Nat
  BY BusyType DEF Rungs
<1>2. /\ \A a \in Groups, b \in Rungs : position[a][b] \in Nat
      /\ \A b \in Rungs : b \in Nat /\ Len(log[b]) \in Nat
  <2>1. \A b \in Rungs : log[b] \in Seq(Facts)
    BY DEF TypeOK
  <2>2. \A b \in Rungs : Len(log[b]) \in Nat
    BY <2>1
  <2>3. \A a \in Groups, b \in Rungs : position[a][b] \in Nat
    BY DEF TypeOK
  <2>4. QED
    BY <2>2, <2>3 DEF Rungs
<1>3. /\ position'[h][r] = position[h][r] + 1
      /\ \A a \in Groups, b \in Rungs : <<a, b>> # <<h, r>> => position'[a][b] = position[a][b]
  BY <1>1 DEF TypeOK
<1>4. ASSUME NEW b \in Rungs, NEW i \in (position[g][b] + 1)..Len(log[b]), log[b][i] = f, low <= b,
             <<g, b>> # <<h, r>> \/ i # position[h][r] + 1
      PROVE  Kept(g, f, low)'
  <2>1. i \in (position'[g][b] + 1)..Len(log'[b])
    BY <1>1, <1>2, <1>3, <1>4
  <2>2. QED
    BY <1>4, <2>1 DEF Waiting, Kept
<1>5. CASE <<g, f>> \in inbox \/ <<g, f>> \in dead
  BY <1>5 DEF Kept
<1>6. CASE Waiting(g, f, low)
  <2>1. PICK b \in Rungs : low <= b /\ \E i \in (position[g][b] + 1)..Len(log[b]) : log[b][i] = f
    BY <1>6 DEF Waiting
  <2>2. PICK i \in (position[g][b] + 1)..Len(log[b]) : log[b][i] = f
    BY <2>1
  <2>3. CASE <<g, b>> = <<h, r>> /\ i = position[h][r] + 1
    <3>1. task[m].fact = f
      BY <2>2, <2>3 DEF AtPosition
    <3>2. Kept(h, f, r + 1)
      BY <1>1, <3>1 DEF DoneKept
    <3>3. CASE <<g, f>> \in inbox \/ <<g, f>> \in dead
      BY <3>3, <1>5
    <3>4. CASE Waiting(h, f, r + 1)
      <4>1. PICK c \in Rungs : /\ r + 1 <= c
                               /\ \E j \in (position[h][c] + 1)..Len(log[c]) : log[c][j] = f
        BY <3>4 DEF Waiting
      <4>2. PICK j \in (position[h][c] + 1)..Len(log[c]) : log[c][j] = f
        BY <4>1
      <4>3. low <= c /\ c # r
        <5>1. b = r
          BY <2>3
        <5>2. low <= r /\ r \in Nat /\ c \in Nat /\ r + 1 <= c
          BY <1>1, <1>2, <2>1, <4>1, <5>1
        <5>3. QED
          BY <5>2
      <4>4. QED
        BY <1>4, <2>3, <4>2, <4>3
    <3>5. QED
      BY <2>3, <3>2, <3>3, <3>4 DEF Kept
  <2>4. CASE <<g, b>> # <<h, r>> \/ i # position[h][r] + 1
    BY <1>4, <2>1, <2>2, <2>4
  <2>5. QED
    BY <2>3, <2>4
<1>7. QED
  BY <1>5, <1>6 DEF Kept

LEMMA ProgressStep ==
  TypeOK /\ TypeOK' /\ Ownership /\ Progress /\ [Next]_vars => Progress'
<1> SUFFICES ASSUME TypeOK, TypeOK', Ownership, Progress, [Next]_vars, FromBeginning
             PROVE  OnBaseKept' /\ DoneKept'
  BY ProgressNext
<1>a. Grows /\ LogGrows /\ OnBaseKept /\ DoneKept /\ Offsets /\ Owners
  BY GrowsStep, ProgressParts, OwnershipParts DEF Grows
<1>b. /\ \A q \in Rungs : q \in Nat /\ q + 1 \in Nat
      /\ 0 \in Rungs
      /\ \A g \in Groups, q \in Rungs : position[g][q] \in Nat
  BY DEF Rungs, TypeOK
<1>c. ASSUME UNCHANGED position, NEW g \in Groups, NEW f \in Facts, NEW low \in Nat, Kept(g, f, low)
      PROVE  Kept(g, f, low)'
  <2>1. \A q \in Rungs : position'[g][q] <= position[g][q]
    BY <1>b, <1>c
  <2>2. QED
    BY <1>a, <1>c, <2>1, KeptGrows
<1>d. ASSUME UNCHANGED position,
             NEW q \in Rungs, q # 0, NEW f \in Facts, Send(q, f) \/ UNCHANGED log
      PROVE  OnBaseKept'
  <2>1. log'[0] = log[0]
    BY <1>b, <1>d, SendType
  <2>2. \A h : OnBase(h)' => OnBase(h)
    BY <2>1 DEF OnBase
  <2>3. QED
    BY <1>a, <1>c, <1>d, <2>2 DEF OnBaseKept
<1>e. ASSUME UNCHANGED <<position, log>> PROVE OnBaseKept'
  <2>1. \A h : OnBase(h)' => OnBase(h)
    BY <1>e DEF OnBase
  <2>2. QED
    BY <1>a, <1>c, <1>e, <2>1 DEF OnBaseKept
<1>f. ASSUME UNCHANGED position,
             \A m \in Members : task'[m].pc = "done" =>
                 task[m].pc = "done" /\ task'[m].fact = task[m].fact /\ task'[m].rung = task[m].rung
      PROVE  DoneKept'
  <2>1. SUFFICES ASSUME NEW m \in Members, NEW f \in Facts, NEW q \in Rungs,
                        task'[m].pc = "done", task'[m].fact = f, task'[m].rung = q
                 PROVE  Kept(GroupOf[m], f, q + 1)'
    BY DEF DoneKept
  <2>2. Kept(GroupOf[m], f, q + 1)
    BY <1>a, <1>f, <2>1 DEF DoneKept
  <2>3. GroupOf[m] \in Groups
    BY BusyType
  <2>4. QED
    BY <1>b, <1>c, <1>f, <2>2, <2>3
<1>g. ASSUME UNCHANGED position, NEW m \in Members, Busy(m), Become(m, "done"),
             Kept(GroupOf[m], task[m].fact, task[m].rung + 1) \/
             \A g \in Groups, f \in Facts, q \in Rungs :
                 g = GroupOf[m] /\ f = task[m].fact /\ q = task[m].rung => Kept(g, f, q + 1)'
      PROVE  DoneKept'
  <2>1. SUFFICES ASSUME NEW o \in Members, NEW f \in Facts, NEW q \in Rungs,
                        task'[o].pc = "done", task'[o].fact = f, task'[o].rung = q
                 PROVE  Kept(GroupOf[o], f, q + 1)'
    BY DEF DoneKept
  <2>2. /\ \A x \in Members : task'[x].fact = task[x].fact /\ task'[x].rung = task[x].rung
        /\ \A x \in Members \ {m} : task'[x] = task[x]
    BY <1>g, BecomeType
  <2>3. GroupOf[o] \in Groups
    BY BusyType
  <2>4. CASE o = m
    BY <1>b, <1>c, <1>g, <2>1, <2>2, <2>3, <2>4
  <2>5. CASE o # m
    <3>1. Kept(GroupOf[o], f, q + 1)
      BY <1>a, <2>1, <2>2, <2>5 DEF DoneKept
    <3>2. QED
      BY <1>b, <1>c, <1>g, <2>3, <3>1
  <2>6. QED
    BY <2>4, <2>5
<1>1. ASSUME NEW f \in Facts, Enqueue(f) PROVE OnBaseKept' /\ DoneKept'
  BY <1>1, <1>e, <1>f DEF Enqueue, offsetVars
<1>2. ASSUME NEW r \in Relays, Claim(r) \/ Stamp(r) PROVE OnBaseKept' /\ DoneKept'
  BY <1>2, <1>e, <1>f DEF Claim, Stamp, offsetVars
<1>3. ASSUME NEW r \in Relays, PublishNext(r) PROVE OnBaseKept' /\ DoneKept'
  <2>1. PICK f \in unsent[r] : Send(0, f) \/ UNCHANGED log
    BY <1>3 DEF PublishNext
  <2>2. f \in Facts /\ UNCHANGED <<position, task>>
    BY <1>3 DEF TypeOK, PublishNext, offsetVars
  <2>3. DoneKept'
    BY <1>f, <2>2
  <2>4. OnBaseKept'
    <3>1. CASE UNCHANGED log
      BY <1>e, <2>2, <3>1
    <3>2. CASE Send(0, f)
      <4>1. SUFFICES ASSUME NEW h \in Facts, NEW g \in Groups, OnBase(h)' PROVE Kept(g, h, 0)'
        BY DEF OnBaseKept
      <4>2. CASE h = f
        BY <1>a, <1>b, <2>2, <3>2, <4>2, SentWaits
      <4>3. CASE h # f
        <5>1. PICK i \in 1..Len(log'[0]) : log'[0][i] = h
          BY <4>1 DEF OnBase
        <5>2. i \in 1..Len(log[0]) /\ log[0][i] = h
          BY <1>a, <1>b, <2>2, <3>2, <4>3, <5>1, SendType DEF LogGrows
        <5>3. OnBase(h)
          BY <5>2 DEF OnBase
        <5>4. QED
          BY <1>a, <1>c, <2>2, <5>3 DEF OnBaseKept
      <4>4. QED
        BY <4>2, <4>3
    <3>3. QED
      BY <2>1, <3>1, <3>2
  <2>5. QED
    BY <2>3, <2>4
<1>4. ASSUME NEW r \in Relays, TimeOut(r) \/ RelayFails(r) PROVE OnBaseKept' /\ DoneKept'
  BY <1>4, <1>e, <1>f DEF TimeOut, RelayFails, offsetVars
<1>5. ASSUME NEW m \in Members, NEW q \in Rungs, Receive(m, q) PROVE OnBaseKept' /\ DoneKept'
  <2>1. task'[m].pc = "received" /\ \A o \in Members \ {m} : task'[o] = task[o]
    BY <1>5 DEF Receive, TypeOK
  <2>2. QED
    BY <1>5, <1>e, <1>f, <2>1 DEF Receive, offsetVars
<1>6. ASSUME NEW m \in Members, Begin(m) PROVE OnBaseKept' /\ DoneKept'
  <2>1. Busy(m) /\ UNCHANGED <<position, log, inbox>>
    BY <1>6 DEF Begin, Busy, offsetVars, effectVars
  <2>2. CASE Become(m, "done") /\ Effect(m) \in inbox
    BY <1>e, <1>g, <2>1, <2>2 DEF Kept, Effect
  <2>3. CASE Become(m, "applying")
    <3>1. task'[m].pc = "applying" /\ \A o \in Members \ {m} : task'[o] = task[o]
      BY <2>1, <2>3, BecomeType
    <3>2. QED
      BY <1>e, <1>f, <2>1, <3>1
  <2>4. QED
    BY <1>6, <2>2, <2>3 DEF Begin
<1>7. ASSUME NEW m \in Members, Commit(m) PROVE OnBaseKept' /\ DoneKept'
  <2>1. Busy(m) /\ Become(m, "done") /\ Effect(m) \in inbox' /\ UNCHANGED <<position, log>>
    BY <1>7 DEF Commit, Busy, offsetVars
  <2>2. QED
    BY <1>e, <1>g, <2>1 DEF Kept, Effect
<1>8. ASSUME NEW m \in Members, Throw(m) PROVE OnBaseKept' /\ DoneKept'
  <2>1. Busy(m) /\ Become(m, "thrown") /\ UNCHANGED <<position, log>>
    BY <1>8 DEF Throw, Busy, offsetVars
  <2>2. task'[m].pc = "thrown" /\ \A o \in Members \ {m} : task'[o] = task[o]
    BY <2>1, BecomeType
  <2>3. QED
    BY <1>e, <1>f, <2>1, <2>2
<1>9. ASSUME NEW m \in Members, Climb(m) PROVE OnBaseKept' /\ DoneKept'
  <2> DEFINE q == task[m].rung
             f == task[m].fact
  <2>1. Busy(m) /\ Become(m, "done") /\ UNCHANGED position
    BY <1>9 DEF Climb, Busy, offsetVars
  <2>2. q \in 0..Levels /\ q \in Rungs /\ f \in Facts /\ GroupOf[m] \in Groups
    BY <2>1, BusyType
  <2>3. CASE q < Levels /\ Send(q + 1, f)
    <3>1. q + 1 \in Rungs /\ q + 1 # 0 /\ q + 1 \in Nat /\ q + 1 <= q + 1
      BY <2>2, <2>3 DEF Rungs
    <3>2. ASSUME NEW g \in Groups, NEW h \in Facts, NEW p \in Rungs, g = GroupOf[m], h = f, p = q
          PROVE  Kept(g, h, p + 1)'
      <4>1. p + 1 \in Rungs /\ p + 1 \in Nat /\ p + 1 <= p + 1 /\ Send(p + 1, h)
        BY <2>3, <3>1, <3>2
      <4>2. QED
        BY <1>a, <2>1, <4>1, SentWaits
    <3>3. DoneKept'
      BY <1>g, <2>1, <3>2
    <3>4. OnBaseKept'
      BY <1>d, <2>1, <2>2, <2>3, <3>1
    <3>5. QED
      BY <3>3, <3>4
  <2>4. CASE dead' = dead \cup {<<GroupOf[m], f>>} /\ UNCHANGED log
    BY <1>e, <1>g, <2>1, <2>4 DEF Kept
  <2>5. QED
    BY <1>9, <2>3, <2>4 DEF Climb
<1>10. ASSUME NEW m \in Members, Resolve(m) PROVE OnBaseKept' /\ DoneKept'
  <2>1. /\ UNCHANGED <<log, inbox, dead>> /\ task[m].pc = "done"
        /\ task'[m] = Idle /\ \A o \in Members \ {m} : task'[o] = task[o]
    BY <1>10 DEF Resolve, TypeOK, effectVars
  <2>2. task'[m].pc # "done"
    BY <2>1 DEF Idle
  <2>3. CASE UNCHANGED position
    BY <1>e, <1>f, <2>1, <2>2, <2>3
  <2>4. CASE /\ ~task[m].stale
             /\ position' = [position EXCEPT ![GroupOf[m]][task[m].rung] =
                                                 position[GroupOf[m]][task[m].rung] + 1]
    <3>1. Active(m) /\ AtPosition(m)
      BY <1>a, <2>1, <2>4 DEF Active, Busy, Owners
    <3>2. \A g \in Groups, f \in Facts, low \in Nat : Kept(g, f, low) => Kept(g, f, low)'
      BY <1>a, <2>1, <2>4, <3>1, KeptPast
    <3>3. \A f : OnBase(f)' => OnBase(f)
      BY <2>1 DEF OnBase
    <3>4. OnBaseKept'
      BY <1>a, <3>2, <3>3 DEF OnBaseKept
    <3>5. \A o \in Members : GroupOf[o] \in Groups
      BY BusyType
    <3>6. DoneKept'
      BY <1>a, <1>b, <2>1, <2>2, <3>2, <3>5 DEF DoneKept
    <3>7. QED
      BY <3>4, <3>6
  <2>5. QED
    BY <1>10, <2>3, <2>4 DEF Resolve, offsetVars
<1>11. ASSUME NEW g \in Groups, NEW died \in SUBSET Members, Rebalance(g, died) PROVE OnBaseKept' /\ DoneKept'
  <2>1. /\ position'[g] = [q \in Rungs |-> committed[g][q]]
        /\ \A h \in Groups \ {g} : position'[h] = position[h]
        /\ UNCHANGED log
    BY <1>11 DEF Rebalance, Restart, TypeOK
  <2>2. ASSUME NEW h \in Groups, NEW q \in Rungs PROVE position'[h][q] <= position[h][q]
    <3>1. committed[h][q] <= position[h][q]
      BY <1>a DEF Offsets
    <3>2. position[h][q] \in Nat
      BY <1>b
    <3>3. position'[h][q] \in {committed[h][q], position[h][q]}
      BY <2>1
    <3>4. QED
      BY <3>1, <3>2, <3>3
  <2>3. \A h \in Groups, f \in Facts, low \in Nat : Kept(h, f, low) => Kept(h, f, low)'
    BY <1>a, <2>2, KeptGrows
  <2>4. \A f : OnBase(f)' => OnBase(f)
    BY <2>1 DEF OnBase
  <2>5. OnBaseKept'
    BY <1>a, <2>3, <2>4 DEF OnBaseKept
  <2>6. \A m \in Members : task'[m].pc = "done" =>
           task[m].pc = "done" /\ task'[m].fact = task[m].fact /\ task'[m].rung = task[m].rung
    BY <1>11, Evicted DEF Idle
  <2>7. \A m \in Members : GroupOf[m] \in Groups
    BY BusyType
  <2>8. DoneKept'
    BY <1>a, <1>b, <2>3, <2>6, <2>7 DEF DoneKept
  <2>9. QED
    BY <2>5, <2>8
<1>12. ASSUME UNCHANGED vars PROVE OnBaseKept' /\ DoneKept'
  BY <1>12, <1>e, <1>f DEF vars, offsetVars
<1>13. QED
  BY <1>1, <1>2, <1>3, <1>4, <1>5, <1>6, <1>7, <1>8, <1>9, <1>10, <1>11, <1>12
     DEF Next, RelayStep, MemberStep, Handle

-----------------------------------------------------------------------------
(* The theorems.                                                           *)

LEMMA InvStep == Inv /\ [Next]_vars => Inv'
BY TypeStep, SourcesStep, OwnershipStep, ProgressStep, EffectsStep DEF Inv, Effects

(* The inductive invariant holds of every behaviour.                       *)
THEOREM Invariance == Spec => []Inv
BY InitInv, InvStep, PTL DEF Spec

(* A stamped row is applied, waits or is a dead letter in every group, when*)
(* a group without a committed offset starts at the topic's beginning.     *)
THEOREM LosesNothing == FromBeginning => (Spec => []NeverLost)
<1> SUFFICES ASSUME FromBeginning PROVE Spec => []NeverLost
  OBVIOUS
<1>1. Inv => NeverLost
  BY DEF Inv, TypeOK, Sources, Progress, NeverLost
<1>2. QED
  BY <1>1, Invariance, PTL

(* Copies of a fact, however many and wherever handled, take effect once.  *)
THEOREM EffectivelyOnce == Spec => []AppliedOnce
<1>1. Inv => AppliedOnce
  BY DEF Inv
<1>2. QED
  BY <1>1, Invariance, PTL

LEMMA RefinementStep == Inv /\ [Next]_vars => [Promise!Next]_(Promise!vars)
<1> SUFFICES ASSUME Inv, [Next]_vars PROVE [Promise!Next]_(Promise!vars)
  OBVIOUS
<1>a. TypeOK /\ Sources /\ Effects
  BY DEF Inv, Effects
<1>b. ASSUME UNCHANGED <<outbox, ran, dead>> PROVE [Promise!Next]_(Promise!vars)
  BY <1>b DEF Promise!vars
<1>1. ASSUME NEW f \in Facts, Enqueue(f) PROVE [Promise!Next]_(Promise!vars)
  <2>1. Promise!Accept(f)
    BY <1>1 DEF Enqueue, Promise!Accept, effectVars
  <2>2. QED
    BY <2>1 DEF Promise!Next
<1>2. ASSUME NEW r \in Relays, Claim(r) \/ Stamp(r) \/ TimeOut(r) \/ RelayFails(r)
      PROVE  [Promise!Next]_(Promise!vars)
  BY <1>2, <1>b DEF Claim, Stamp, TimeOut, RelayFails, effectVars
<1>3. ASSUME NEW r \in Relays, PublishNext(r) PROVE [Promise!Next]_(Promise!vars)
  <2>1. PICK f \in unsent[r] : UNCHANGED dead \/ dead' = dead \cup {<<Relay, f>>}
    BY <1>3 DEF PublishNext
  <2>2. f \in Facts /\ f \in outbox
    BY <1>a DEF TypeOK, Sources
  <2>3. CASE UNCHANGED dead
    BY <1>3, <1>b, <2>3 DEF PublishNext, effectVars
  <2>4. CASE dead' = dead \cup {<<Relay, f>>}
    <3>1. Promise!GiveUp(Relay, f)
      BY <1>3, <2>2, <2>4 DEF PublishNext, Promise!GiveUp, effectVars
    <3>2. QED
      BY <2>2, <3>1 DEF Promise!Next
  <2>5. QED
    BY <2>1, <2>3, <2>4
<1>4. ASSUME NEW m \in Members, Commit(m) PROVE [Promise!Next]_(Promise!vars)
  <2>1. /\ Effect(m) \in Groups \X Facts /\ Effect(m) \notin inbox
        /\ GroupOf[m] \in Groups /\ task[m].fact \in Facts /\ task[m].fact \in outbox
    BY <1>4, <1>a, BusyType DEF Commit, Busy, Effects, OneEffect, Sources
  <2>2. ran[Effect(m)] = 0
    BY <1>a, <2>1 DEF Effects, AppliedOnce, Effect
  <2>3. ran' = [ran EXCEPT ![Effect(m)] = 1]
    BY <1>4, <2>2 DEF Commit
  <2>4. Promise!Apply(GroupOf[m], task[m].fact)
    BY <1>4, <2>1, <2>2, <2>3 DEF Commit, Promise!Apply, Effect, relayVars
  <2>5. QED
    BY <2>1, <2>4 DEF Promise!Next
<1>5. ASSUME NEW m \in Members, Climb(m) PROVE [Promise!Next]_(Promise!vars)
  <2>1. GroupOf[m] \in Groups /\ task[m].fact \in Facts /\ task[m].fact \in outbox
    BY <1>5, <1>a, BusyType DEF Climb, Busy, Sources
  <2>2. CASE UNCHANGED dead
    BY <1>5, <1>b, <2>2 DEF Climb, relayVars, effectVars
  <2>3. CASE dead' = dead \cup {<<GroupOf[m], task[m].fact>>}
    <3>1. Promise!GiveUp(GroupOf[m], task[m].fact)
      BY <1>5, <2>1, <2>3 DEF Climb, Promise!GiveUp, relayVars, effectVars
    <3>2. QED
      BY <2>1, <3>1 DEF Promise!Next
  <2>4. QED
    BY <1>5, <2>2, <2>3 DEF Climb
<1>6. ASSUME NEW m \in Members, Begin(m) \/ Throw(m) \/ Resolve(m) \/ \E q \in Rungs : Receive(m, q)
      PROVE  [Promise!Next]_(Promise!vars)
  BY <1>6, <1>b DEF Begin, Throw, Resolve, Receive, relayVars, effectVars
<1>7. ASSUME NEW g \in Groups, NEW died \in SUBSET Members, Rebalance(g, died)
      PROVE  [Promise!Next]_(Promise!vars)
  BY <1>7, <1>b DEF Rebalance, relayVars, effectVars
<1>8. ASSUME UNCHANGED vars PROVE [Promise!Next]_(Promise!vars)
  BY <1>8, <1>b DEF vars, relayVars, effectVars
<1>9. QED
  BY <1>1, <1>2, <1>3, <1>4, <1>5, <1>6, <1>7, <1>8 DEF Next, RelayStep, MemberStep, Handle

(* FactRail implements FactDelivery: every step is one of its steps or a   *)
(* stutter.                                                                *)
THEOREM Refinement == Spec => ImplementsFactDelivery
<1>1. Init => Promise!Init
  BY DEF Init, Promise!Init
<1>2. QED
  BY <1>1, RefinementStep, Invariance, PTL DEF Spec, ImplementsFactDelivery, Promise!Spec
=============================================================================
